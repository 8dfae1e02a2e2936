--------------------------- MODULE AgentTurnProofs ---------------------------
(***************************************************************************)
(* Proofs about a turn and its parts.  AgentTurn, for any number of rounds *)
(* and attempts and answers of any length: a client that left causes no    *)
(* new work, `done` and a client's tool call end the turn, and every turn  *)
(* implements the contract of TurnReply; the inductive invariant ties what *)
(* is allowed next to the phase of the runner.  ToolRoute: what a call     *)
(* reaches is what the model was shown.  ProxyTunnel: nothing is written   *)
(* to a proxy that did not agree.  Conversation: for a history of any      *)
(* length, the request says what the client said.  RpcFraming: however the *)
(* body of an answer is cut, the client takes it for what was meant.       *)
(* WireFormat: a message cut anywhere is read as what was written, or as   *)
(* an error.  ProviderStream: however a provider's answer is cut, the turn *)
(* is given what the provider said.                                        *)
(*                                                                         *)
(* What is computed is recursive over sequences and numbers.  That every   *)
(* number, and every sequence, has a property is proved by the least that  *)
(* would lack it; that a recursive function obeys its definition, by the   *)
(* values up to each number.  Both are lemmas here.                        *)
(***************************************************************************)
EXTENDS AgentTurn, ToolRoute, ProxyTunnel, Conversation, RpcFraming, WireFormat, ProviderStream,
        WellFoundedInduction, TLAPS

\* Attempts are left while the runner pauses.
AttemptsLeft ==
  /\ phase = "backoff" => attempt < Attempts
  /\ phase \in {"tunnel", "asking", "backoff"} => attempt > 0

\* Work for a client that left: none while it is there; the retries of one
\* call; and a tool only as the last thing.
LateWork ==
  /\ late.asks = 0
  /\ ~Gone => late.requests = 0 /\ late.tools = 0
  /\ late.requests = 0 \/ late.requests < attempt
  /\ late.tools = 0 \/ (late.tools = 1 /\ phase \in {"tools", "over"})

\* A client's tool was called in the answer being read, or the turn is over.
HandedOver == handedOff => phase \in {"streaming", "over"}

\* The response while the turn runs, and what it can show.
ReplyOpen ==
  /\ phase # "over" => reply \in {"none", "open"}
  /\ phase = "resolving" => ~emitted
  /\ shown => emitted \/ phase = "over"
  /\ ingress = "agent" => reply # "none"
  /\ ingress = "buffered" => ~shown

IInv == TypeOK /\ AttemptsLeft /\ LateWork /\ HandedOver /\ ReplyOpen /\ DoneIsLast

LEMMA InitIInv == ASSUME Init PROVE IInv
<1>1. late = [asks |-> 0, requests |-> 0, tools |-> 0] /\ phase = "resolving"
  BY DEF Init
<1>2. late \in [asks : Nat, requests : Nat, tools : Nat] /\ LateWork
  <2>1. late.asks = 0 /\ late.requests = 0 /\ late.tools = 0
    BY <1>1
  <2>2. late \in [asks : Nat, requests : Nat, tools : Nat]
    BY <1>1
  <2> QED BY <2>1, <2>2 DEF LateWork
<1>3. TypeOK
  <2>1. /\ round \in 0..MaxRounds /\ attempt \in 0..Attempts
        /\ events \in 0..AnswerLength /\ pending \in 0..events /\ answered \in 0..pending
        /\ made \in [CallKinds -> Nat] /\ delivered \in Nat /\ named \in Nat
    BY TurnAssumption DEF Init
  <2>2. /\ ingress \in Ingresses /\ phase \in Phases /\ route \in Routes /\ silent \in BOOLEAN
        /\ deaf \in BOOLEAN /\ handedOff \in BOOLEAN /\ emitted \in BOOLEAN /\ closed \in BOOLEAN
        /\ reply \in {"none", "open", "ended", "failed"}
        /\ shown \in BOOLEAN /\ finished \in BOOLEAN
    BY DEF Init, Phases
  <2> QED BY <1>2, <2>1, <2>2 DEF TypeOK
<1>4. AttemptsLeft /\ HandedOver /\ ReplyOpen /\ DoneIsLast
  BY DEF Init, AttemptsLeft, HandedOver, ReplyOpen, DoneIsLast
<1> QED BY <1>2, <1>3, <1>4 DEF IInv

\* A new call of the provider, made while the client is there.
LEMMA AskKeeps ==
  ASSUME IInv, Ask, ~Gone,
         phase \in {"resolving", "tools"}, finished' = finished,
         emitted' \in BOOLEAN, emitted => emitted',
         UNCHANGED <<ingress, closed, reply>>
  PROVE  /\ phase' \in {"tunnel", "asking"} /\ attempt' \in 0..Attempts /\ deaf' \in BOOLEAN
         /\ events' \in 0..AnswerLength /\ pending' \in 0..events' /\ answered' \in 0..pending'
         /\ handedOff' \in BOOLEAN
         /\ late' = late /\ late.requests = 0 /\ late.tools = 0
         /\ AttemptsLeft' /\ LateWork' /\ HandedOver' /\ DoneIsLast' /\ ~Gone'
<1>1. late' = late /\ late.requests = 0 /\ late.tools = 0 /\ ~Gone' /\ deaf' \in BOOLEAN
  BY DEF Ask, Issue, IInv, LateWork, Gone
<1>2. /\ phase' \in {"tunnel", "asking"} /\ attempt' = 1 /\ events' = 0 /\ pending' = 0 /\ answered' = 0
      /\ handedOff' = FALSE
  BY DEF Ask, Issue
<1>3. /\ attempt' \in 0..Attempts /\ events' \in 0..AnswerLength
      /\ pending' \in 0..events' /\ answered' \in 0..pending'
  BY <1>2, TurnAssumption
<1>4. AttemptsLeft' /\ LateWork' /\ HandedOver'
  BY <1>1, <1>2 DEF AttemptsLeft, LateWork, HandedOver, IInv
<1>5. DoneIsLast'
  BY <1>2 DEF IInv, DoneIsLast, TypeOK
<1> QED BY <1>1, <1>2, <1>3, <1>4, <1>5

LEMMA ResolveKeeps == ASSUME IInv, Resolve PROVE IInv'
<1>1. CASE ~Gone /\ Ask /\ UNCHANGED <<reply, finished>>
  <2>1. UNCHANGED <<ingress, round, emitted, closed, tally, finished, reply>>
    BY <1>1 DEF Resolve
  <2> QED BY <1>1, <2>1, AskKeeps DEF Resolve, line, tally, handed, IInv, TypeOK, Phases, ReplyOpen
<1>2. CASE Gone /\ Finish /\ UNCHANGED <<attempt, deaf, answer, finished, late>>
  BY <1>2 DEF Resolve, Finish, Gone, line, answer, tally, handed, IInv, TypeOK, Phases,
     AttemptsLeft, LateWork, HandedOver, ReplyOpen, DoneIsLast
<1>3. CASE Throw /\ UNCHANGED <<attempt, deaf, answer, late>>
  BY <1>3 DEF Resolve, Throw, Gone, line, answer, tally, handed, IInv, TypeOK, Phases,
     AttemptsLeft, LateWork, HandedOver, ReplyOpen, DoneIsLast
<1> QED BY <1>1, <1>2, <1>3 DEF Resolve

\* The attempts of one provider call.
LEMMA AttemptKeeps ==
  ASSUME IInv, TunnelOpens \/ AttemptAnswered \/ AttemptFails \/ Retry PROVE IInv'
<1>1. CASE AttemptAnswered
  BY <1>1 DEF AttemptAnswered, Gone, line, answer, output, tally, handed, IInv, TypeOK, Phases,
     AttemptsLeft, LateWork, HandedOver, ReplyOpen, DoneIsLast
<1>2. CASE AttemptFails
  BY <1>2 DEF AttemptFails, Gone, line, answer, output, tally, handed, IInv, TypeOK, Phases,
     AttemptsLeft, LateWork, HandedOver, ReplyOpen, DoneIsLast
<1>3. CASE Retry
  <2>1. attempt \in Nat /\ attempt' = attempt + 1 /\ attempt < Attempts /\ deaf' \in BOOLEAN
    BY <1>3, TurnAssumption DEF Retry, Issue, IInv, TypeOK, AttemptsLeft, Gone
  <2>2. /\ late' \in [asks : Nat, requests : Nat, tools : Nat]
        /\ late'.asks = late.asks /\ late'.tools = late.tools
        /\ IF Gone THEN late'.requests = late.requests + 1 ELSE late' = late
    BY <1>3 DEF Retry, IInv, TypeOK
  <2>3. LateWork'
    BY <1>3, <2>1, <2>2 DEF Retry, Issue, line, Gone, IInv, TypeOK, LateWork, AttemptsLeft
  <2>4. TypeOK'
    BY <1>3, <2>1, <2>2, TurnAssumption
       DEF Retry, Issue, line, answer, output, tally, handed, IInv, TypeOK, Phases
  <2> QED BY <1>3, <2>1, <2>3, <2>4 DEF Retry, Issue, line, answer, output, tally, handed, IInv,
          TypeOK, AttemptsLeft, HandedOver, ReplyOpen, DoneIsLast
<1>4. CASE TunnelOpens
  BY <1>4 DEF TunnelOpens, Gone, line, answer, output, tally, handed, IInv, TypeOK, Phases,
     AttemptsLeft, LateWork, HandedOver, ReplyOpen, DoneIsLast
<1> QED BY <1>1, <1>2, <1>3, <1>4

\* A failure ends the turn.
LEMMA FailureKeeps == ASSUME IInv, AskFails \/ StreamFails PROVE IInv'
<1>1. /\ Caught /\ phase \in {"tunnel", "asking", "streaming"}
      /\ UNCHANGED <<line, ingress, round, attempt, deaf, answer, emitted, closed, late>>
  BY DEF AskFails, StreamFails
<1>2. CASE ~emitted
  BY <1>1, <1>2 DEF Caught, Throw, Gone, line, answer, tally, handed, IInv, TypeOK, Phases,
     AttemptsLeft, LateWork, HandedOver, ReplyOpen, DoneIsLast
<1>3. CASE emitted
  <2>1. /\ phase' = "over"
        /\ reply' \in {reply, "ended", "failed"}
        /\ reply' = "ended" /\ ~Gone => finished'
        /\ finished' \in BOOLEAN
        /\ UNCHANGED <<shown, made, delivered, named>>
    BY <1>1, <1>3 DEF Caught, handed, IInv, ReplyOpen, TypeOK, Gone
  <2>2. Gone' = Gone /\ (Gone => reply' = reply)
    BY <1>1, <1>3 DEF Caught, Gone
  <2>3. DoneIsLast'
    BY <1>1, <2>1, <2>2 DEF DoneIsLast, IInv, ReplyOpen, Gone
  <2>4. TypeOK'
    BY <1>1, <2>1 DEF line, answer, IInv, TypeOK, Phases
  <2>5. AttemptsLeft' /\ LateWork' /\ HandedOver'
    BY <1>1, <2>1, <2>2 DEF answer, IInv, AttemptsLeft, LateWork, HandedOver
  <2>6. ReplyOpen'
    BY <1>1, <2>1 DEF IInv, ReplyOpen
  <2> QED BY <2>3, <2>4, <2>5, <2>6 DEF IInv
<1> QED BY <1>2, <1>3 DEF IInv, TypeOK

\* The events of a provider answer.
LEMMA EventKeeps ==
  ASSUME IInv, Text \/ Usage \/ (\E kind \in CallKinds : ClientCall(kind)) \/ ServerCall
  PROVE  IInv'
<1> USE DEF Streaming, Forward, Show, Gone, line, answer, output, tally, handed, IInv
<1>1. phase = "streaming" /\ phase' \in {"streaming", "over"} /\ events' \in 0..AnswerLength
  BY TurnAssumption DEF Text, Usage, ClientCall, ServerCall, TypeOK
<1>2. CASE Text
  <2>1. TypeOK'
    BY <1>1, <1>2 DEF Text, TypeOK, Phases
  <2> QED BY <1>1, <1>2, <2>1
          DEF Text, TypeOK, AttemptsLeft, LateWork, HandedOver, ReplyOpen, DoneIsLast
<1>3. CASE Usage
  <2>1. TypeOK'
    BY <1>1, <1>3 DEF Usage, TypeOK, Phases
  <2> QED BY <1>1, <1>3, <2>1
          DEF Usage, TypeOK, AttemptsLeft, LateWork, HandedOver, ReplyOpen, DoneIsLast
<1>4. ASSUME NEW kind \in CallKinds, ClientCall(kind) PROVE IInv'
  <2>1. TypeOK'
    BY <1>1, <1>4 DEF ClientCall, TypeOK, Phases
  <2> QED BY <1>1, <1>4, <2>1
          DEF ClientCall, TypeOK, AttemptsLeft, LateWork, HandedOver, ReplyOpen, DoneIsLast
<1>5. CASE ServerCall
  <2>1. TypeOK'
    BY <1>1, <1>5, TurnAssumption DEF ServerCall, TypeOK, Phases
  <2> QED BY <1>1, <1>5, <2>1
          DEF ServerCall, TypeOK, AttemptsLeft, LateWork, HandedOver, ReplyOpen, DoneIsLast
<1> QED BY <1>2, <1>3, <1>4, <1>5

\* An answer that ends well.
LEMMA AnswerKeeps ==
  ASSUME IInv, AnswerEnds \/ ToolsBegin \/ RoundsSpent PROVE IInv'
<1> USE DEF Gone, line, answer, output, tally, handed, IInv
<1>1. CASE AnswerEnds
  BY <1>1 DEF AnswerEnds, Finish, TypeOK, Phases, AttemptsLeft, LateWork, HandedOver, ReplyOpen,
     DoneIsLast
<1>2. CASE RoundsSpent
  BY <1>2 DEF RoundsSpent, TypeOK, Phases, AttemptsLeft, LateWork, HandedOver, ReplyOpen, DoneIsLast
<1>3. CASE ToolsBegin
  <2>1. late.tools = 0
    BY <1>3 DEF ToolsBegin, LateWork
  <2>2. /\ late' \in [asks : Nat, requests : Nat, tools : Nat]
        /\ late'.asks = late.asks /\ late'.requests = late.requests
        /\ late'.tools = IF Gone THEN 1 ELSE 0
    BY <1>3, <2>1 DEF ToolsBegin, TypeOK
  <2>3. TypeOK'
    BY <1>3, <2>2, TurnAssumption DEF ToolsBegin, TypeOK, Phases
  <2>4. LateWork'
    BY <1>3, <2>2 DEF ToolsBegin, LateWork
  <2> QED BY <1>3, <2>3, <2>4
          DEF ToolsBegin, HandsOver, TypeOK, AttemptsLeft, HandedOver, ReplyOpen, DoneIsLast
<1> QED BY <1>1, <1>2, <1>3

LEMMA ToolKeeps == ASSUME IInv, ToolEnds PROVE IInv'
<1>1. /\ phase = "tools" /\ emitted' = TRUE /\ shown' \in BOOLEAN
      /\ ingress = "buffered" => ~shown'
      /\ UNCHANGED <<line, ingress, round, closed, reply, finished, handed>>
  BY DEF ToolEnds, IInv, TypeOK, ReplyOpen
<1>2. ReplyOpen'
  <2>1. phase' \in {"over", "tools", "tunnel", "asking"}
    BY <1>1 DEF ToolEnds, Ask, Issue
  <2> QED BY <1>1, <2>1 DEF IInv, ReplyOpen
<1>3. CASE Gone
  BY <1>1, <1>2, <1>3 DEF ToolEnds, Gone, line, answer, handed, IInv, TypeOK, Phases, AttemptsLeft,
     LateWork, HandedOver, DoneIsLast
<1>4. CASE ~Gone /\ answered + 1 < pending
  <2>1. answered' \in 0..pending'
    BY <1>4, TurnAssumption DEF ToolEnds, IInv, TypeOK
  <2> QED BY <1>1, <1>2, <1>4, <2>1 DEF ToolEnds, Gone, line, handed, IInv, TypeOK, Phases,
          AttemptsLeft, LateWork, HandedOver, DoneIsLast
<1>5. CASE ~Gone /\ ~(answered + 1 < pending)
  <2>1. Ask
    BY <1>5 DEF ToolEnds
  <2> QED BY <1>1, <1>2, <1>5, <2>1, AskKeeps DEF line, handed, IInv, TypeOK, Phases
<1> QED BY <1>3, <1>4, <1>5

LEMMA NextIInv == ASSUME IInv, [Next]_vars PROVE IInv'
<1>1. CASE ClientLeaves
  BY <1>1 DEF ClientLeaves, Gone, line, answer, output, tally, handed, IInv, TypeOK, AttemptsLeft,
     LateWork, HandedOver, ReplyOpen, DoneIsLast
<1>2. CASE FallsSilent
  <2>1. TypeOK'
    BY <1>2 DEF FallsSilent, answer, output, tally, handed, IInv, TypeOK
  <2> QED BY <1>2, <2>1 DEF FallsSilent, Gone, answer, output, tally, handed, IInv, AttemptsLeft,
          LateWork, HandedOver, ReplyOpen, DoneIsLast
<1>3. CASE UNCHANGED vars
  BY <1>3 DEF vars, Gone, line, answer, output, tally, handed, IInv, TypeOK, AttemptsLeft, LateWork,
     HandedOver, ReplyOpen, DoneIsLast
<1> QED BY <1>1, <1>2, <1>3, ResolveKeeps, AttemptKeeps, FailureKeeps, EventKeeps, AnswerKeeps,
        ToolKeeps DEF Next, Step, Provider

THEOREM Invariance == Spec => []IInv
BY InitIInv, NextIInv, PTL DEF Spec

-----------------------------------------------------------------------------
\* Types of the turn's state, and the round limit.
THEOREM TypeCorrect == Spec => []TypeOK
BY Invariance, PTL DEF IInv

\* Once the agent's client is gone, no provider is asked again, at most one
\* server tool starts, and only the call in progress is retried.
THEOREM ClientGoneWorkStops == Spec => []NoNewWorkAfterClose
<1>1. IInv => NoNewWorkAfterClose
  BY TurnAssumption DEF IInv, TypeOK, LateWork, NoNewWorkAfterClose
<1> QED BY <1>1, Invariance, PTL

\* `done` is the last thing a consumer is told, and every response that ends
\* well was told it.
THEOREM DoneComesLast == Spec => []DoneIsLast
BY Invariance, PTL DEF IInv

\* A turn in which the model called a client's tool ends with that answer: the
\* runner never runs a server tool, nor asks again, on top of it (turn.ts:154).
HandOffEndsTurn == [][handedOff => phase' \in {"streaming", "over"}]_vars

\* In every turn a client's tool call is in the last answer.
THEOREM HandOffIsFinal == Spec => HandOffEndsTurn
<1>1. ASSUME IInv, [Next]_vars, handedOff PROVE phase' \in {"streaming", "over"} \/ UNCHANGED vars
  <2>1. phase \in {"streaming", "over"}
    BY <1>1 DEF IInv, HandedOver
  <2> QED BY <1>1, <2>1 DEF Next, Step, Provider, Resolve, TunnelOpens, AttemptAnswered,
          AttemptFails,
          AskFails, FallsSilent, Retry, StreamFails, Caught, Throw, Text, Usage, ClientCall,
          ServerCall, Streaming, Forward,
          AnswerEnds, Finish, ToolsBegin, HandsOver, RoundsSpent, ToolEnds, ClientLeaves
<1>2. IInv /\ [Next]_vars => [handedOff => phase' \in {"streaming", "over"}]_vars
  BY <1>1
<1> QED BY <1>2, Invariance, PTL DEF Spec, HandOffEndsTurn

\* While the client is there, every call of the model was written for it: as a call,
\* or as the line that names a tool the agent protocol has no message for.
CallsHeard ==
  ~closed =>
    IF ingress = "agent"
      THEN delivered = made["known"] /\ named = made["unknown"]
      ELSE delivered = made["known"] + made["unknown"] /\ named = 0

LEMMA CallHeard ==
  ASSUME IInv, CallsHeard, NEW kind \in CallKinds, ClientCall(kind) PROVE CallsHeard'
<1>1. /\ made["known"] \in Nat /\ made["unknown"] \in Nat /\ delivered \in Nat /\ named \in Nat
      /\ made'["known"] = IF kind = "known" THEN made["known"] + 1 ELSE made["known"]
      /\ made'["unknown"] = IF kind = "unknown" THEN made["unknown"] + 1 ELSE made["unknown"]
      /\ kind \in {"known", "unknown"}
  BY DEF IInv, TypeOK, CallKinds, ClientCall
<1>2. UNCHANGED <<ingress, closed>>
  BY DEF ClientCall
<1>3. CASE closed
  BY <1>2, <1>3 DEF CallsHeard
<1>4. CASE ~closed
  <2>1. /\ delivered' = IF AsLine(kind) THEN delivered ELSE delivered + 1
        /\ named' = IF AsLine(kind) THEN named + 1 ELSE named
    BY <1>4 DEF ClientCall
  <2> QED BY <1>1, <1>2, <1>4, <2>1 DEF CallsHeard, AsLine
<1> QED BY <1>3, <1>4

\* A response that ended well, with the client there, carries every call of a
\* client's tool that the model made, in all rounds and each once: as a call, or,
\* on the agent's stream and for a tool its protocol has no message for, as a line.
THEOREM CallsAreDelivered == Spec => []CallsReachClient
<1>1. Init => CallsHeard
  BY DEF Init, CallsHeard, CallKinds
<1>2. ASSUME IInv, CallsHeard, [Next]_vars PROVE CallsHeard'
  <2>1. CASE \E kind \in CallKinds : ClientCall(kind)
    BY <1>2, <2>1, CallHeard
  <2>2. CASE ~\E kind \in CallKinds : ClientCall(kind)
    <3>1. UNCHANGED <<ingress, made, delivered, named>> /\ (closed => closed')
      BY <1>2, <2>2 DEF Next, Step, Provider, Resolve, TunnelOpens, AttemptAnswered, AttemptFails,
         AskFails, Retry, StreamFails, Caught, Throw, Text, Usage, ServerCall, AnswerEnds,
         ToolsBegin,
         RoundsSpent, ToolEnds, ClientLeaves, FallsSilent, vars, output, tally, handed
    <3> QED BY <1>2, <3>1 DEF CallsHeard
  <2> QED BY <2>1, <2>2
<1>3. CallsHeard => CallsReachClient
  BY DEF CallsHeard, CallsReachClient
<1> QED BY <1>1, <1>2, <1>3, Invariance, PTL DEF Spec

-----------------------------------------------------------------------------
\* What each step does to the response.
LEMMA ReplyStep ==
  ASSUME IInv, [Next]_vars PROVE [Reply!Next]_(Reply!vars)
<1> USE DEF Reply!Next, Reply!Show, Reply!Begin, Reply!End, Reply!Fail, Reply!Unfinished, Reply!vars
<1>1. CASE Resolve
  BY <1>1 DEF Resolve, Finish, Throw, tally, Gone, IInv, TypeOK, ReplyOpen
<1>2. CASE TunnelOpens \/ AttemptAnswered \/ AttemptFails \/ Retry \/ ServerCall \/ Usage
           \/ ToolsBegin \/ ClientLeaves \/ FallsSilent \/ UNCHANGED vars
  BY <1>2 DEF TunnelOpens, AttemptAnswered, AttemptFails, Retry, ServerCall, Usage, ToolsBegin,
     ClientLeaves, FallsSilent, vars, output, tally
<1>3. CASE AskFails \/ StreamFails
  BY <1>3 DEF AskFails, StreamFails, Caught, Throw, tally, Gone, IInv, TypeOK, ReplyOpen
<1>4. CASE Text \/ \E kind \in CallKinds : ClientCall(kind)
  <2>1. /\ reply \in {"none", "open"}
        /\ reply' = IF ingress = "stream" THEN "open" ELSE reply
        /\ ingress = "agent" => reply = "open"
    BY <1>4 DEF Text, ClientCall, Streaming, Show, IInv, ReplyOpen
  <2>2. shown \in BOOLEAN /\ shown' = (shown \/ (ingress # "buffered" /\ ~closed))
    BY <1>4 DEF Text, ClientCall, Show, IInv, TypeOK
  <2>3. ingress \in {"agent", "stream", "buffered"}
    BY TurnAssumption DEF IInv, TypeOK
  <2>4. CASE shown' = shown
    BY <2>1, <2>4
  <2>5. CASE shown' # shown
    <3>1. shown' = TRUE /\ ingress # "buffered"
      BY <2>2, <2>5
    <3> QED BY <2>1, <2>3, <3>1
  <2> QED BY <2>4, <2>5
<1>5. CASE AnswerEnds
  BY <1>5 DEF AnswerEnds, Finish, IInv, TypeOK, ReplyOpen
<1>6. CASE RoundsSpent
  BY <1>6 DEF RoundsSpent, Gone, IInv, TypeOK, ReplyOpen
<1>7. CASE ToolEnds
  BY <1>7 DEF ToolEnds, IInv, TypeOK, ReplyOpen
<1> QED BY <1>1, <1>2, <1>3, <1>4, <1>5, <1>6, <1>7 DEF Next, Step, Provider

\* Every turn implements the contract of TurnReply: the response ends once, and
\* never as a protocol error after a part of the answer was shown.
THEOREM TurnImplementsReply == Spec => ImplementsReply
<1>1. Init => Reply!Init
  BY DEF Init, Reply!Init
<1> QED BY <1>1, Invariance, ReplyStep, PTL DEF Spec, ImplementsReply, Reply!Spec
-----------------------------------------------------------------------------
(* The tools of a turn, for any catalogue, any lists of declarations and     *)
(* any policy.                                                              *)

RequestTyped ==
  /\ wanted.request \in Seq(ToolNames \cup {NoName})
  /\ wanted.context \in Seq(ToolNames \cup {NoName})
  /\ policy.preserve \in BOOLEAN /\ policy.augment \in BOOLEAN

\* MCP tools have names of their own, and no client tool claims to be the server's.
McpNamed ==
  /\ \A i \in DOMAIN mcp : mcp[i].by \in Places
  /\ \A i, j \in DOMAIN mcp : mcp[i].name = mcp[j].name => i = j

\* What is declared was read from the request, or is in the catalogue.
DeclaredFrom ==
  \A i \in DOMAIN declared :
    \/ declared[i] \in Elements(mcp)
    \/ declared[i].by = "cursor" /\ declared[i].name \in NativeNames

\* The registry: each name it has is listed once, with a tool of that name, which
\* the client declared or which the server runs.
RegistryHolds ==
  /\ \A n \in ToolNames : owner[n] = NoTool <=> n \notin Elements(listed)
  /\ \A i, j \in DOMAIN listed : i # j => listed[i] # listed[j]
  /\ \A n \in ToolNames : owner[n] # NoTool =>
       /\ owner[n].name = n
       /\ owner[n].by # "server" => owner[n] \in Elements(declared)
       /\ owner[n].by = "server" => n \in executors
  /\ \A n \in executors : owner[n] = [name |-> n, by |-> "server"]

\* How far the assembly is: nothing is taken before the seeding; while it lasts the
\* registry has exactly the declared names worked through, by their first tools;
\* and afterwards all of them.
Progress ==
  /\ step \in {"reading", "declaring"} => \A n \in ToolNames : owner[n] = NoTool
  /\ step = "reading" => declared = <<>>
  /\ step # "adding" /\ step # "calling" => executors = {}
  /\ step = "seeding" =>
       /\ at <= Len(declared)
       /\ \A n \in ToolNames : owner[n] # NoTool => \E j \in 1..at : declared[j].name = n
       /\ policy.preserve =>
            \A i \in 1..at : FirstDeclared(declared[i], i) => owner[declared[i].name] = declared[i]
  /\ step \in {"adding", "calling"} /\ policy.preserve =>
       \A i \in DOMAIN declared : FirstDeclared(declared[i], i) => owner[declared[i].name] = declared[i]

Called ==
  sent # Nowhere =>
    /\ step = "calling" /\ sent.called \in ToolNames
    /\ sent.to = IF sent.called \in executors THEN [name |-> sent.called, by |-> "server"]
                 ELSE ClientTool(sent.called)

ToolInv ==
  /\ ToolTypeOK /\ RequestTyped /\ McpNamed /\ DeclaredFrom /\ RegistryHolds /\ Progress /\ Called

LEMMA AppendedTool ==
  ASSUME NEW S, NEW s \in Seq(S), NEW e \in S
  PROVE  /\ Append(s, e) \in Seq(S)
         /\ DOMAIN Append(s, e) = 1..(Len(s) + 1) /\ DOMAIN s = 1..Len(s) /\ Len(s) \in Nat
         /\ Append(s, e)[Len(s) + 1] = e
         /\ \A i \in 1..Len(s) : Append(s, e)[i] = s[i] /\ s[i] \in S
         /\ Elements(Append(s, e)) = Elements(s) \cup {e}
<1>1. /\ Append(s, e) \in Seq(S) /\ Len(Append(s, e)) = Len(s) + 1
      /\ DOMAIN Append(s, e) = 1..(Len(s) + 1) /\ DOMAIN s = 1..Len(s) /\ Len(s) \in Nat
      /\ Append(s, e)[Len(s) + 1] = e
      /\ \A i \in 1..Len(s) : Append(s, e)[i] = s[i] /\ s[i] \in S
  OBVIOUS
<1>2. \A x : x \in Elements(Append(s, e)) <=> x \in Elements(s) \/ x = e
  BY <1>1 DEF Elements
<1> QED BY <1>1, <1>2

LEMMA ElementTyped ==
  ASSUME NEW S, NEW s \in Seq(S)
  PROVE  DOMAIN s = 1..Len(s) /\ Len(s) \in Nat /\ \A i \in DOMAIN s : s[i] \in S
  OBVIOUS

LEMMA DescriptorIsTool ==
  ASSUME NEW tool \in Descriptor
  PROVE  tool.name \in ToolNames /\ tool # NoTool
  BY DEF Descriptor, Places, NoTool

LEMMA NoTools ==
  /\ \A S : <<>> \in Seq(S)
  /\ Len(<<>>) = 0
  /\ DOMAIN <<>> = {}
  /\ Elements(<<>>) = {}
<1>1. 1..Len(<<>>) = {}
  OBVIOUS
<1>2. DOMAIN <<>> = 1..Len(<<>>)
  OBVIOUS
<1>3. DOMAIN <<>> = {}
  BY <1>1, <1>2
<1> QED BY <1>3 DEF Elements

LEMMA ToolInvInit == ToolInit => ToolInv
<1> SUFFICES ASSUME ToolInit PROVE ToolInv
  OBVIOUS
<1>1. /\ DOMAIN mcp = {} /\ DOMAIN declared = {} /\ DOMAIN listed = {} /\ Elements(listed) = {}
      /\ mcp \in Seq(Descriptor) /\ declared \in Seq(Descriptor) /\ listed \in Seq(ToolNames)
  BY NoTools DEF ToolInit
<1>2. /\ step = "reading" /\ at = 0 /\ owner = [n \in ToolNames |-> NoTool]
      /\ executors = {} /\ sent = Nowhere /\ declared = <<>>
  BY DEF ToolInit
<1>3. ToolTypeOK
  BY <1>1, <1>2 DEF ToolTypeOK
<1>4. RequestTyped
  BY ToolAssumption DEF ToolInit, RequestTyped
<1>5. McpNamed /\ DeclaredFrom /\ RegistryHolds /\ Called
  BY <1>1, <1>2 DEF McpNamed, DeclaredFrom, RegistryHolds, Called
<1>6. Progress
  BY <1>2 DEF Progress
<1> QED BY <1>3, <1>4, <1>5, <1>6 DEF ToolInv

\* What the client declares is a tool with a name.
LEMMA ToolListTyped ==
  ASSUME ToolInv
  PROVE  /\ McpDefinitions \in Seq([name : ToolNames \cup {NoName}, by : Places])
         /\ AllTools \in Seq(Descriptor)
         /\ \A i \in DOMAIN AllTools : AllTools[i] \in Elements(mcp) \/ AllTools[i].by = "cursor"
<1> DEFINE wished == [i \in 1..Len(wanted.request) |-> [name |-> wanted.request[i], by |-> "request"]]
           context == [i \in 1..Len(wanted.context) |-> [name |-> wanted.context[i], by |-> "context"]]
           natives == [i \in 1..Len(Catalogue) |-> Native(Catalogue[i])]
<1>1. wished \in Seq([name : ToolNames \cup {NoName}, by : Places])
  BY DEF ToolInv, RequestTyped, Places
<1>2. context \in Seq([name : ToolNames \cup {NoName}, by : Places])
  BY DEF ToolInv, RequestTyped, Places
<1>3. natives \in Seq(Descriptor) /\ DOMAIN natives = 1..Len(natives)
      /\ \A i \in DOMAIN natives : natives[i].by = "cursor"
  BY ToolAssumption DEF Native, Descriptor
<1>4. mcp \in Seq(Descriptor)
  BY DEF ToolInv, ToolTypeOK
<1> HIDE DEF wished, context, natives
<1>5. McpDefinitions = wished \o context /\ AllTools = natives \o mcp
  BY DEF McpDefinitions, AllTools, wished, context, natives
<1>6. \A i \in DOMAIN (natives \o mcp) :
        (natives \o mcp)[i] \in Elements(mcp) \/ (natives \o mcp)[i].by = "cursor"
  <2> TAKE i \in DOMAIN (natives \o mcp)
  <2>1. i \in 1..(Len(natives) + Len(mcp)) /\ Len(natives) \in Nat /\ Len(mcp) \in Nat
    BY <1>3, <1>4
  <2>2. CASE i <= Len(natives)
    BY <1>3, <1>4, <2>1, <2>2
  <2>3. CASE i > Len(natives)
    <3>1. i - Len(natives) \in DOMAIN mcp /\ (natives \o mcp)[i] = mcp[i - Len(natives)]
      BY <1>3, <1>4, <2>1, <2>3
    <3> QED BY <3>1 DEF Elements
  <2> QED BY <2>1, <2>2, <2>3
<1> QED BY <1>1, <1>2, <1>3, <1>4, <1>5, <1>6
LEMMA NotSentYet == ASSUME ToolInv, step # "calling", step' # "calling", UNCHANGED sent PROVE Called'
  BY DEF ToolInv, Called

LEMMA ReadMcpKeeps == ASSUME ToolInv, ReadMcp PROVE ToolInv'
<1> USE DEF ToolInv
<1> DEFINE tool == McpDefinitions[at + 1]
<1>1. /\ step = "reading" /\ at < Len(McpDefinitions) /\ at' = at + 1
      /\ mcp' = IF tool.name = NoName \/ tool.name \in Names(mcp) THEN mcp ELSE Append(mcp, tool)
      /\ UNCHANGED <<step, policy, wanted, declared, owner, listed, executors, sent>>
  BY DEF ReadMcp
<1>2. mcp \in Seq(Descriptor) /\ at \in Nat
  BY DEF ToolTypeOK
<1>3. tool \in [name : ToolNames \cup {NoName}, by : Places]
  <2>1. McpDefinitions \in Seq([name : ToolNames \cup {NoName}, by : Places])
    BY ToolListTyped
  <2>2. at + 1 \in 1..Len(McpDefinitions)
    BY <1>1, <1>2, <2>1, ElementTyped
  <2> HIDE DEF ToolInv
  <2> QED BY <2>1, <2>2, ElementTyped
<1> HIDE DEF tool
<1>4. CASE mcp' = mcp
  <2>1. ToolTypeOK' /\ McpNamed' /\ DeclaredFrom' /\ Progress' /\ RequestTyped'
    BY <1>1, <1>4 DEF ToolTypeOK, McpNamed, DeclaredFrom, NativeNames, Progress, FirstDeclared, RequestTyped
  <2>2. RegistryHolds'
    BY <1>1 DEF RegistryHolds
  <2> QED BY <1>1, <2>1, <2>2, NotSentYet
<1>5. CASE tool.name # NoName /\ tool.name \notin Names(mcp) /\ mcp' = Append(mcp, tool)
  <2>1. tool \in Descriptor /\ tool.by \in Places
    BY <1>3, <1>5 DEF Descriptor
  <2>2. /\ mcp' \in Seq(Descriptor) /\ DOMAIN mcp' = 1..(Len(mcp) + 1) /\ DOMAIN mcp = 1..Len(mcp)
        /\ mcp'[Len(mcp) + 1] = tool /\ Len(mcp) \in Nat
        /\ \A i \in 1..Len(mcp) : mcp'[i] = mcp[i]
    BY <1>2, <1>5, <2>1, AppendedTool
  <2>3. \A i \in 1..Len(mcp) : mcp[i].name # tool.name
    BY <1>5, <2>2 DEF Names
  <2>4. McpNamed'
    <3>1. \A i \in DOMAIN mcp' : i = Len(mcp) + 1 \/ i \in 1..Len(mcp)
      BY <2>2
    <3>2. \A i \in DOMAIN mcp' : mcp'[i].by \in Places
      BY <2>1, <2>2, <3>1 DEF McpNamed
    <3>3. \A i, j \in DOMAIN mcp' : mcp'[i].name = mcp'[j].name => i = j
      BY <2>2, <2>3, <3>1 DEF McpNamed
    <3> QED BY <3>2, <3>3 DEF McpNamed
  <2>5. declared = <<>> /\ DOMAIN declared = {}
    BY <1>1, NoTools DEF Progress
  <2>6. ToolTypeOK' /\ RequestTyped' /\ DeclaredFrom'
    BY <1>1, <1>2, <2>2, <2>5 DEF ToolTypeOK, RequestTyped, DeclaredFrom
  <2>7. RegistryHolds' /\ Progress'
    BY <1>1 DEF RegistryHolds, Progress, FirstDeclared
  <2> QED BY <1>1, <2>4, <2>6, <2>7, NotSentYet
<1> QED BY <1>1, <1>4, <1>5

LEMMA PassOnKeeps ==
  ASSUME ToolInv, McpRead \/ Declared \/ Seeded \/ Assembled
  PROVE  ToolInv'
<1> USE DEF ToolInv
<1>1. /\ at' = 0 /\ UNCHANGED <<policy, wanted, mcp, declared, owner, listed, executors, sent>>
      /\ <<step, step'>> \in {<<"reading", "declaring">>, <<"declaring", "seeding">>,
                              <<"seeding", "adding">>, <<"adding", "calling">>}
  BY DEF McpRead, Declared, Seeded, Assembled, turnTools
<1>2. ToolTypeOK' /\ McpNamed' /\ DeclaredFrom' /\ RequestTyped'
  BY <1>1 DEF ToolTypeOK, McpNamed, DeclaredFrom, NativeNames, RequestTyped
<1>3. RegistryHolds'
  BY <1>1 DEF RegistryHolds
<1>4. declared \in Seq(Descriptor) /\ DOMAIN declared = 1..Len(declared) /\ Len(declared) \in Nat
  BY DEF ToolTypeOK
<1>5. Progress'
  <2>1. CASE step = "reading"
    BY <1>1, <2>1 DEF Progress
  <2>2. CASE step = "declaring"
    BY <1>1, <1>4, <2>2 DEF Progress
  <2>3. CASE step = "seeding"
    <3>1. policy.preserve => at = Len(declared)
      BY <1>1, <2>3 DEF McpRead, Declared, Seeded, Assembled
    <3> QED BY <1>1, <1>4, <2>3, <3>1 DEF Progress, FirstDeclared
  <2>4. CASE step = "adding"
    BY <1>1, <2>4 DEF Progress, FirstDeclared
  <2> QED BY <1>1, <2>1, <2>2, <2>3, <2>4
<1>6. sent = Nowhere
  BY <1>1 DEF Called
<1> QED BY <1>1, <1>2, <1>3, <1>5, <1>6 DEF Called

LEMMA DeclareKeeps == ASSUME ToolInv, Declare PROVE ToolInv'
<1> USE DEF ToolInv
<1> DEFINE tool == AllTools[at + 1]
<1>1. /\ step = "declaring" /\ at < Len(AllTools) /\ at' = at + 1
      /\ \/ declared' = declared
         \/ declared' = Append(declared, tool) /\ (tool.by = "cursor" => tool.name \in NativeNames)
      /\ UNCHANGED <<step, policy, wanted, mcp, owner, listed, executors, sent>>
  BY DEF Declare
<1>2. declared \in Seq(Descriptor) /\ at \in Nat /\ at + 1 \in DOMAIN AllTools
  BY <1>1, ToolListTyped DEF ToolTypeOK
<1>3. tool \in Descriptor /\ (tool \in Elements(mcp) \/ tool.by = "cursor")
  BY <1>2, ToolListTyped
<1> HIDE DEF tool
<1>4. declared' \in Seq(Descriptor) /\ DeclaredFrom'
  <2>1. CASE declared' = declared
    BY <1>1, <1>2, <2>1 DEF DeclaredFrom, NativeNames, Elements
  <2>2. CASE declared' = Append(declared, tool) /\ (tool.by = "cursor" => tool.name \in NativeNames)
    <3>1. /\ declared' \in Seq(Descriptor) /\ DOMAIN declared' = 1..(Len(declared) + 1)
          /\ DOMAIN declared = 1..Len(declared) /\ Len(declared) \in Nat
          /\ declared'[Len(declared) + 1] = tool
          /\ \A i \in 1..Len(declared) : declared'[i] = declared[i]
      BY <1>2, <1>3, <2>2, AppendedTool
    <3>2. \A i \in DOMAIN declared' : i = Len(declared) + 1 \/ i \in DOMAIN declared
      BY <3>1
    <3>3. Elements(mcp)' = Elements(mcp) /\ NativeNames' = NativeNames
      BY <1>1 DEF Elements, NativeNames
    <3> QED BY <1>3, <2>2, <3>1, <3>2, <3>3 DEF DeclaredFrom
  <2> QED BY <1>1, <2>1, <2>2
<1>5. ToolTypeOK' /\ McpNamed' /\ RequestTyped'
  BY <1>1, <1>2, <1>4 DEF ToolTypeOK, McpNamed, RequestTyped
<1>6. Progress'
  BY <1>1 DEF Progress
<1>7. RegistryHolds'
  BY <1>1 DEF RegistryHolds, Progress
<1> QED BY <1>1, <1>4, <1>5, <1>6, <1>7, NotSentYet

\* A tool that is taken under a free name leaves the others where they were.
LEMMA TakeKeeps ==
  ASSUME ToolInv, NEW tool \in Descriptor, owner[tool.name] = NoTool, Take(tool),
         tool.by # "server" => tool \in Elements(declared) /\ executors' = executors,
         tool.by = "server" => executors' = executors \cup {tool.name},
         UNCHANGED declared
  PROVE  /\ RegistryHolds'
         /\ owner' \in [ToolNames -> Descriptor \cup {NoTool}] /\ listed' \in Seq(ToolNames)
         /\ executors' \subseteq ToolNames
         /\ owner'[tool.name] = tool
         /\ \A n \in ToolNames : n # tool.name => owner'[n] = owner[n]
<1> USE DEF ToolInv
<1>1. tool.name \in ToolNames /\ tool # NoTool /\ listed \in Seq(ToolNames)
  BY DEF Descriptor, Places, NoTool, ToolTypeOK
<1>2. /\ owner' \in [ToolNames -> Descriptor \cup {NoTool}]
      /\ owner'[tool.name] = tool
      /\ \A n \in ToolNames : n # tool.name => owner'[n] = owner[n]
  BY <1>1 DEF Take, ToolTypeOK
<1>3. /\ listed' \in Seq(ToolNames) /\ DOMAIN listed' = 1..(Len(listed) + 1)
      /\ DOMAIN listed = 1..Len(listed) /\ Len(listed) \in Nat
      /\ listed'[Len(listed) + 1] = tool.name
      /\ \A i \in 1..Len(listed) : listed'[i] = listed[i]
      /\ Elements(listed') = Elements(listed) \cup {tool.name}
  BY <1>1, AppendedTool DEF Take
<1>4. executors' \subseteq ToolNames
  BY <1>1 DEF ToolTypeOK
<1>5. tool.name \notin Elements(listed) /\ tool.name \notin executors
  <2>1. tool.name \notin Elements(listed)
    BY <1>1 DEF RegistryHolds
  <2>2. \A n \in executors : owner[n] = [name |-> n, by |-> "server"]
    BY DEF RegistryHolds
  <2>3. [name |-> tool.name, by |-> "server"] # NoTool
    BY DEF NoTool
  <2> QED BY <2>1, <2>2, <2>3
<1>6. \A n \in ToolNames : owner'[n] = NoTool <=> n \notin Elements(listed')
  BY <1>1, <1>2, <1>3 DEF RegistryHolds
<1>7. \A i, j \in DOMAIN listed' : i # j => listed'[i] # listed'[j]
  <2>1. \A i \in DOMAIN listed' : i = Len(listed) + 1 \/ i \in DOMAIN listed
    BY <1>3
  <2>2. \A i \in DOMAIN listed : listed'[i] # tool.name
    BY <1>3, <1>5 DEF Elements
  <2> QED BY <1>3, <2>1, <2>2 DEF RegistryHolds
<1>8. ASSUME NEW n \in ToolNames, owner'[n] # NoTool
      PROVE  /\ owner'[n].name = n
             /\ owner'[n].by # "server" => owner'[n] \in Elements(declared)
             /\ owner'[n].by = "server" => n \in executors'
  BY <1>2, <1>8 DEF RegistryHolds
<1>9. \A n \in executors' : owner'[n] = [name |-> n, by |-> "server"]
  <2>1. \A n \in executors : n # tool.name /\ n \in ToolNames
    BY <1>5 DEF ToolTypeOK
  <2>2. \A n \in executors : owner'[n] = [name |-> n, by |-> "server"]
    BY <1>2, <2>1 DEF RegistryHolds
  <2>3. tool.by = "server" => tool = [name |-> tool.name, by |-> "server"]
    BY DEF Descriptor
  <2>4. \A n \in executors' : n \in executors \/ (n = tool.name /\ tool.by = "server")
    OBVIOUS
  <2> QED BY <1>2, <2>2, <2>3, <2>4
<1>10. Elements(declared)' = Elements(declared) /\ Elements(listed)' = Elements(listed')
  BY DEF Elements
<1> QED BY <1>2, <1>3, <1>4, <1>6, <1>7, <1>8, <1>9, <1>10 DEF RegistryHolds
LEMMA SeedKeeps == ASSUME ToolInv, Seed PROVE ToolInv'
<1> USE DEF ToolInv
<1> DEFINE tool == declared[at + 1]
<1>1. /\ step = "seeding" /\ policy.preserve /\ at < Len(declared) /\ at' = at + 1
      /\ IF owner[tool.name] = NoTool THEN Take(tool) ELSE UNCHANGED <<owner, listed>>
      /\ UNCHANGED <<step, policy, wanted, mcp, declared, executors, sent>>
  BY DEF Seed
<1>2. /\ declared \in Seq(Descriptor) /\ at \in Nat /\ Len(declared) \in Nat
      /\ DOMAIN declared = 1..Len(declared) /\ at + 1 \in DOMAIN declared
  BY <1>1 DEF ToolTypeOK
<1>3. tool \in Descriptor /\ tool \in Elements(declared) /\ tool.name \in ToolNames
  BY <1>2, ElementTyped, DescriptorIsTool DEF Elements
<1>4. tool.by # "server" /\ tool # NoTool
  <2>1. \A i \in DOMAIN mcp : mcp[i].by # "server"
    BY DEF McpNamed, Places
  <2>2. tool.by # "server"
    BY <1>2, <2>1 DEF DeclaredFrom, Elements
  <2> QED BY <1>3, <2>2 DEF Descriptor, Places, NoTool
<1>5. McpNamed' /\ DeclaredFrom' /\ RequestTyped'
  BY <1>1 DEF McpNamed, DeclaredFrom, NativeNames, RequestTyped
<1>6. \A i \in 1..at' : i = at + 1 \/ i \in 1..at
  BY <1>1, <1>2
<1>7. \A i \in 1..at : i \in DOMAIN declared /\ declared[i] \in Descriptor /\ declared[i].name \in ToolNames
                       /\ declared[i] # NoTool
  <2>1. \A i \in 1..at : i \in DOMAIN declared
    BY <1>1, <1>2
  <2> QED BY <1>2, <2>1, ElementTyped, DescriptorIsTool
<1>8. \A i : FirstDeclared(declared[i], i)' = FirstDeclared(declared[i], i)
  BY <1>1 DEF FirstDeclared
<1>9. /\ \A n \in ToolNames : owner[n] # NoTool => \E j \in 1..at : declared[j].name = n
      /\ \A i \in 1..at : FirstDeclared(declared[i], i) => owner[declared[i].name] = declared[i]
  BY <1>1 DEF Progress
<1> HIDE DEF tool
<1>10. CASE owner[tool.name] = NoTool
  <2>1. Take(tool)
    BY <1>1, <1>10
  <2>2. /\ RegistryHolds'
        /\ owner' \in [ToolNames -> Descriptor \cup {NoTool}] /\ listed' \in Seq(ToolNames)
        /\ executors' \subseteq ToolNames
        /\ owner'[tool.name] = tool
        /\ \A n \in ToolNames : n # tool.name => owner'[n] = owner[n]
    BY <1>1, <1>3, <1>4, <1>10, <2>1, TakeKeeps
  <2>3. ToolTypeOK'
    BY <1>1, <1>2, <2>2 DEF ToolTypeOK
  <2>4. \A n \in ToolNames : owner'[n] # NoTool => \E j \in 1..at' : declared[j].name = n
    <3>1. declared[at + 1].name = tool.name /\ at + 1 \in 1..at' /\ \A j \in 1..at : j \in 1..at'
      BY <1>1, <1>2 DEF tool
    <3> QED BY <1>9, <2>2, <3>1
  <2>5. \A i \in 1..at' : FirstDeclared(declared[i], i) => owner'[declared[i].name] = declared[i]
    <3>1. declared[at + 1] = tool
      BY DEF tool
    <3>2. \A i \in 1..at : FirstDeclared(declared[i], i) => declared[i].name # tool.name
      BY <1>7, <1>9, <1>10
    <3> QED BY <1>6, <1>7, <1>9, <2>2, <3>1, <3>2
  <2>6. Progress'
    BY <1>1, <1>2, <1>8, <2>4, <2>5 DEF Progress
  <2> QED BY <1>1, <1>5, <2>2, <2>3, <2>6, NotSentYet
<1>11. CASE owner[tool.name] # NoTool
  <2>1. UNCHANGED <<owner, listed>>
    BY <1>1, <1>11
  <2>2. ToolTypeOK' /\ RegistryHolds'
    BY <1>1, <1>2, <2>1 DEF ToolTypeOK, RegistryHolds, Elements
  <2>3. ~FirstDeclared(declared[at + 1], at + 1)
    <3>1. PICK j \in 1..at : declared[j].name = tool.name
      BY <1>3, <1>9, <1>11
    <3>2. j \in 1..((at + 1) - 1)
      BY <1>2
    <3> QED BY <3>1, <3>2 DEF FirstDeclared, tool
  <2>4. \A i \in 1..at' : FirstDeclared(declared[i], i) => owner[declared[i].name] = declared[i]
    BY <1>6, <1>9, <2>3
  <2>5. \A n \in ToolNames : owner[n] # NoTool => \E j \in 1..at' : declared[j].name = n
    <3>1. \A j \in 1..at : j \in 1..at'
      BY <1>1, <1>2
    <3> QED BY <1>9, <3>1
  <2>6. Progress'
    BY <1>1, <1>2, <1>8, <2>1, <2>4, <2>5 DEF Progress
  <2> QED BY <1>1, <1>5, <2>2, <2>6, NotSentYet
<1> QED BY <1>10, <1>11

LEMMA AugmentKeeps == ASSUME ToolInv, Augment PROVE ToolInv'
<1> USE DEF ToolInv
<1> DEFINE name == ServerTools[at + 1]
           tool == [name |-> name, by |-> "server"]
<1>1. /\ step = "adding" /\ at < Len(ServerTools) /\ at' = at + 1
      /\ \/ UNCHANGED <<owner, listed, executors>>
         \/ owner[name] = NoTool /\ Take(tool) /\ executors' = executors \cup {name}
      /\ UNCHANGED <<step, policy, wanted, mcp, declared, sent>>
  BY DEF Augment
<1>2. at \in Nat /\ name \in ToolNames
  BY <1>1, ToolAssumption DEF ToolTypeOK
<1>3. McpNamed' /\ DeclaredFrom' /\ RequestTyped'
  BY <1>1 DEF McpNamed, DeclaredFrom, NativeNames, RequestTyped
<1>4. \A i : FirstDeclared(declared[i], i)' = FirstDeclared(declared[i], i)
  BY <1>1 DEF FirstDeclared
<1>5. tool \in Descriptor /\ tool.name = name /\ tool.by = "server"
  BY <1>2 DEF Descriptor
<1> HIDE DEF tool, name
<1>6. CASE UNCHANGED <<owner, listed, executors>>
  <2>1. ToolTypeOK' /\ RegistryHolds'
    BY <1>1, <1>2, <1>6 DEF ToolTypeOK, RegistryHolds, Elements
  <2>2. Progress'
    BY <1>1, <1>4, <1>6 DEF Progress
  <2> QED BY <1>1, <1>3, <2>1, <2>2, NotSentYet
<1>7. CASE owner[name] = NoTool /\ Take(tool) /\ executors' = executors \cup {name}
  <2>1. /\ RegistryHolds'
        /\ owner' \in [ToolNames -> Descriptor \cup {NoTool}] /\ listed' \in Seq(ToolNames)
        /\ executors' \subseteq ToolNames
        /\ owner'[name] = tool
        /\ \A n \in ToolNames : n # name => owner'[n] = owner[n]
    BY <1>1, <1>5, <1>7, TakeKeeps
  <2>2. ToolTypeOK'
    BY <1>1, <1>2, <2>1 DEF ToolTypeOK
  <2>3. \A i \in DOMAIN declared : declared[i].name \in ToolNames /\ declared[i] # NoTool
    BY ElementTyped, DescriptorIsTool DEF ToolTypeOK
  <2>4. policy.preserve =>
          \A i \in DOMAIN declared : FirstDeclared(declared[i], i) => owner'[declared[i].name] = declared[i]
    BY <1>1, <1>7, <2>1, <2>3 DEF Progress
  <2>5. Progress'
    BY <1>1, <1>4, <2>4 DEF Progress
  <2> QED BY <1>1, <1>3, <2>1, <2>2, <2>5, NotSentYet
<1> QED BY <1>1, <1>6, <1>7

LEMMA CallKeeps == ASSUME ToolInv, NEW name \in ToolNames, CallTool(name) PROVE ToolInv'
<1> USE DEF ToolInv
<1>1. /\ step = "calling"
      /\ sent' = [called |-> name,
                  to |-> IF name \in executors THEN [name |-> name, by |-> "server"]
                         ELSE ClientTool(name)]
      /\ UNCHANGED <<step, at, policy, wanted, mcp, declared, owner, listed, executors>>
  BY DEF CallTool, turnTools
<1>2. ToolTypeOK' /\ McpNamed' /\ DeclaredFrom' /\ RequestTyped'
  BY <1>1 DEF ToolTypeOK, McpNamed, DeclaredFrom, NativeNames, RequestTyped
<1>3. RegistryHolds' /\ Progress'
  BY <1>1 DEF RegistryHolds, Progress, FirstDeclared
<1>4. ClientTool(name)' = ClientTool(name)
  BY <1>1 DEF ClientTool, McpCall, ResolveTool, NativeNames, Native
<1>5. Called'
  BY <1>1, <1>4 DEF Called
<1> QED BY <1>2, <1>3, <1>5

LEMMA ToolInvStep == ToolInv /\ [ToolNext]_toolVars => ToolInv'
<1> SUFFICES ASSUME ToolInv, [ToolNext]_toolVars PROVE ToolInv'
  OBVIOUS
<1>1. CASE UNCHANGED toolVars
  <2>1. UNCHANGED <<step, at, policy, wanted, mcp, declared, owner, listed, executors, sent>>
    BY <1>1 DEF toolVars, turnTools
  <2>2. ToolTypeOK' /\ McpNamed' /\ DeclaredFrom' /\ RequestTyped'
    BY <2>1 DEF ToolInv, ToolTypeOK, McpNamed, DeclaredFrom, NativeNames, RequestTyped
  <2>3. RegistryHolds' /\ Progress'
    BY <2>1 DEF ToolInv, RegistryHolds, Progress, FirstDeclared
  <2>4. \A n : ClientTool(n)' = ClientTool(n)
    BY <2>1 DEF ClientTool, McpCall, ResolveTool, NativeNames, Native
  <2>5. Called'
    BY <2>1, <2>4 DEF ToolInv, Called
  <2> QED BY <2>2, <2>3, <2>5 DEF ToolInv
<1>2. CASE ReadMcp
  BY <1>2, ReadMcpKeeps
<1>3. CASE McpRead \/ Declared \/ Seeded \/ Assembled
  BY <1>3, PassOnKeeps
<1>4. CASE Declare
  BY <1>4, DeclareKeeps
<1>5. CASE Seed
  BY <1>5, SeedKeeps
<1>6. CASE Augment
  BY <1>6, AugmentKeeps
<1>7. ASSUME NEW name \in ToolNames, CallTool(name) PROVE ToolInv'
  BY <1>7, CallKeeps
<1> QED BY <1>1, <1>2, <1>3, <1>4, <1>5, <1>6, <1>7 DEF ToolNext

THEOREM ToolInvariance == ToolSpec => []ToolInv
  BY ToolInvInit, ToolInvStep, PTL DEF ToolSpec

\* The client's half of a call never is the server's, and reaches the tool that was
\* declared under the name unless both of its catalogues have it.
LEMMA ClientReached ==
  ASSUME ToolInv, NEW name \in ToolNames
  PROVE  /\ ClientTool(name).by # "server"
         /\ \A i \in DOMAIN declared :
              (declared[i].name = name /\ name \notin Contested
               /\ (declared[i].by \in Places => wanted.struct)) => ClientTool(name) = declared[i]
<1> USE DEF ToolInv
<1>1. mcp \in Seq(Descriptor) /\ declared \in Seq(Descriptor)
  BY DEF ToolTypeOK
<1>2. ASSUME wanted.struct, name \in Names(mcp)
      PROVE  /\ McpCall(name) \in Elements(mcp) /\ McpCall(name).name = name
             /\ McpCall(name).by \in Places
  <2>1. \E i \in DOMAIN mcp : mcp[i].name = name
    BY <1>2 DEF Names
  <2>2. PICK i \in DOMAIN mcp : mcp[i].name = name /\ McpCall(name) = mcp[i]
    BY <1>2, <2>1 DEF McpCall
  <2> QED BY <2>2 DEF Elements, McpNamed
<1>3. ~(wanted.struct /\ name \in Names(mcp)) => McpCall(name) = NoTool
  BY DEF McpCall
<1>4. ResolveTool(name).by # "server" /\ (name \in NativeNames => ResolveTool(name) = Native(name))
  BY DEF ResolveTool, Native, NoTool
<1>5. ClientTool(name).by # "server"
  BY <1>2, <1>4 DEF ClientTool, McpCall, Places, NoTool
<1>6. ASSUME NEW i \in DOMAIN declared, declared[i].name = name, name \notin Contested,
             declared[i].by \in Places => wanted.struct
      PROVE  ClientTool(name) = declared[i]
  <2>1. declared[i] \in Descriptor
    BY <1>1
  <2>2. CASE declared[i] \in Elements(mcp)
    <3>1. PICK j \in DOMAIN mcp : mcp[j] = declared[i]
      BY <2>2 DEF Elements
    <3>2. name \in Names(mcp) /\ wanted.struct
      BY <1>6, <3>1 DEF Names, McpNamed
    <3>3. McpCall(name) = declared[i]
      BY <1>2, <1>6, <3>1, <3>2 DEF Elements, McpNamed
    <3>4. declared[i] # NoTool
      BY <2>1 DEF Descriptor, Places, NoTool
    <3> QED BY <3>3, <3>4 DEF ClientTool
  <2>3. CASE declared[i].by = "cursor" /\ declared[i].name \in NativeNames
    <3>1. declared[i] = Native(name)
      BY <1>6, <2>1, <2>3 DEF Descriptor, Native
    <3>2. name \notin Names(mcp)
      BY <1>6, <2>3 DEF Contested
    <3> QED BY <1>3, <1>4, <1>6, <2>3, <3>1, <3>2 DEF ClientTool
  <2> QED BY <2>2, <2>3 DEF DeclaredFrom
<1> QED BY <1>5, <1>6

\* Whatever the client, its MCP servers and the policy declare: the first tool the
\* client declares under a name is the one the model is shown, the server runs
\* exactly what it added, and a call reaches what was shown.
THEOREM OfferIsHeld == ToolSpec => []OfferHolds
<1>1. ASSUME ToolInv PROVE NativesKept
  <2> USE <1>1 DEF ToolInv
  <2>1. \A i \in DOMAIN declared : declared[i].name \in ToolNames /\ declared[i] # NoTool
    BY ElementTyped, DescriptorIsTool DEF ToolTypeOK
  <2>2. \A n \in ToolNames : owner[n] # NoTool <=> n \in Elements(listed)
    BY DEF RegistryHolds
  <2>3. \A n \in ToolNames : owner[n].by = "server" => owner[n] # NoTool
    BY DEF NoTool
  <2> QED BY <2>1, <2>2, <2>3 DEF NativesKept, RegistryHolds, Progress
<1>2. ASSUME ToolInv PROVE CallsReachOwner
  <2> USE <1>2 DEF ToolInv
  <2> SUFFICES ASSUME sent # Nowhere
               PROVE  /\ sent.to.by = "server" <=> owner[sent.called].by = "server"
                      /\ (owner[sent.called] # NoTool /\ sent.called \notin Contested
                          /\ (owner[sent.called].by \in Places => wanted.struct))
                         => sent.to = owner[sent.called]
    BY DEF CallsReachOwner
  <2> DEFINE name == sent.called
  <2>1. name \in ToolNames
        /\ sent.to = IF name \in executors THEN [name |-> name, by |-> "server"] ELSE ClientTool(name)
    BY DEF Called
  <2>2. CASE name \in executors
    BY <2>1, <2>2 DEF RegistryHolds
  <2>3. CASE name \notin executors
    <3>1. owner[name].by # "server"
      BY <2>1, <2>3 DEF RegistryHolds, NoTool
    <3>2. owner[name] # NoTool => \E i \in DOMAIN declared : declared[i] = owner[name] /\ declared[i].name = name
      BY <2>1, <3>1 DEF RegistryHolds, Elements
    <3> QED BY <2>1, <2>3, <3>1, <3>2, ClientReached
  <2> QED BY <2>2, <2>3
<1> QED BY <1>1, <1>2, ToolInvariance, PTL DEF OfferHolds
-----------------------------------------------------------------------------
(* One attempt through a proxy or without.                                 *)

\* Once it was begun, an attempt has the proxy of its call; only a secure call
\* connects to it first; and only one that was agreed to, or needed no
\* agreement, was written.
OnItsWay ==
  /\ leg \in {"new", "connecting", "connect", "issued", "settled"}
  /\ leg # "new" => via = ResolveProxy(asked, env)
  /\ leg \in {"connecting", "connect"} => asked.secure /\ via # Direct
  /\ written \in BOOLEAN
  /\ written => leg \in {"issued", "settled"}

AgreedFirst ==
  written /\ asked.secure /\ via # Direct =>
    banner > 0 /\ connectReply[1] = "2xx" /\ Contains(SubSeq(connectReply, 1, banner), "blank")

\* How an attempt came out is known when it is settled.
ComesOut ==
  /\ connectReply \in Seq(ReplyLines) /\ banner \in 0..Len(connectReply)
  /\ aborted \in {"no", "early", "heard"}
  /\ outcome # "none" => leg = "settled"

TunnelInv == OnItsWay /\ AgreedFirst /\ ComesOut /\ AbortHolds

LEMMA TunnelInitInv == TunnelInit => TunnelInv
  <1> SUFFICES ASSUME TunnelInit PROVE TunnelInv
    OBVIOUS
  <1>1. connectReply \in Seq(ReplyLines)
    BY TunnelAssumption DEF TunnelInit
  <1>2. ComesOut
    BY <1>1 DEF TunnelInit, ComesOut
  <1> QED
    BY <1>2 DEF TunnelInit, TunnelInv, OnItsWay, AgreedFirst, AbortHolds

\* The end of an attempt that says neither that it was refused nor aborted.
LEMMA SettleInv ==
  ASSUME TunnelInv, UNCHANGED <<world, banner, via, written, aborted>>,
         leg \notin {"new", "settled"}, NEW how \in {"failed", "response"}, Settle(how)
  PROVE  TunnelInv'
  <1>1. /\ leg' = "settled" /\ outcome' = how
        /\ UNCHANGED <<asked, env, connectReply, apiSpeaks, banner, via, written, aborted>>
    BY DEF Settle, world
  <1>2. OnItsWay'
    BY <1>1 DEF TunnelInv, OnItsWay
  <1>3. AgreedFirst' /\ ComesOut'
    BY <1>1 DEF TunnelInv, AgreedFirst, ComesOut
  <1>4. aborted # "heard"
    BY DEF TunnelInv, OnItsWay, ComesOut, AbortHolds
  <1> QED
    BY <1>1, <1>2, <1>3, <1>4 DEF TunnelInv, AbortHolds

LEMMA TunnelStepInv == ASSUME TunnelInv, [TunnelNext]_tunnelVars PROVE TunnelInv'
  <1>1. CASE UNCHANGED tunnelVars
    BY <1>1 DEF tunnelVars, TunnelInv, OnItsWay, AgreedFirst, ComesOut, AbortHolds
  <1>2. CASE Once
    <2>1. /\ leg = "new" /\ via' = ResolveProxy(asked, env) /\ written' \in BOOLEAN
          /\ written' => via' = Direct \/ ~asked.secure
          /\ ~written' => via' # Direct /\ asked.secure
          /\ leg' = IF written' THEN "issued" ELSE "connecting"
          /\ UNCHANGED <<asked, env, connectReply, apiSpeaks, banner, aborted, outcome>>
      BY <1>2 DEF Once, world
    <2>2. OnItsWay'
      BY <2>1 DEF OnItsWay
    <2> QED
      BY <2>1, <2>2 DEF TunnelInv, AgreedFirst, ComesOut, AbortHolds
  <1>3. CASE Connected
    BY <1>3 DEF Connected, TunnelInv, OnItsWay, AgreedFirst, ComesOut, AbortHolds, world
  <1>4. CASE ProxyFails \/ Responds \/ RequestFails
    BY <1>4, SettleInv DEF ProxyFails, Responds, RequestFails
  <1>5. CASE BannerArrives
    <2> DEFINE lines == SubSeq(connectReply, 1, banner')
    <2>1. /\ leg = "connect" /\ banner' \in (banner + 1)..Len(connectReply)
          /\ UNCHANGED <<asked, env, connectReply, apiSpeaks, via, aborted>>
      BY <1>5 DEF BannerArrives, world
    <2>2. connectReply \in Seq(ReplyLines) /\ banner \in Nat /\ banner' \in Nat /\ banner' > 0
          /\ banner' <= Len(connectReply) /\ ~written
      BY <2>1 DEF TunnelInv, ComesOut, OnItsWay
    <2>3. ComesOut'
      BY <1>5, <2>1, <2>2 DEF TunnelInv, ComesOut, BannerArrives, Settle
    <2>4. CASE ~Contains(lines, "blank") /\ UNCHANGED <<leg, written, outcome>>
      BY <2>1, <2>2, <2>3, <2>4 DEF TunnelInv, OnItsWay, AgreedFirst, AbortHolds
    <2>5. CASE Contains(lines, "blank") /\ Agreed(lines) /\ leg' = "issued" /\ written' = TRUE
               /\ outcome' = outcome
      <3>1. connectReply[1] = "2xx"
        <4> HIDE DEF lines
        <4>1. ASSUME NEW all \in Seq(ReplyLines), NEW n \in 1..Len(all) PROVE SubSeq(all, 1, n)[1] = all[1]
          BY <4>1
        <4>2. banner' \in 1..Len(connectReply)
          BY <2>2
        <4>3. lines[1] = connectReply[1]
          BY <2>2, <4>1, <4>2 DEF lines
        <4> QED
          BY <2>5, <4>3 DEF Agreed
      <3>2. AgreedFirst'
        BY <2>1, <2>2, <2>5, <3>1 DEF AgreedFirst
      <3>3. outcome = "none" /\ aborted # "heard"
        BY <2>1 DEF TunnelInv, ComesOut, AbortHolds
      <3> QED
        BY <2>1, <2>3, <2>5, <3>2, <3>3 DEF TunnelInv, OnItsWay, AbortHolds
    <2>6. CASE Settle("refused") /\ written' = written
      <3>1. aborted # "heard"
        BY <2>1 DEF TunnelInv, ComesOut, AbortHolds
      <3> QED
        BY <2>1, <2>2, <2>3, <2>6, <3>1 DEF TunnelInv, OnItsWay, AgreedFirst, AbortHolds, Settle
    <2> QED
      BY <1>5, <2>4, <2>5, <2>6 DEF BannerArrives
  <1>6. CASE Abort
    BY <1>6 DEF Abort, Settle, TunnelInv, OnItsWay, AgreedFirst, ComesOut, AbortHolds, world
  <1> QED
    BY <1>1, <1>2, <1>3, <1>4, <1>5, <1>6 DEF TunnelNext, Moves

THEOREM TunnelInvariance == TunnelSpec => []TunnelInv
  BY TunnelInitInv, TunnelStepInv, PTL DEF TunnelSpec

\* A request is only written to where the configuration and the environment say,
\* and a secure one never into a tunnel its proxy did not agree to.
THEOREM WrittenToTheRightPlace == TunnelSpec => []GoesWhereItShould
  <1>1. TunnelInv => GoesWhereItShould
    <2> SUFFICES ASSUME TunnelInv, written PROVE GoesWhereItShould
      BY DEF GoesWhereItShould
    <2>1. via = ResolveProxy(asked, env)
      BY DEF TunnelInv, OnItsWay
    <2>2. asked.explicit # Direct => via = asked.explicit
      BY <2>1 DEF ResolveProxy
    <2>3. asked.explicit = Direct /\ IsLoopback(asked.host) => via = Direct
      BY <2>1 DEF ResolveProxy
    <2> QED
      BY <2>2, <2>3 DEF TunnelInv, AgreedFirst, GoesWhereItShould
  <1> QED
    BY <1>1, TunnelInvariance, PTL

\* An attempt that was aborted or refused stays so.
THEOREM AbortsHold == TunnelSpec => []AbortHolds
  <1>1. TunnelInv => AbortHolds
    BY DEF TunnelInv
  <1> QED
    BY <1>1, TunnelInvariance, PTL

-----------------------------------------------------------------------------
(* Induction and recursion over numbers and sequences.                      *)

\* A set of numbers that holds 0 and the successor of each of its own holds all.
LEMMA Inductive ==
  ASSUME NEW S \in SUBSET Nat, 0 \in S, \A n \in S : n + 1 \in S
  PROVE  S = Nat
  <1>1. SUFFICES ASSUME Nat \ S # {} PROVE FALSE
    OBVIOUS
  <1> DEFINE T == Nat \ S
  <1>2. T \in SUBSET Nat /\ T # {}
    BY <1>1
  <1>3. PICK x \in T : \A y \in T : ~(<<y, x>> \in OpToRel(<, Nat))
    BY <1>2, WFMin, NatLessThanWellFounded
  <1>4. \A y \in T : ~(y < x)
    BY <1>3 DEF OpToRel
  <1>5. x \in Nat /\ x # 0
    OBVIOUS
  <1>6. x - 1 \in Nat /\ x - 1 < x /\ x - 1 \notin T
    BY <1>4, <1>5
  <1>7. x - 1 \in S /\ (x - 1) + 1 = x
    BY <1>6
  <1> QED
    BY <1>7

LEMMA Appended ==
  ASSUME NEW P, NEW s \in Seq(P), NEW x \in P
  PROVE  /\ Append(s, x) \in Seq(P) /\ Len(Append(s, x)) = Len(s) + 1 /\ Len(s) \in Nat
         /\ \A i \in 1..(Len(s) + 1) : Append(s, x)[i] = IF i = Len(s) + 1 THEN x ELSE s[i]
  OBVIOUS

LEMMA Unappended ==
  ASSUME NEW P, NEW s \in Seq(P), s # <<>>
  PROVE  \E f \in Seq(P), x \in P : s = Append(f, x) /\ Len(s) = Len(f) + 1
  <1> DEFINE n == Len(s)
             front == SubSeq(s, 1, n - 1)
  <1>1. n \in Nat /\ n >= 1 /\ s[n] \in P
    OBVIOUS
  <1>2. front \in Seq(P) /\ Len(front) = n - 1 /\ \A i \in 1..(n - 1) : front[i] = s[i]
    <2>1. Len(s) \in Nat /\ n - 1 \in 0..Len(s)
      BY <1>1
    <2> HIDE DEF n
    <2>2. front \in Seq(P)
      BY <2>1
    <2>3. Len(front) = n - 1
      BY <2>1
    <2>4. \A i \in 1..(n - 1) : front[i] = s[i]
      BY <2>1
    <2> QED
      BY <2>2, <2>3, <2>4
  <1>3. /\ Append(front, s[n]) \in Seq(P) /\ Len(Append(front, s[n])) = n
        /\ \A i \in 1..n : Append(front, s[n])[i] = s[i]
    <2> DEFINE x == s[n]
    <2>1. x \in P /\ x = s[n]
      BY <1>1
    <2> HIDE DEF front, x, n
    <2>2. /\ Append(front, x) \in Seq(P) /\ Len(Append(front, x)) = Len(front) + 1
          /\ \A i \in 1..(Len(front) + 1) : Append(front, x)[i] = IF i = Len(front) + 1 THEN x ELSE front[i]
      BY <1>2, <2>1, Appended
    <2>3. Len(front) + 1 = n
      BY <1>1, <1>2
    <2>4. \A i \in 1..n : Append(front, x)[i] = s[i]
      BY <1>1, <1>2, <2>1, <2>2, <2>3
    <2> QED
      BY <2>2, <2>3, <2>4 DEF x
  <1> HIDE DEF front
  <1>4. Append(front, s[n]) = s
    <2> DEFINE whole == Append(front, s[n])
    <2>1. whole \in Seq(P) /\ Len(whole) = Len(s) /\ \A i \in 1..Len(s) : whole[i] = s[i]
      BY <1>3
    <2> HIDE DEF whole
    <2>2. whole = s
      BY <2>1
    <2> QED
      BY <2>2 DEF whole
  <1> QED
    BY <1>1, <1>2, <1>4

\* The same for sequences.
LEMMA SeqInductive ==
  ASSUME NEW P, NEW T \in SUBSET Seq(P), <<>> \in T, \A s \in T, x \in P : Append(s, x) \in T
  PROVE  T = Seq(P)
  <1> DEFINE S == {n \in Nat : \A s \in Seq(P) : Len(s) = n => s \in T}
  <1>1. 0 \in S
    <2>1. \A s \in Seq(P) : Len(s) = 0 => s = <<>>
      OBVIOUS
    <2> QED
      BY <2>1
  <1>2. ASSUME NEW n \in S PROVE n + 1 \in S
    <2> SUFFICES ASSUME NEW s \in Seq(P), Len(s) = n + 1 PROVE s \in T
      OBVIOUS
    <2>1. s # <<>> /\ n \in Nat
      OBVIOUS
    <2>2. PICK f \in Seq(P), x \in P : s = Append(f, x) /\ Len(s) = Len(f) + 1
      BY <2>1, Unappended
    <2>3. Len(f) = n
      BY <2>1, <2>2
    <2>4. f \in T
      BY <2>3
    <2> QED
      BY <2>2, <2>4
  <1> HIDE DEF S
  <1>3. S = Nat
    <2>1. S \in SUBSET Nat
      BY DEF S
    <2> QED
      BY <1>1, <1>2, <2>1, Inductive
  <1>4. ASSUME NEW s \in Seq(P) PROVE s \in T
    <2>1. Len(s) \in S
      BY <1>3
    <2> QED
      BY <2>1 DEF S
  <1> QED
    BY <1>4

\* A value for each number up to n, each from the one before it.
Follows(g, n, V, base, advance) ==
  /\ g \in [0..n -> V] /\ g[0] = base
  /\ \A i \in 1..n : g[i] = advance[i][g[i - 1]]

LEMMA Recursion ==
  ASSUME NEW n \in Nat, NEW V, NEW base \in V, NEW advance \in [1..n -> [V -> V]]
  PROVE  \E g : Follows(g, n, V, base, advance)
  <1> DEFINE upTo(m) == \E g : Follows(g, m, V, base, advance)
             S == {m \in Nat : m <= n => upTo(m)}
  <1>1. 0 \in S
    <2> DEFINE first == [i \in 0..0 |-> base]
    <2>1. first \in [0..0 -> V] /\ first[0] = base /\ \A i \in 1..0 : FALSE
      OBVIOUS
    <2> HIDE DEF first
    <2>2. upTo(0)
      BY <2>1 DEF Follows
    <2> QED
      BY <2>2
  <1>2. ASSUME NEW m \in S PROVE m + 1 \in S
    <2> SUFFICES ASSUME m + 1 <= n PROVE upTo(m + 1)
      OBVIOUS
    <2>0. m <= n /\ m \in Nat
      OBVIOUS
    <2>1. PICK g : Follows(g, m, V, base, advance)
      BY <2>0
    <2> USE <2>0, <2>1 DEF Follows
    <2> DEFINE more == [i \in 0..(m + 1) |-> IF i = m + 1 THEN advance[m + 1][g[m]] ELSE g[i]]
    <2>2. m \in 0..m /\ m + 1 \in 1..n /\ g[m] \in V /\ advance[m + 1][g[m]] \in V
      OBVIOUS
    <2>3. more \in [0..(m + 1) -> V]
      BY <2>2
    <2>4. more[0] = base
      BY <2>1
    <2>5. ASSUME NEW i \in 1..(m + 1) PROVE more[i] = advance[i][more[i - 1]]
      <3>1. i - 1 \in 0..m /\ more[i - 1] = g[i - 1]
        OBVIOUS
      <3>2. more[i] = IF i = m + 1 THEN advance[m + 1][g[m]] ELSE g[i]
        OBVIOUS
      <3> HIDE DEF more
      <3>3. CASE i = m + 1
        BY <3>1, <3>2, <3>3
      <3>4. CASE i # m + 1
        <4>1. i \in 1..m
          BY <3>4
        <4>2. g[i] = advance[i][g[i - 1]]
          BY <2>1, <4>1
        <4> QED
          BY <3>1, <3>2, <3>4, <4>2
      <3> QED
        BY <3>3, <3>4
    <2> HIDE DEF more
    <2> QED
      BY <2>3, <2>4, <2>5
  <1> HIDE DEF S, upTo
  <1>3. n \in S
    <2>1. S \in SUBSET Nat
      BY DEF S
    <2> QED
      BY <1>1, <1>2, <2>1, Inductive
  <1> QED
    BY <1>3 DEF S, upTo

\* Two that agree at 0, and at each number if at the one before it, agree.
AgreeOnward(f, g, n) == f[0] = g[0] /\ \A i \in 1..n : f[i - 1] = g[i - 1] => f[i] = g[i]

LEMMA Agreement ==
  ASSUME NEW n \in Nat, NEW f, NEW g, AgreeOnward(f, g, n)
  PROVE  \A i \in 0..n : f[i] = g[i]
  <1> DEFINE same == {m \in Nat : m <= n => f[m] = g[m]}
  <1>1. 0 \in same
    BY DEF AgreeOnward
  <1>2. ASSUME NEW m \in Nat, m <= n => f[m] = g[m], m + 1 <= n
        PROVE  f[m + 1] = g[m + 1]
    <2>1. m + 1 \in 1..n /\ (m + 1) - 1 = m /\ f[m] = g[m]
      BY <1>2
    <2> QED
      BY <2>1 DEF AgreeOnward
  <1>3. \A m \in same : m + 1 \in same
    BY <1>2
  <1> HIDE DEF same
  <1>4. same = Nat
    <2>1. same \in SUBSET Nat
      BY DEF same
    <2> QED
      BY <1>1, <1>3, <2>1, Inductive
  <1>5. \A i \in 0..n : i \in same /\ i <= n
    BY <1>4
  <1> QED
    BY <1>5 DEF same

-----------------------------------------------------------------------------
(* What is kept of a sequence of parts.                                     *)

\* Only, step by step.
Keeps(g, s, kinds) ==
  /\ g[0] = <<>>
  /\ \A i \in 1..Len(s) : g[i] = IF s[i].kind \in kinds THEN Append(g[i - 1], s[i]) ELSE g[i - 1]

LEMMA OnlyUnfolds ==
  ASSUME NEW P, NEW s \in Seq(P), NEW kinds
  PROVE  \E g \in [0..Len(s) -> Seq(P)] : Keeps(g, s, kinds) /\ Only(s, kinds) = g[Len(s)]
  <1> DEFINE n == Len(s)
             V == Seq(P)
             advance == [i \in 1..n |-> [v \in V |-> IF s[i].kind \in kinds THEN Append(v, s[i]) ELSE v]]
             IsOnly(f) == f = [i \in 0..n |-> IF i = 0 THEN <<>>
                                  ELSE IF s[i].kind \in kinds THEN Append(f[i - 1], s[i]) ELSE f[i - 1]]
  <1>1. n \in Nat /\ <<>> \in V
    OBVIOUS
  <1>2. ASSUME NEW i \in 1..n, NEW v \in V
        PROVE  /\ advance[i][v] = IF s[i].kind \in kinds THEN Append(v, s[i]) ELSE v
               /\ advance[i][v] \in V
    <2>1. s[i] \in P
      OBVIOUS
    <2>2. advance[i][v] = IF s[i].kind \in kinds THEN Append(v, s[i]) ELSE v
      OBVIOUS
    <2>3. Append(v, s[i]) \in V
      BY <2>1, Appended
    <2> HIDE DEF advance, V
    <2> QED
      BY <2>2, <2>3
  <1>3. advance \in [1..n -> [V -> V]]
    <2>1. ASSUME NEW i \in 1..n PROVE advance[i] \in [V -> V]
      <3>1. advance[i] = [v \in V |-> advance[i][v]]
        OBVIOUS
      <3> HIDE DEF advance, V, n
      <3> QED
        BY <1>2, <3>1
    <2>2. advance = [i \in 1..n |-> advance[i]]
      OBVIOUS
    <2> HIDE DEF advance, V, n
    <2> QED
      BY <2>1, <2>2
  <1> HIDE DEF advance
  <1>4. PICK g : Follows(g, n, V, <<>>, advance)
    <2> HIDE DEF n, V
    <2> QED
      BY <1>1, <1>3, Recursion
  <1>11. g \in [0..n -> V] /\ g[0] = <<>> /\ \A i \in 1..n : g[i] = advance[i][g[i - 1]]
    BY <1>4 DEF Follows
  <1>5. ASSUME NEW i \in 1..n
        PROVE  g[i] = IF s[i].kind \in kinds THEN Append(g[i - 1], s[i]) ELSE g[i - 1]
    <2>1. i - 1 \in 0..n
      BY <1>1
    <2> HIDE DEF n, V
    <2>2. g[i - 1] \in V
      BY <1>11, <2>1
    <2> DEFINE v == g[i - 1]
    <2>3. advance[i][v] = IF s[i].kind \in kinds THEN Append(v, s[i]) ELSE v
      BY <1>2, <2>2
    <2> QED
      BY <1>11, <2>3
  <1>6. IsOnly(g)
    <2> DEFINE value(i) == IF i = 0 THEN <<>>
                           ELSE IF s[i].kind \in kinds THEN Append(g[i - 1], s[i]) ELSE g[i - 1]
    <2>1. ASSUME NEW i \in 0..n PROVE g[i] = value(i)
      <3>1. CASE i = 0
        BY <1>11, <3>1
      <3>2. CASE i # 0
        <4>1. i \in 1..n
          BY <1>1, <3>2
        <4> QED
          BY <1>5, <3>2, <4>1
      <3> QED
        BY <3>1, <3>2
    <2> HIDE DEF value, V, n
    <2>3. g \in [0..n -> V]
      BY <1>11
    <2>2. g = [i \in 0..n |-> value(i)]
      BY <2>1, <2>3
    <2> QED
      BY <2>2 DEF value
  <1> DEFINE only == CHOOSE f : IsOnly(f)
  <1>7. IsOnly(only)
    BY <1>6
  <1>8. Only(s, kinds) = only[n]
    BY DEF Only
  <1> HIDE DEF only
  <1>9. only[0] = <<>> /\ \A i \in 1..n : only[i] = IF s[i].kind \in kinds THEN Append(only[i - 1], s[i]) ELSE only[i - 1]
    <2> DEFINE value(i) == IF i = 0 THEN <<>>
                           ELSE IF s[i].kind \in kinds THEN Append(only[i - 1], s[i]) ELSE only[i - 1]
    <2>1. only = [i \in 0..n |-> value(i)]
      BY <1>7
    <2> HIDE DEF value
    <2>2. \A i \in 0..n : only[i] = value(i)
      BY <2>1
    <2>3. 0 \in 0..n /\ \A i \in 1..n : i \in 0..n /\ i # 0
      BY <1>1
    <2>4. only[0] = value(0) /\ \A i \in 1..n : only[i] = value(i)
      BY <2>2, <2>3
    <2> QED
      BY <2>3, <2>4 DEF value
  <1>10. \A i \in 0..n : only[i] = g[i]
    <2>1. \A i \in 1..n : only[i - 1] = g[i - 1] => only[i] = g[i]
      BY <1>5, <1>9
    <2> HIDE DEF n, V
    <2>2. AgreeOnward(only, g, n)
      BY <1>9, <1>11, <2>1 DEF AgreeOnward
    <2> QED
      BY <1>1, <2>2, Agreement
  <1> QED
    BY <1>1, <1>11, <1>5, <1>8, <1>10 DEF Keeps

LEMMA OnlyNothing ==
  ASSUME NEW kinds
  PROVE  Only(<<>>, kinds) = <<>>
  <1> DEFINE P == {}
  <1>1. <<>> \in Seq(P) /\ Len(<<>>) = 0
    OBVIOUS
  <1> DEFINE empty == <<>>
  <1> HIDE DEF empty, P
  <1>2. PICK g : Keeps(g, empty, kinds) /\ Only(empty, kinds) = g[Len(empty)]
    BY <1>1, OnlyUnfolds DEF empty
  <1>3. g[0] = <<>>
    BY <1>2 DEF Keeps
  <1> QED
    BY <1>1, <1>2, <1>3 DEF empty

LEMMA OnlyTyped ==
  ASSUME NEW P, NEW s \in Seq(P), NEW kinds
  PROVE  Only(s, kinds) \in Seq(P)
  <1>1. Len(s) \in 0..Len(s)
    OBVIOUS
  <1> QED
    BY <1>1, OnlyUnfolds

LEMMA OnlyOne ==
  ASSUME NEW P, NEW s \in Seq(P), NEW x \in P, NEW kinds
  PROVE  Only(Append(s, x), kinds) = IF x.kind \in kinds THEN Append(Only(s, kinds), x) ELSE Only(s, kinds)
  <1> DEFINE n == Len(s)
             more == Append(s, x)
  <1>1. /\ more \in Seq(P) /\ Len(more) = n + 1 /\ n \in Nat
        /\ \A i \in 1..(n + 1) : more[i] = IF i = n + 1 THEN x ELSE s[i]
    BY Appended
  <1> HIDE DEF more
  <1>2. PICK g : Keeps(g, s, kinds) /\ Only(s, kinds) = g[n]
    BY OnlyUnfolds
  <1>3. PICK h : Keeps(h, more, kinds) /\ Only(more, kinds) = h[n + 1]
    BY <1>1, OnlyUnfolds
  <1> HIDE DEF n
  <1>4. \A i \in 1..(n + 1) : h[i] = IF more[i].kind \in kinds THEN Append(h[i - 1], more[i]) ELSE h[i - 1]
    BY <1>1, <1>3 DEF Keeps
  <1>5. h[0] = <<>> /\ g[0] = <<>>
    BY <1>2, <1>3 DEF Keeps
  <1>6. \A i \in 1..n : g[i] = IF s[i].kind \in kinds THEN Append(g[i - 1], s[i]) ELSE g[i - 1]
    BY <1>2 DEF Keeps, n
  <1>7. \A i \in 1..n : more[i] = s[i]
    BY <1>1
  <1>8. \A i \in 0..n : h[i] = g[i]
    <2>1. \A i \in 1..n : h[i - 1] = g[i - 1] => h[i] = g[i]
      BY <1>1, <1>4, <1>6, <1>7
    <2>2. AgreeOnward(h, g, n)
      BY <1>5, <2>1 DEF AgreeOnward
    <2> QED
      BY <1>1, <2>2, Agreement
  <1>9. h[n + 1] = IF x.kind \in kinds THEN Append(h[n], x) ELSE h[n]
    BY <1>1, <1>4
  <1>10. h[n] = g[n]
    BY <1>1, <1>8
  <1> QED
    BY <1>2, <1>3, <1>9, <1>10 DEF more

LEMMA OnlyJoined ==
  ASSUME NEW P, NEW s \in Seq(P), NEW t \in Seq(P), NEW kinds
  PROVE  Only(s \o t, kinds) = Only(s, kinds) \o Only(t, kinds)
  <1> DEFINE T == {u \in Seq(P) : Only(s \o u, kinds) = Only(s, kinds) \o Only(u, kinds)}
  <1>1. <<>> \in T
    <2>1. \A u \in Seq(P) : u \o <<>> = u
      OBVIOUS
    <2>2. s \o <<>> = s /\ Only(s, kinds) \o <<>> = Only(s, kinds)
      BY <2>1, OnlyTyped
    <2>3. Only(<<>>, kinds) = <<>>
      BY OnlyNothing
    <2>4. <<>> \in Seq(P)
      OBVIOUS
    <2> QED
      BY <2>2, <2>3, <2>4
  <1>2. ASSUME NEW u \in Seq(P), Only(s \o u, kinds) = Only(s, kinds) \o Only(u, kinds), NEW x \in P
        PROVE  Only(s \o Append(u, x), kinds) = Only(s, kinds) \o Only(Append(u, x), kinds)
    <2>1. s \o u \in Seq(P) /\ s \o Append(u, x) = Append(s \o u, x)
      OBVIOUS
    <2>2. Only(Append(s \o u, x), kinds) = IF x.kind \in kinds THEN Append(Only(s \o u, kinds), x) ELSE Only(s \o u, kinds)
      <3> DEFINE both == s \o u
      <3>1. both \in Seq(P)
        BY <2>1
      <3> HIDE DEF both
      <3>2. Only(Append(both, x), kinds) = IF x.kind \in kinds THEN Append(Only(both, kinds), x) ELSE Only(both, kinds)
        BY <3>1, OnlyOne
      <3> QED
        BY <3>2 DEF both
    <2>3. Only(Append(u, x), kinds) = IF x.kind \in kinds THEN Append(Only(u, kinds), x) ELSE Only(u, kinds)
      BY OnlyOne
    <2>4. Only(s, kinds) \in Seq(P) /\ Only(u, kinds) \in Seq(P)
      BY OnlyTyped
    <2> DEFINE a == Only(s, kinds)
               b == Only(u, kinds)
    <2> HIDE DEF a, b
    <2>5. a \in Seq(P) /\ b \in Seq(P)
      BY <2>4 DEF a, b
    <2>6. a \o Append(b, x) = Append(a \o b, x)
      BY <2>5
    <2> QED
      BY <1>2, <2>1, <2>2, <2>3, <2>6 DEF a, b
  <1>3. \A u \in T, x \in P : Append(u, x) \in T
    <2> SUFFICES ASSUME NEW u \in T, NEW x \in P PROVE Append(u, x) \in T
      OBVIOUS
    <2>1. Append(u, x) \in Seq(P)
      BY Appended
    <2> QED
      BY <1>2, <2>1
  <1>4. T \in SUBSET Seq(P)
    OBVIOUS
  <1> HIDE DEF T
  <1>5. T = Seq(P)
    BY <1>1, <1>3, <1>4, SeqInductive
  <1> QED
    BY <1>5 DEF T

LEMMA OnlyTwice ==
  ASSUME NEW P, NEW s \in Seq(P), NEW kinds, NEW others
  PROVE  Only(Only(s, kinds), others) = Only(s, kinds \cap others)
  <1> DEFINE both == kinds \cap others
             T == {u \in Seq(P) : Only(Only(u, kinds), others) = Only(u, both)}
  <1>1. <<>> \in T
    <2>1. <<>> \in Seq(P) /\ Only(<<>>, kinds) = <<>> /\ Only(<<>>, others) = <<>> /\ Only(<<>>, both) = <<>>
      BY OnlyNothing
    <2> QED
      BY <2>1
  <1>2. ASSUME NEW u \in Seq(P), Only(Only(u, kinds), others) = Only(u, both), NEW x \in P
        PROVE  Only(Only(Append(u, x), kinds), others) = Only(Append(u, x), both)
    <2> DEFINE k == Only(u, kinds)
    <2>1. Only(Append(u, x), kinds) = IF x.kind \in kinds THEN Append(k, x) ELSE k
      BY OnlyOne
    <2>2. Only(Append(u, x), both) = IF x.kind \in both THEN Append(Only(u, both), x) ELSE Only(u, both)
      BY OnlyOne
    <2>3. k \in Seq(P)
      BY OnlyTyped
    <2> HIDE DEF k
    <2>4. Only(Append(k, x), others) = IF x.kind \in others THEN Append(Only(k, others), x) ELSE Only(k, others)
      BY <2>3, OnlyOne
    <2>5. Only(k, others) = Only(u, both)
      BY <1>2 DEF k
    <2>6. x.kind \in both <=> x.kind \in kinds /\ x.kind \in others
      OBVIOUS
    <2> HIDE DEF both
    <2> QED
      BY <2>1, <2>2, <2>4, <2>5, <2>6
  <1>3. \A u \in T, x \in P : Append(u, x) \in T
    <2> SUFFICES ASSUME NEW u \in T, NEW x \in P PROVE Append(u, x) \in T
      OBVIOUS
    <2>1. Append(u, x) \in Seq(P)
      BY Appended
    <2> QED
      BY <1>2, <2>1
  <1>4. T \in SUBSET Seq(P)
    OBVIOUS
  <1> HIDE DEF T
  <1>5. T = Seq(P)
    BY <1>1, <1>3, <1>4, SeqInductive
  <1> QED
    BY <1>5 DEF T

\* Without parts of one kind, asking for that kind too changes nothing.
LEMMA OnlyWithout ==
  ASSUME NEW P, NEW s \in Seq(P), NEW kinds, NEW kind, Only(s, {kind}) = <<>>
  PROVE  Only(s, kinds \cup {kind}) = Only(s, kinds)
  <1> DEFINE more == kinds \cup {kind}
             one == {kind}
             T == {u \in Seq(P) : Only(u, one) = <<>> => Only(u, more) = Only(u, kinds)}
  <1>1. <<>> \in T
    <2>1. <<>> \in Seq(P) /\ Only(<<>>, kinds) = <<>> /\ Only(<<>>, more) = <<>>
      BY OnlyNothing
    <2> QED
      BY <2>1
  <1>2. ASSUME NEW u \in Seq(P), Only(u, one) = <<>> => Only(u, more) = Only(u, kinds), NEW x \in P,
               Only(Append(u, x), one) = <<>>
        PROVE  Only(Append(u, x), more) = Only(Append(u, x), kinds)
    <2>1. Only(Append(u, x), more) = IF x.kind \in more THEN Append(Only(u, more), x) ELSE Only(u, more)
      BY OnlyOne
    <2>2. Only(Append(u, x), kinds) = IF x.kind \in kinds THEN Append(Only(u, kinds), x) ELSE Only(u, kinds)
      BY OnlyOne
    <2>3. Only(Append(u, x), one) = IF x.kind \in one THEN Append(Only(u, one), x) ELSE Only(u, one)
      BY OnlyOne
    <2>4. Only(u, one) \in Seq(P)
      BY OnlyTyped
    <2>5. \A v \in Seq(P) : Append(v, x) # <<>>
      OBVIOUS
    <2>6. x.kind \notin one /\ Only(u, one) = <<>>
      BY <1>2, <2>3, <2>4, <2>5
    <2>7. x.kind \in more <=> x.kind \in kinds
      BY <2>6
    <2> HIDE DEF more, one
    <2> QED
      BY <1>2, <2>1, <2>2, <2>6, <2>7
  <1>3. \A u \in T, x \in P : Append(u, x) \in T
    <2> SUFFICES ASSUME NEW u \in T, NEW x \in P PROVE Append(u, x) \in T
      OBVIOUS
    <2>1. Append(u, x) \in Seq(P)
      BY Appended
    <2> QED
      BY <1>2, <2>1
  <1>4. T \in SUBSET Seq(P)
    OBVIOUS
  <1> HIDE DEF T
  <1>5. T = Seq(P)
    BY <1>1, <1>3, <1>4, SeqInductive
  <1> QED
    BY <1>5 DEF T

-----------------------------------------------------------------------------
(* Sequences of sequences.                                                  *)

Joins(g, ss) == g[0] = <<>> /\ \A i \in 1..Len(ss) : g[i] = g[i - 1] \o ss[i]

LEMMA FlattenUnfolds ==
  ASSUME NEW P, NEW ss \in Seq(Seq(P))
  PROVE  \E g \in [0..Len(ss) -> Seq(P)] : Joins(g, ss) /\ FlattenSeq(ss) = g[Len(ss)]
  <1> DEFINE n == Len(ss)
             V == Seq(P)
             advance == [i \in 1..n |-> [v \in V |-> v \o ss[i]]]
             IsFlat(f) == f = [i \in 1..n |-> IF i = 1 THEN ss[i] ELSE f[i - 1] \o ss[i]]
  <1>1. n \in Nat /\ <<>> \in V
    OBVIOUS
  <1>2. ASSUME NEW i \in 1..n
        PROVE  ss[i] \in V /\ \A v \in V : advance[i][v] = v \o ss[i] /\ advance[i][v] \in V
    <2>1. ss[i] \in V
      OBVIOUS
    <2>2. \A v \in V : advance[i][v] = v \o ss[i]
      OBVIOUS
    <2>3. \A v \in Seq(P), w \in Seq(P) : v \o w \in Seq(P)
      OBVIOUS
    <2> HIDE DEF advance
    <2> QED
      BY <2>1, <2>2, <2>3
  <1>3. advance \in [1..n -> [V -> V]]
    <2>1. ASSUME NEW i \in 1..n PROVE advance[i] \in [V -> V]
      <3>1. advance[i] = [v \in V |-> advance[i][v]]
        OBVIOUS
      <3> HIDE DEF advance, V, n
      <3> QED
        BY <1>2, <3>1
    <2>2. advance = [i \in 1..n |-> advance[i]]
      OBVIOUS
    <2> HIDE DEF advance, V, n
    <2> QED
      BY <2>1, <2>2
  <1> HIDE DEF advance
  <1>4. PICK g : Follows(g, n, V, <<>>, advance)
    <2> HIDE DEF n, V
    <2> QED
      BY <1>1, <1>3, Recursion
  <1>5. g \in [0..n -> V] /\ g[0] = <<>> /\ \A i \in 1..n : g[i] = advance[i][g[i - 1]]
    BY <1>4 DEF Follows
  <1>6. ASSUME NEW i \in 1..n PROVE g[i] = g[i - 1] \o ss[i]
    <2>1. i - 1 \in 0..n
      BY <1>1
    <2> HIDE DEF n, V
    <2>2. g[i - 1] \in V
      BY <1>5, <2>1
    <2> QED
      BY <1>2, <1>5, <2>2
  <1>7. CASE n = 0
    <2>1. FlattenSeq(ss) = <<>>
      BY <1>7 DEF FlattenSeq
    <2> QED
      BY <1>1, <1>5, <1>7, <2>1 DEF Joins
  <1>8. CASE n # 0
    <2>1. 1 \in 1..n /\ n \in 1..n
      BY <1>1, <1>8
    <2>2. g[1] = ss[1]
      <3>1. \A v \in Seq(P) : <<>> \o v = v
        OBVIOUS
      <3>2. g[1] = g[0] \o ss[1] /\ ss[1] \in Seq(P)
        <4>1. g[1] = g[1 - 1] \o ss[1] /\ ss[1] \in V
          BY <1>2, <1>6, <2>1
        <4>2. 1 - 1 = 0
          OBVIOUS
        <4> QED
          BY <4>1, <4>2
      <3> QED
        BY <1>5, <3>1, <3>2
    <2> DEFINE h == [i \in 1..n |-> g[i]]
    <2>3. IsFlat(h)
      <3> DEFINE value(i) == IF i = 1 THEN ss[i] ELSE h[i - 1] \o ss[i]
      <3>1. ASSUME NEW i \in 1..n PROVE g[i] = value(i)
        <4>1. CASE i = 1
          BY <2>2, <4>1
        <4>2. CASE i # 1
          <5>1. i - 1 \in 1..n
            BY <1>1, <4>2
          <5>2. h[i - 1] = g[i - 1]
            BY <5>1
          <5> QED
            BY <1>6, <4>2, <5>2
        <4> QED
          BY <4>1, <4>2
      <3>2. h = [i \in 1..n |-> g[i]]
        OBVIOUS
      <3> HIDE DEF value, n
      <3>3. h = [i \in 1..n |-> value(i)]
        BY <3>1, <3>2
      <3> QED
        BY <3>3 DEF value
    <2> HIDE DEF h
    <2> DEFINE flatten == CHOOSE f : IsFlat(f)
    <2>4. IsFlat(flatten)
      BY <2>3
    <2>5. FlattenSeq(ss) = flatten[n]
      BY <1>8 DEF FlattenSeq
    <2> HIDE DEF flatten
    <2>6. \A i \in 1..n : flatten[i] = IF i = 1 THEN ss[i] ELSE flatten[i - 1] \o ss[i]
      <3> DEFINE value(i) == IF i = 1 THEN ss[i] ELSE flatten[i - 1] \o ss[i]
      <3>1. flatten = [i \in 1..n |-> value(i)]
        BY <2>4
      <3> HIDE DEF value
      <3>2. \A i \in 1..n : flatten[i] = value(i)
        BY <3>1
      <3> QED
        BY <3>2 DEF value
    <2> DEFINE from0 == [i \in 0..n |-> IF i = 0 THEN <<>> ELSE flatten[i]]
    <2>7. from0[0] = <<>> /\ \A i \in 1..n : from0[i] = flatten[i]
      BY <1>1
    <2> HIDE DEF from0
    <2>8. \A i \in 1..n : from0[i - 1] = g[i - 1] => from0[i] = g[i]
      <3> SUFFICES ASSUME NEW i \in 1..n, from0[i - 1] = g[i - 1] PROVE from0[i] = g[i]
        OBVIOUS
      <3>1. CASE i = 1
        BY <2>2, <2>6, <2>7, <3>1
      <3>2. CASE i # 1
        <4>1. i - 1 \in 1..n
          BY <1>1, <3>2
        <4>2. from0[i - 1] = flatten[i - 1]
          BY <2>7, <4>1
        <4>3. flatten[i] = flatten[i - 1] \o ss[i]
          BY <2>6, <3>2
        <4>4. flatten[i] = g[i - 1] \o ss[i]
          BY <4>2, <4>3
        <4> QED
          BY <1>6, <2>7, <4>4
      <3> QED
        BY <3>1, <3>2
    <2>9. AgreeOnward(from0, g, n)
      BY <1>5, <2>7, <2>8 DEF AgreeOnward
    <2>10. from0[n] = g[n]
      <3> HIDE DEF n, V
      <3>1. \A i \in 0..n : from0[i] = g[i]
        BY <1>1, <2>9, Agreement
      <3> QED
        BY <1>1, <3>1
    <2>11. FlattenSeq(ss) = g[n]
      BY <2>1, <2>5, <2>7, <2>10
    <2> QED
      BY <1>5, <1>6, <2>11 DEF Joins
  <1> QED
    BY <1>7, <1>8

LEMMA FlattenNothing == FlattenSeq(<<>>) = <<>>
  <1>1. Len(<<>>) = 0
    OBVIOUS
  <1> QED
    BY <1>1 DEF FlattenSeq

LEMMA FlattenOne ==
  ASSUME NEW P, NEW ss \in Seq(Seq(P)), NEW s \in Seq(P)
  PROVE  FlattenSeq(Append(ss, s)) = FlattenSeq(ss) \o s /\ FlattenSeq(ss) \in Seq(P)
  <1> DEFINE n == Len(ss)
             more == Append(ss, s)
  <1>1. /\ more \in Seq(Seq(P)) /\ Len(more) = n + 1 /\ n \in Nat
        /\ \A i \in 1..(n + 1) : more[i] = IF i = n + 1 THEN s ELSE ss[i]
    BY Appended
  <1> HIDE DEF more
  <1>2. PICK g \in [0..n -> Seq(P)] : Joins(g, ss) /\ FlattenSeq(ss) = g[n]
    BY FlattenUnfolds
  <1>3. PICK h : Joins(h, more) /\ FlattenSeq(more) = h[n + 1]
    BY <1>1, FlattenUnfolds
  <1>4. h[0] = <<>> /\ g[0] = <<>> /\ \A i \in 1..n : g[i] = g[i - 1] \o ss[i]
    BY <1>2, <1>3 DEF Joins
  <1> HIDE DEF n
  <1>5. \A i \in 1..(n + 1) : h[i] = h[i - 1] \o more[i]
    BY <1>1, <1>3 DEF Joins
  <1>6. \A i \in 1..n : i \in 1..(n + 1) /\ more[i] = ss[i]
    BY <1>1
  <1>7. \A i \in 0..n : h[i] = g[i]
    <2>1. \A i \in 1..n : h[i - 1] = g[i - 1] => h[i] = g[i]
      BY <1>4, <1>5, <1>6
    <2>2. AgreeOnward(h, g, n)
      BY <1>4, <2>1 DEF AgreeOnward
    <2> QED
      BY <1>1, <2>2, Agreement
  <1>8. n + 1 \in 1..(n + 1) /\ (n + 1) - 1 = n /\ n \in 0..n
    BY <1>1
  <1>9. h[n + 1] = h[n] \o s
    BY <1>1, <1>5, <1>8
  <1>10. h[n] = g[n] /\ g[n] \in Seq(P)
    BY <1>2, <1>7, <1>8
  <1> QED
    BY <1>2, <1>3, <1>9, <1>10 DEF more

LEMMA Associative ==
  ASSUME NEW P, NEW a \in Seq(P), NEW b \in Seq(P), NEW c \in Seq(P)
  PROVE  (a \o b) \o c = a \o (b \o c) /\ a \o b \in Seq(P) /\ <<>> \o a = a /\ a \o <<>> = a
  OBVIOUS

LEMMA FlattenJoined ==
  ASSUME NEW P, NEW ss \in Seq(Seq(P)), NEW tt \in Seq(Seq(P))
  PROVE  FlattenSeq(ss \o tt) = FlattenSeq(ss) \o FlattenSeq(tt)
  <1> DEFINE Q == Seq(P)
             T == {u \in Seq(Q) : FlattenSeq(ss \o u) = FlattenSeq(ss) \o FlattenSeq(u)}
  <1>1. ASSUME NEW u \in Seq(Q) PROVE FlattenSeq(u) \in Seq(P)
    <2>1. <<>> \in Seq(P)
      OBVIOUS
    <2> QED
      BY <2>1, FlattenOne
  <1>2. <<>> \in T
    <2>1. <<>> \in Seq(Q) /\ ss \o <<>> = ss
      OBVIOUS
    <2>2. FlattenSeq(ss) \o <<>> = FlattenSeq(ss)
      BY <1>1, Associative
    <2> QED
      BY <2>1, <2>2, FlattenNothing
  <1>3. ASSUME NEW u \in Seq(Q), FlattenSeq(ss \o u) = FlattenSeq(ss) \o FlattenSeq(u), NEW x \in Q
        PROVE  FlattenSeq(ss \o Append(u, x)) = FlattenSeq(ss) \o FlattenSeq(Append(u, x))
    <2>1. ss \o u \in Seq(Q) /\ ss \o Append(u, x) = Append(ss \o u, x)
      BY SMTT(30)
    <2>2. FlattenSeq(Append(ss \o u, x)) = FlattenSeq(ss \o u) \o x
      BY <2>1, FlattenOne
    <2>3. FlattenSeq(Append(u, x)) = FlattenSeq(u) \o x
      BY FlattenOne
    <2>4. FlattenSeq(ss) \in Seq(P) /\ FlattenSeq(u) \in Seq(P)
      BY <1>1
    <2>5. (FlattenSeq(ss) \o FlattenSeq(u)) \o x = FlattenSeq(ss) \o (FlattenSeq(u) \o x)
      BY <2>4, Associative, SMTT(30)
    <2> QED
      BY <1>3, <2>1, <2>2, <2>3, <2>5
  <1>4. \A u \in T, x \in Q : Append(u, x) \in T
    <2> SUFFICES ASSUME NEW u \in T, NEW x \in Q PROVE Append(u, x) \in T
      OBVIOUS
    <2>1. Append(u, x) \in Seq(Q)
      BY Appended
    <2> QED
      BY <1>3, <2>1
  <1>5. T \in SUBSET Seq(Q)
    OBVIOUS
  <1> HIDE DEF T, Q
  <1>6. T = Seq(Q)
    BY <1>2, <1>4, <1>5, SeqInductive
  <1> QED
    BY <1>6 DEF T, Q

LEMMA FlattenTyped ==
  ASSUME NEW P, NEW ss \in Seq(Seq(P))
  PROVE  FlattenSeq(ss) \in Seq(P)
  <1>1. <<>> \in Seq(P)
    OBVIOUS
  <1> QED
    BY <1>1, FlattenOne

LEMMA OneAppended ==
  ASSUME NEW P, NEW x \in P
  PROVE  <<x>> = Append(<<>>, x) /\ <<x>> \in Seq(P) /\ <<>> \in Seq(P)
  OBVIOUS

LEMMA FlattenSingle ==
  ASSUME NEW P, NEW s \in Seq(P)
  PROVE  FlattenSeq(<<s>>) = s
  <1>1. <<>> \in Seq(Seq(P))
    OBVIOUS
  <1>2. FlattenSeq(Append(<<>>, s)) = FlattenSeq(<<>>) \o s
    BY <1>1, FlattenOne
  <1>3. FlattenSeq(<<>>) = <<>>
    BY FlattenNothing
  <1>4. <<s>> = Append(<<>>, s)
    BY OneAppended
  <1>5. <<>> \o s = s
    BY Associative
  <1>6. FlattenSeq(Append(<<>>, s)) = <<>> \o s
    BY <1>2, <1>3, Zenon
  <1>7. FlattenSeq(<<s>>) = FlattenSeq(Append(<<>>, s))
    BY <1>4, Zenon
  <1> QED
    BY <1>5, <1>6, <1>7, Zenon

LEMMA OnlySingle ==
  ASSUME NEW x, NEW kinds
  PROVE  Only(<<x>>, kinds) = IF x.kind \in kinds THEN <<x>> ELSE <<>>
  <1>1. <<x>> = Append(<<>>, x) /\ <<>> \in Seq({x}) /\ x \in {x}
    BY OneAppended
  <1>2. Only(<<>>, kinds) = <<>>
    BY OnlyNothing
  <1>3. Only(Append(<<>>, x), kinds)
          = IF x.kind \in kinds THEN Append(Only(<<>>, kinds), x) ELSE Only(<<>>, kinds)
    BY <1>1, OnlyOne
  <1>4. Only(<<x>>, kinds) = IF x.kind \in kinds THEN Append(<<>>, x) ELSE <<>>
    BY <1>1, <1>2, <1>3, Zenon
  <1> QED
    BY <1>1, <1>4, Zenon

LEMMA OnlyNone ==
  ASSUME NEW P, NEW s \in Seq(P), NEW kinds, \A x \in P : x.kind \notin kinds
  PROVE  Only(s, kinds) = <<>>
  <1> DEFINE T == {u \in Seq(P) : Only(u, kinds) = <<>>}
  <1>1. <<>> \in T
    <2>1. <<>> \in Seq(P) /\ Only(<<>>, kinds) = <<>>
      BY OnlyNothing
    <2> QED
      BY <2>1
  <1>2. \A u \in T, x \in P : Append(u, x) \in T
    <2> SUFFICES ASSUME NEW u \in T, NEW x \in P PROVE Append(u, x) \in T
      OBVIOUS
    <2>1. Append(u, x) \in Seq(P)
      BY Appended
    <2>2. Only(Append(u, x), kinds) = Only(u, kinds)
      BY OnlyOne
    <2> QED
      BY <2>1, <2>2
  <1>3. T \in SUBSET Seq(P)
    OBVIOUS
  <1> HIDE DEF T
  <1>4. T = Seq(P)
    BY <1>1, <1>2, <1>3, SeqInductive
  <1> QED
    BY <1>4 DEF T
-----------------------------------------------------------------------------
(* What a message says.                                                     *)

Kinds == {"text", "empty", "image", "reasoning", "call"}
Bits == [kind : Kinds, at : Nat \X Nat]
Results == [kind : {"result"}, at : Nat \X Nat, holds : Seq(Bits)]
Pieces == Bits \cup Results

\* The parts of an entry, and what of a message counts.
PiecesOf(n) == [k \in 1..Len(talk.history[n].parts) |-> Part(talk.history[n].parts[k], n, k)]
Meaning(message) ==
  IF message.role = "tool" THEN <<ToolResult(message)>>
  ELSE Only(message.content, {"text", "image"}) \o message.calls

\* A message of which no API loses anything: images are in none that calls.
WellSaid(message) ==
  /\ message \in [role : {"user", "assistant", "tool", "system"}, of : Nat,
                   content : Seq(Bits), calls : Seq(Bits)]
  /\ Only(message.content, Heard) = Only(message.content, {"text", "image"})
  /\ Only(message.calls, Heard) = message.calls
  /\ message.calls # <<>> => Only(message.content, {"image"}) = <<>>
  /\ message.role = "system" => TextOf(message) = Meaning(message)

LEMMA HistoryTyped ==
  ASSUME talk \in [api : Apis, history : BoundedSeq(Entry, EntryLimit), latest : BOOLEAN, prompt : BOOLEAN]
  PROVE  talk.history \in Seq(Entry)
  <1>1. talk.history \in UNION {[1..m -> Entry] : m \in 0..EntryLimit}
    BY DEF BoundedSeq, SeqOf
  <1>2. PICK m \in 0..EntryLimit : talk.history \in [1..m -> Entry]
    BY <1>1
  <1>3. m \in Nat
    BY ConversationAssumption
  <1> QED
    BY <1>2, <1>3

LEMMA PiecesTyped ==
  ASSUME talk.history \in Seq(Entry), NEW n \in 1..Len(talk.history)
  PROVE  /\ PiecesOf(n) \in Seq(Bits)
         /\ talk.history[n].role = "assistant" =>
              PiecesOf(n) \in Seq({b \in Bits : b.kind # "image"})
         /\ talk.history[n].role \in {"user", "tool"} =>
              PiecesOf(n) \in Seq({b \in Bits : b.kind # "call"})
         /\ talk.history[n].role \in {"user", "assistant", "tool"}
  <1> DEFINE entry == talk.history[n]
             parts == entry.parts
             len == Len(parts)
  <1>1. entry \in Entry
    OBVIOUS
  <1> HIDE DEF entry
  <1>2. /\ parts \in Seq(Kinds)
        /\ entry.role = "assistant" => \A k \in 1..Len(parts) : parts[k] # "image"
        /\ entry.role \in {"user", "tool"} => \A k \in 1..Len(parts) : parts[k] # "call"
        /\ entry.role \in {"user", "assistant", "tool"}
    <2>1. \/ entry.role = "user" /\ parts \in UserContents
          \/ entry.role = "assistant" /\ parts \in ReplyContents
          \/ entry.role = "tool" /\ parts \in ToolContents
      BY <1>1 DEF Entry
    <2>2. CASE entry.role \in {"user", "tool"} /\ parts \in UserContents \cup ToolContents
      <3> DEFINE some == {"text", "empty", "image"}
      <3>1. parts \in Seq(some)
        BY <2>2, ConversationAssumption
      <3>2. \A k \in 1..Len(parts) : parts[k] \in some
        BY <3>1
      <3>3. parts \in Seq(Kinds)
        BY <3>1 DEF Kinds
      <3> QED
        BY <2>2, <3>2, <3>3
    <2>3. CASE entry.role = "assistant" /\ parts \in ReplyContents
      <3> DEFINE some == {"text", "empty", "reasoning", "call"}
      <3>1. parts \in Seq(some)
        BY <2>3, ConversationAssumption
      <3>2. \A k \in 1..Len(parts) : parts[k] \in some
        BY <3>1
      <3>3. parts \in Seq(Kinds)
        BY <3>1 DEF Kinds
      <3> QED
        BY <2>3, <3>2, <3>3
    <2> QED
      BY <2>1, <2>2, <2>3
  <1> HIDE DEF parts
  <1>3. len \in Nat /\ n \in Nat /\ \A k \in 1..len : parts[k] \in Kinds
    BY <1>2
  <1>4. PiecesOf(n) = [k \in 1..len |-> Part(parts[k], n, k)]
    BY DEF PiecesOf, parts, entry
  <1>5. ASSUME NEW k \in 1..len PROVE Part(parts[k], n, k) \in Bits /\ Part(parts[k], n, k).kind = parts[k]
    <2>1. k \in Nat /\ parts[k] \in Kinds
      BY <1>3
    <2>2. <<n, k>> \in Nat \X Nat
      BY <1>3, <2>1
    <2> QED
      BY <2>1, <2>2 DEF Part, Bits
  <1> HIDE DEF len
  <1>6. \A S : (\A k \in 1..len : Part(parts[k], n, k) \in S) => PiecesOf(n) \in Seq(S)
    BY <1>3, <1>4
  <1>7. PiecesOf(n) \in Seq(Bits)
    BY <1>5, <1>6
  <1>8. ASSUME entry.role = "assistant" PROVE PiecesOf(n) \in Seq({b \in Bits : b.kind # "image"})
    <2>1. \A k \in 1..len : Part(parts[k], n, k) \in {b \in Bits : b.kind # "image"}
      BY <1>2, <1>5, <1>8 DEF len
    <2> QED
      BY <1>6, <2>1
  <1>9. ASSUME entry.role \in {"user", "tool"} PROVE PiecesOf(n) \in Seq({b \in Bits : b.kind # "call"})
    <2>1. \A k \in 1..len : Part(parts[k], n, k) \in {b \in Bits : b.kind # "call"}
      BY <1>2, <1>5, <1>9 DEF len
    <2> QED
      BY <1>6, <2>1
  <1> QED
    BY <1>2, <1>7, <1>8, <1>9 DEF entry

\* What is sent of an entry is what it must be to the model.
LEMMA EntrySaid ==
  ASSUME talk.history \in Seq(Entry), NEW n \in 1..Len(talk.history)
  PROVE  WellSaid(ChatMessage(n)) /\ Meaning(ChatMessage(n)) = MeantBy(n) /\ ChatMessage(n).role # "system"
  <1> DEFINE role == talk.history[n].role
             pieces == PiecesOf(n)
             content == Only(pieces, {"text", "empty", "image"})
             calls == Only(pieces, {"call"})
             message == [role |-> role, of |-> n, content |-> content, calls |-> calls]
  <1>1. ChatMessage(n) = message
    BY DEF ChatMessage, PiecesOf
  <1>2. /\ MeantBy(n) = IF role = "tool" THEN <<[kind |-> "result", at |-> <<n, 0>>, holds |-> Only(pieces, {"text"})]>>
                        ELSE Only(pieces, {"text", "image"}) \o Only(pieces, {"call"})
    BY DEF MeantBy, PiecesOf
  <1>3. /\ pieces \in Seq(Bits)
        /\ role = "assistant" => pieces \in Seq({b \in Bits : b.kind # "image"})
        /\ role \in {"user", "tool"} => pieces \in Seq({b \in Bits : b.kind # "call"})
        /\ role \in {"user", "assistant", "tool"}
    BY PiecesTyped
  <1> HIDE DEF role, pieces
  <1>4. content \in Seq(Bits) /\ calls \in Seq(Bits)
    BY <1>3, OnlyTyped
  <1>5. \A kinds : Only(content, kinds) = Only(pieces, {"text", "empty", "image"} \cap kinds)
    BY <1>3, OnlyTwice
  <1>6. \A kinds : Only(calls, kinds) = Only(pieces, {"call"} \cap kinds)
    BY <1>3, OnlyTwice
  <1> HIDE DEF content, calls
  <1>7. /\ Only(content, Heard) = Only(pieces, {"text", "image"})
        /\ Only(content, {"text", "image"}) = Only(pieces, {"text", "image"})
        /\ Only(content, {"text"}) = Only(pieces, {"text"})
        /\ Only(content, {"image"}) = Only(pieces, {"image"})
    <2>1. /\ {"text", "empty", "image"} \cap Heard = {"text", "image"}
          /\ {"text", "empty", "image"} \cap {"text", "image"} = {"text", "image"}
          /\ {"text", "empty", "image"} \cap {"text"} = {"text"}
          /\ {"text", "empty", "image"} \cap {"image"} = {"image"}
      BY DEF Heard
    <2> QED
      BY <1>5, <2>1
  <1>8. Only(calls, Heard) = calls
    <2>1. {"call"} \cap Heard = {"call"}
      BY DEF Heard
    <2> QED
      BY <1>6, <2>1 DEF calls
  <1>9. calls # <<>> => Only(content, {"image"}) = <<>>
    <2>1. CASE role = "assistant"
      <3> DEFINE P == {b \in Bits : b.kind # "image"}
      <3>1. \A x \in P : x.kind \notin {"image"}
        OBVIOUS
      <3>2. pieces \in Seq(P)
        BY <1>3, <2>1
      <3> HIDE DEF P
      <3>3. Only(pieces, {"image"}) = <<>>
        BY <3>1, <3>2, OnlyNone
      <3> QED
        BY <1>7, <3>3
    <2>2. CASE role \in {"user", "tool"}
      <3> DEFINE P == {b \in Bits : b.kind # "call"}
      <3>1. \A x \in P : x.kind \notin {"call"}
        OBVIOUS
      <3>2. pieces \in Seq(P)
        BY <1>3, <2>2
      <3> HIDE DEF P
      <3>3. Only(pieces, {"call"}) = <<>>
        BY <3>1, <3>2, OnlyNone
      <3> QED
        BY <3>3 DEF calls
    <2> QED
      BY <1>3, <2>1, <2>2
  <1>10. WellSaid(message)
    <2>1. n \in Nat
      OBVIOUS
    <2> QED
      BY <1>3, <1>4, <1>7, <1>8, <1>9, <2>1 DEF WellSaid
  <1>11. Meaning(message) = MeantBy(n)
    BY <1>2, <1>7 DEF Meaning, ToolResult, TextOf, calls
  <1> QED
    BY <1>1, <1>3, <1>10, <1>11

LEMMA SingleSaid ==
  ASSUME NEW role \in {"user", "system"}, NEW n \in Nat
  PROVE  /\ WellSaid(Single(role, n)) /\ Meaning(Single(role, n)) = <<Part("text", n, 1)>>
         /\ <<Part("text", n, 1)>> \in Seq(Pieces)
  <1> DEFINE part == Part("text", n, 1)
             message == [role |-> role, of |-> n, content |-> <<part>>, calls |-> <<>>]
  <1>1. Single(role, n) = message
    BY DEF Single
  <1>2. part \in Bits /\ part.kind = "text"
    <2>1. <<n, 1>> \in Nat \X Nat
      OBVIOUS
    <2> QED
      BY <2>1 DEF Part, Bits, Kinds
  <1> HIDE DEF part
  <1>3. <<part>> \in Seq(Bits) /\ <<>> \in Seq(Bits) /\ <<part>> \in Seq(Pieces)
    BY <1>2 DEF Pieces
  <1>4. /\ Only(<<part>>, Heard) = <<part>> /\ Only(<<part>>, {"text", "image"}) = <<part>>
        /\ Only(<<part>>, {"text"}) = <<part>> /\ Only(<<>>, Heard) = <<>>
    BY <1>2, OnlySingle, OnlyNothing DEF Heard
  <1>5. <<part>> \o <<>> = <<part>>
    BY <1>3, Associative
  <1>6. Meaning(message) = <<part>>
    BY <1>4, <1>5 DEF Meaning
  <1>7. TextOf(message) = <<part>>
    BY <1>4 DEF TextOf
  <1> QED
    BY <1>1, <1>3, <1>4, <1>6, <1>7 DEF WellSaid, part
\* What every API is told of a message is what it means.
LEMMA MessageSaid ==
  ASSUME NEW message, WellSaid(message)
  PROVE  /\ Meaning(message) \in Seq(Pieces) /\ TextOf(message) \in Seq(Pieces)
         /\ Only(Meaning(message), Heard) = Meaning(message)
         /\ OpenAiContent(message) \in Seq(Pieces) /\ Only(OpenAiContent(message), Heard) = Meaning(message)
         /\ Blocks(message) = Meaning(message)
  <1> DEFINE content == message.content
             calls == message.calls
  <1>1. content \in Seq(Bits) /\ calls \in Seq(Bits) /\ message.of \in Nat
    BY DEF WellSaid
  <1>2. /\ Only(content, Heard) = Only(content, {"text", "image"}) /\ Only(calls, Heard) = calls
        /\ calls # <<>> => Only(content, {"image"}) = <<>>
    BY DEF WellSaid
  <1> HIDE DEF content, calls
  <1>3. \A kinds : Only(content, kinds) \in Seq(Bits) /\ Only(calls, kinds) \in Seq(Bits)
    BY <1>1, OnlyTyped
  <1>4. \A s \in Seq(Bits) : s \in Seq(Pieces)
    <2>1. Bits \subseteq Pieces
      BY DEF Pieces
    <2> QED
      BY <2>1
  <1>5. ASSUME message.role = "tool"
        PROVE  LET result == <<ToolResult(message)>>
               IN result \in Seq(Pieces) /\ Only(result, Heard) = result
    <2> DEFINE x == ToolResult(message)
    <2>1. x \in Results /\ x.kind = "result"
      <3>1. <<message.of, 0>> \in Nat \X Nat
        BY <1>1
      <3>2. TextOf(message) \in Seq(Bits)
        BY <1>3 DEF TextOf, content
      <3> QED
        BY <3>1, <3>2 DEF ToolResult, Results
    <2> HIDE DEF x
    <2>2. x \in Pieces
      BY <2>1 DEF Pieces
    <2>3. <<x>> \in Seq(Pieces)
      BY <2>2, OneAppended
    <2>4. Only(<<x>>, Heard) = <<x>>
      BY <2>1, OnlySingle DEF Heard
    <2> QED
      BY <2>3, <2>4 DEF x
  <1>6. \A a, b \in Seq(Bits) : a \o b \in Seq(Pieces) /\ Only(a \o b, Heard) = Only(a, Heard) \o Only(b, Heard)
    <2> SUFFICES ASSUME NEW a \in Seq(Bits), NEW b \in Seq(Bits)
                 PROVE  a \o b \in Seq(Pieces) /\ Only(a \o b, Heard) = Only(a, Heard) \o Only(b, Heard)
      OBVIOUS
    <2>1. a \o b \in Seq(Bits)
      OBVIOUS
    <2> QED
      BY <1>4, <2>1, OnlyJoined
  <1>7. \A kinds : kinds \subseteq Heard => Only(Only(content, kinds), Heard) = Only(content, kinds)
    <2> SUFFICES ASSUME NEW kinds, kinds \subseteq Heard
                 PROVE  Only(Only(content, kinds), Heard) = Only(content, kinds)
      OBVIOUS
    <2>1. kinds \cap Heard = kinds
      OBVIOUS
    <2> QED
      BY <1>1, <2>1, OnlyTwice
  <1>8. {"text", "image"} \subseteq Heard /\ {"text"} \subseteq Heard
    BY DEF Heard
  <1> DEFINE spoken == Only(content, {"text", "image"})
  <1>9. spoken \in Seq(Bits) /\ Only(spoken, Heard) = spoken
    BY <1>3, <1>7, <1>8
  <1>10. TextOf(message) = Only(content, {"text"})
    BY DEF TextOf, content
  <1>11. TextOf(message) \in Seq(Bits) /\ Only(TextOf(message), Heard) = TextOf(message)
    BY <1>3, <1>7, <1>8, <1>10
  <1>12. Only(content, {"image"}) = <<>> => spoken = TextOf(message)
    <2>1. {"text"} \cup {"image"} = {"text", "image"}
      OBVIOUS
    <2>2. ASSUME Only(content, {"image"}) = <<>>
          PROVE  Only(content, {"text"} \cup {"image"}) = Only(content, {"text"})
      BY <1>1, <2>2, OnlyWithout
    <2> QED
      BY <1>10, <2>1, <2>2
  <1>13. CASE message.role = "tool"
    BY <1>4, <1>5, <1>11, <1>13 DEF Meaning, OpenAiContent, Blocks
  <1>14. CASE message.role # "tool"
    <2>1. Meaning(message) = spoken \o calls /\ Blocks(message) = spoken \o calls
      BY <1>14 DEF Meaning, Blocks, content, calls
    <2> HIDE DEF spoken
    <2>2. Meaning(message) \in Seq(Pieces) /\ Only(Meaning(message), Heard) = Meaning(message)
      BY <1>1, <1>2, <1>6, <1>9, <2>1
    <2>3. CASE calls # <<>> \/ Only(content, {"image"}) = <<>>
      <3>1. OpenAiContent(message) = TextOf(message) \o calls
        BY <1>14, <2>3 DEF OpenAiContent, content, calls
      <3>2. TextOf(message) = spoken
        BY <1>2, <1>12, <2>3
      <3>3. OpenAiContent(message) = Meaning(message)
        BY <2>1, <3>1, <3>2
      <3>4. TextOf(message) \in Seq(Pieces)
        BY <1>4, <1>11
      <3> QED
        BY <2>1, <2>2, <3>3, <3>4
    <2>4. CASE ~(calls # <<>> \/ Only(content, {"image"}) = <<>>)
      <3>1. OpenAiContent(message) = content /\ calls = <<>>
        BY <1>14, <2>4 DEF OpenAiContent, content, calls
      <3>2. spoken \o <<>> = spoken
        BY <1>9, Associative
      <3>3. Only(content, Heard) = spoken
        BY <1>2 DEF spoken
      <3>4. Meaning(message) = spoken
        BY <2>1, <3>1, <3>2
      <3> QED
        BY <1>1, <1>4, <1>11, <2>1, <2>2, <3>1, <3>3, <3>4
    <2> QED
      BY <2>3, <2>4
  <1> QED
    BY <1>13, <1>14

\* What a sequence of messages means, one after the other.
Meanings(ms) == [k \in 1..Len(ms) |-> Meaning(ms[k])]

LEMMA SameSequence ==
  ASSUME NEW Q, NEW c \in Seq(Q), NEW d \in Seq(Q), Len(c) = Len(d), \A k \in 1..Len(c) : c[k] = d[k]
  PROVE  c = d
  OBVIOUS

LEMMA MeaningsTyped ==
  ASSUME NEW M, \A m \in M : Meaning(m) \in Seq(Pieces), NEW s \in Seq(M)
  PROVE  Meanings(s) \in Seq(Seq(Pieces)) /\ Len(Meanings(s)) = Len(s)
  <1>1. \A k \in 1..Len(s) : Meaning(s[k]) \in Seq(Pieces)
    OBVIOUS
  <1> DEFINE Q == Seq(Pieces)
  <1> HIDE DEF Q
  <1>2. \A f : (\A k \in 1..Len(s) : f[k] \in Q) /\ f = [k \in 1..Len(s) |-> f[k]] => f \in Seq(Q) /\ Len(f) = Len(s)
    OBVIOUS
  <1> QED
    BY <1>1, <1>2 DEF Meanings, Q

LEMMA MeaningsJoined ==
  ASSUME NEW M, \A m \in M : Meaning(m) \in Seq(Pieces), NEW s \in Seq(M), NEW t \in Seq(M)
  PROVE  FlattenSeq(Meanings(s \o t)) = FlattenSeq(Meanings(s)) \o FlattenSeq(Meanings(t))
  <1>1. s \o t \in Seq(M)
    OBVIOUS
  <1>2. /\ Meanings(s) \in Seq(Seq(Pieces)) /\ Len(Meanings(s)) = Len(s)
        /\ Meanings(t) \in Seq(Seq(Pieces)) /\ Len(Meanings(t)) = Len(t)
        /\ Meanings(s \o t) \in Seq(Seq(Pieces)) /\ Len(Meanings(s \o t)) = Len(s \o t)
    BY <1>1, MeaningsTyped
  <1>3. /\ \A k \in 1..Len(s) : Meanings(s)[k] = Meaning(s[k])
        /\ \A k \in 1..Len(t) : Meanings(t)[k] = Meaning(t[k])
        /\ \A k \in 1..Len(s \o t) : Meanings(s \o t)[k] = Meaning((s \o t)[k])
    BY DEF Meanings
  <1>4. Len(s \o t) = Len(s) + Len(t) /\ \A k \in 1..(Len(s) + Len(t)) : (s \o t)[k] = IF k <= Len(s) THEN s[k] ELSE t[k - Len(s)]
    OBVIOUS
  <1> DEFINE a == Meanings(s)
             b == Meanings(t)
             c == Meanings(s \o t)
             Q == Seq(Pieces)
  <1>5. \A k \in 1..(Len(a) + Len(b)) : c[k] = IF k <= Len(a) THEN a[k] ELSE b[k - Len(a)]
    <2> SUFFICES ASSUME NEW k \in 1..(Len(s) + Len(t)) PROVE c[k] = IF k <= Len(s) THEN a[k] ELSE b[k - Len(s)]
      BY <1>2
    <2>1. c[k] = Meaning((s \o t)[k])
      BY <1>3, <1>4
    <2>2. CASE k <= Len(s)
      BY <1>3, <1>4, <2>1, <2>2
    <2>3. CASE ~(k <= Len(s))
      <3>1. k - Len(s) \in 1..Len(t)
        BY <2>3
      <3> QED
        BY <1>3, <1>4, <2>1, <2>3, <3>1
    <2> QED
      BY <2>2, <2>3
  <1>6. a \in Seq(Q) /\ b \in Seq(Q) /\ c \in Seq(Q) /\ Len(c) = Len(a) + Len(b)
    BY <1>2, <1>4
  <1> HIDE DEF a, b, c, Q
  <1>7. c = a \o b
    <2> DEFINE d == a \o b
    <2>1. d \in Seq(Q) /\ Len(d) = Len(a) + Len(b) /\ \A k \in 1..(Len(a) + Len(b)) : d[k] = IF k <= Len(a) THEN a[k] ELSE b[k - Len(a)]
      BY <1>6
    <2> HIDE DEF d
    <2>2. Len(c) = Len(d) /\ \A k \in 1..Len(c) : c[k] = d[k]
      BY <1>5, <1>6, <2>1
    <2>3. c \in Seq(Q) /\ d \in Seq(Q)
      BY <1>6, <2>1
    <2>4. c = d
      BY <2>2, <2>3, SameSequence
    <2> QED
      BY <2>4 DEF d
  <1> QED
    BY <1>6, <1>7, FlattenJoined DEF a, b, c, Q

LEMMA MeaningsSingle ==
  ASSUME NEW m, Meaning(m) \in Seq(Pieces)
  PROVE  FlattenSeq(Meanings(<<m>>)) = Meaning(m)
  <1>1. Meanings(<<m>>) = <<Meaning(m)>>
    BY DEF Meanings
  <1> QED
    BY <1>1, FlattenSingle

LEMMA MeaningsNone == FlattenSeq(Meanings(<<>>)) = <<>>
  <1>1. Meanings(<<>>) = <<>>
    BY DEF Meanings
  <1> QED
    BY <1>1, FlattenNothing
-----------------------------------------------------------------------------
(* The conversation on its way.                                             *)

Roles == {"user", "assistant", "tool", "system"}
Turns == [role : Roles, blocks : Seq(Pieces)]
ReadSoFar(n) == [k \in 1..n |-> ChatMessage(k)]
WholeTalk == Prompt \o ReadSoFar(Len(talk.history)) \o Latest

TalkTyped ==
  /\ talk \in [api : Apis, history : BoundedSeq(Entry, EntryLimit), latest : BOOLEAN, prompt : BOOLEAN]
  /\ stage \in {"reading", "converting", "sent", "refused"}
  /\ done \in Nat
  /\ system \in Seq(Pieces)
  /\ turns \in Seq(Turns)

Reading ==
  stage = "reading" =>
    done <= Len(talk.history) /\ messages = ReadSoFar(done) /\ system = <<>> /\ turns = <<>>

Converting ==
  stage \in {"converting", "sent"} =>
    /\ messages = WholeTalk
    /\ done <= Len(messages)
    /\ stage = "sent" => done = Len(messages)
    /\ done = 0 => system = <<>> /\ turns = <<>>
    /\ Said = FlattenSeq([k \in 1..done |-> Meaning(messages[k])])

TalkInv == TalkTyped /\ Reading /\ Converting /\ Alternates

\* The messages are good for every API, and the prompt is the first of them.
LEMMA WholeWellSaid ==
  ASSUME talk.history \in Seq(Entry)
  PROVE  /\ Len(WholeTalk) \in Nat
         /\ \A k \in 1..Len(WholeTalk) : WellSaid(WholeTalk[k]) /\ (WholeTalk[k].role = "system" => k = 1)
         /\ FlattenSeq(Meanings(WholeTalk)) = Conveyed
  <1> DEFINE M == {m \in [role : Roles, of : Nat, content : Seq(Bits), calls : Seq(Bits)] : WellSaid(m)}
             len == Len(talk.history)
             read == ReadSoFar(len)
  <1>1. len \in Nat
    OBVIOUS
  <1>2. \A m : WellSaid(m) => m \in M
    BY DEF WellSaid, Roles
  <1>3. \A m \in M : WellSaid(m) /\ Meaning(m) \in Seq(Pieces)
    BY MessageSaid
  <1>4. \A k \in 1..len : ChatMessage(k) \in M /\ Meaning(ChatMessage(k)) = MeantBy(k) /\ ChatMessage(k).role # "system"
    BY <1>2, EntrySaid
  <1>5. /\ Prompt \in Seq(M) /\ Len(Prompt) <= 1 /\ Latest \in Seq(M)
        /\ \A k \in 1..Len(Latest) : Latest[k].role # "system"
        /\ FlattenSeq(Meanings(Prompt)) = IF talk.prompt THEN <<Part("text", 0, 1)>> ELSE <<>>
        /\ FlattenSeq(Meanings(Latest)) = IF talk.latest THEN <<Part("text", len + 1, 1)>> ELSE <<>>
    <2>1. ASSUME NEW role \in {"user", "system"}, NEW n \in Nat
          PROVE  /\ <<Single(role, n)>> \in Seq(M) /\ Single(role, n).role = role
                 /\ FlattenSeq(Meanings(<<Single(role, n)>>)) = <<Part("text", n, 1)>>
      <3>1. /\ WellSaid(Single(role, n)) /\ Meaning(Single(role, n)) = <<Part("text", n, 1)>>
            /\ <<Part("text", n, 1)>> \in Seq(Pieces)
        BY SingleSaid
      <3>2. Single(role, n) \in M /\ Meaning(Single(role, n)) \in Seq(Pieces)
        BY <1>2, <3>1
      <3>3. FlattenSeq(Meanings(<<Single(role, n)>>)) = Meaning(Single(role, n))
        BY <3>2, MeaningsSingle
      <3>4. Single(role, n).role = role
        BY DEF Single
      <3> HIDE DEF M
      <3>5. <<Single(role, n)>> \in Seq(M)
        BY <3>2, OneAppended
      <3> QED
        BY <3>1, <3>3, <3>4, <3>5
    <2> DEFINE first == Single("system", 0)
               last == Single("user", len + 1)
    <2>2. /\ <<first>> \in Seq(M) /\ FlattenSeq(Meanings(<<first>>)) = <<Part("text", 0, 1)>>
          /\ <<last>> \in Seq(M) /\ FlattenSeq(Meanings(<<last>>)) = <<Part("text", len + 1, 1)>>
          /\ last.role = "user"
      <3>1. 0 \in Nat /\ len + 1 \in Nat /\ "system" \in {"user", "system"} /\ "user" \in {"user", "system"}
        BY <1>1
      <3>2. /\ <<Single("system", 0)>> \in Seq(M)
            /\ FlattenSeq(Meanings(<<Single("system", 0)>>)) = <<Part("text", 0, 1)>>
        BY <2>1, <3>1
      <3> DEFINE place == len + 1
      <3>3. place \in Nat
        BY <3>1
      <3> HIDE DEF place, M
      <3>4. /\ <<Single("user", place)>> \in Seq(M) /\ Single("user", place).role = "user"
            /\ FlattenSeq(Meanings(<<Single("user", place)>>)) = <<Part("text", place, 1)>>
        BY <2>1, <3>1, <3>3
      <3> QED
        BY <3>2, <3>4 DEF place
    <2>3. /\ Prompt = IF talk.prompt THEN <<first>> ELSE <<>>
          /\ Latest = IF talk.latest THEN <<last>> ELSE <<>>
      BY DEF Prompt, Latest
    <2> HIDE DEF M, first, last, len
    <2>4. <<>> \in Seq(M) /\ Len(<<>>) = 0 /\ Len(<<first>>) = 1 /\ Len(<<last>>) = 1 /\ <<last>>[1] = last
      OBVIOUS
    <2>5. Prompt \in Seq(M) /\ Len(Prompt) <= 1
      BY <2>2, <2>3, <2>4
    <2>6. Latest \in Seq(M) /\ \A k \in 1..Len(Latest) : Latest[k].role # "system"
      <3>1. CASE talk.latest
        BY <2>2, <2>3, <2>4, <3>1
      <3>2. CASE ~talk.latest
        BY <2>3, <2>4, <3>2
      <3> QED
        BY <3>1, <3>2
    <2>7. FlattenSeq(Meanings(Prompt)) = IF talk.prompt THEN <<Part("text", 0, 1)>> ELSE <<>>
      BY <2>2, <2>3, MeaningsNone
    <2>8. FlattenSeq(Meanings(Latest)) = IF talk.latest THEN <<Part("text", len + 1, 1)>> ELSE <<>>
      BY <2>2, <2>3, MeaningsNone
    <2> QED
      BY <2>5, <2>6, <2>7, <2>8
  <1>6. /\ read \in Seq(M) /\ Len(read) = len /\ \A k \in 1..len : read[k].role # "system"
        /\ Meanings(read) = [n \in 1..len |-> MeantBy(n)]
    <2>1. read = [k \in 1..len |-> ChatMessage(k)]
      BY DEF ReadSoFar
    <2> HIDE DEF M, read, len
    <2>2. read \in Seq(M) /\ Len(read) = len
      BY <1>1, <1>4, <2>1
    <2>3. \A k \in 1..len : read[k] = ChatMessage(k)
      BY <2>1
    <2>4. Meanings(read) = [n \in 1..len |-> Meaning(read[n])]
      BY <2>2 DEF Meanings
    <2>5. \A n \in 1..len : Meaning(read[n]) = MeantBy(n)
      BY <1>4, <2>3
    <2>6. Meanings(read) = [n \in 1..len |-> MeantBy(n)]
      BY <2>4, <2>5
    <2> QED
      BY <1>4, <2>2, <2>3, <2>6
  <1>7. WholeTalk = Prompt \o read \o Latest
    BY DEF WholeTalk
  <1>8. Conveyed = FlattenSeq(Meanings(Prompt)) \o FlattenSeq(Meanings(read)) \o FlattenSeq(Meanings(Latest))
    BY <1>5, <1>6 DEF Conveyed
  <1> HIDE DEF M, read, len
  <1>9. Prompt \o read \in Seq(M)
    BY <1>5, <1>6
  <1>10. FlattenSeq(Meanings(WholeTalk)) = FlattenSeq(Meanings(Prompt)) \o FlattenSeq(Meanings(read)) \o FlattenSeq(Meanings(Latest))
    <2>1. FlattenSeq(Meanings(Prompt \o read)) = FlattenSeq(Meanings(Prompt)) \o FlattenSeq(Meanings(read))
      BY <1>3, <1>5, <1>6, MeaningsJoined
    <2>2. FlattenSeq(Meanings((Prompt \o read) \o Latest)) = FlattenSeq(Meanings(Prompt \o read)) \o FlattenSeq(Meanings(Latest))
      BY <1>3, <1>5, <1>9, MeaningsJoined
    <2> QED
      BY <1>7, <2>1, <2>2
  <1>11. /\ WholeTalk \in Seq(M) /\ Len(WholeTalk) = Len(Prompt) + len + Len(Latest)
         /\ \A k \in 1..Len(WholeTalk) :
              WholeTalk[k] = IF k <= Len(Prompt) THEN Prompt[k]
                             ELSE IF k <= Len(Prompt) + len THEN read[k - Len(Prompt)]
                             ELSE Latest[k - (Len(Prompt) + len)]
    <2> DEFINE both == Prompt \o read
    <2>1. Len(both) = Len(Prompt) + len /\ \A k \in 1..Len(both) : both[k] = IF k <= Len(Prompt) THEN Prompt[k] ELSE read[k - Len(Prompt)]
      BY <1>5, <1>6
    <2>2. both \in Seq(M)
      BY <1>9
    <2> HIDE DEF both
    <2>3. /\ both \o Latest \in Seq(M) /\ Len(both \o Latest) = Len(both) + Len(Latest)
          /\ \A k \in 1..(Len(both) + Len(Latest)) :
               (both \o Latest)[k] = IF k <= Len(both) THEN both[k] ELSE Latest[k - Len(both)]
      BY <1>5, <2>2
    <2>4. WholeTalk = both \o Latest
      BY <1>7 DEF both
    <2>5. Len(Prompt) \in Nat /\ Len(Latest) \in Nat
      BY <1>5
    <2> QED
      BY <1>1, <2>1, <2>3, <2>4, <2>5
  <1>12. \A k \in 1..Len(WholeTalk) : WholeTalk[k].role = "system" => k = 1
    <2> SUFFICES ASSUME NEW k \in 1..Len(WholeTalk), k # 1 PROVE WholeTalk[k].role # "system"
      OBVIOUS
    <2>1. Len(Prompt) \in Nat /\ Len(Prompt) <= 1 /\ Len(Latest) \in Nat
      BY <1>5
    <2>2. ~(k <= Len(Prompt))
      BY <2>1
    <2>3. CASE k <= Len(Prompt) + len
      <3>1. k - Len(Prompt) \in 1..len
        BY <1>1, <2>1, <2>2, <2>3
      <3> QED
        BY <1>6, <1>11, <2>2, <2>3, <3>1
    <2>4. CASE ~(k <= Len(Prompt) + len)
      <3>1. k - (Len(Prompt) + len) \in 1..Len(Latest)
        BY <1>1, <1>11, <2>1, <2>4
      <3> QED
        BY <1>5, <1>11, <2>2, <2>4, <3>1
    <2> QED
      BY <2>3, <2>4
  <1>13. Len(WholeTalk) \in Nat /\ \A k \in 1..Len(WholeTalk) : WellSaid(WholeTalk[k])
    <2>1. \A k \in 1..Len(WholeTalk) : WholeTalk[k] \in M
      BY <1>11
    <2> QED
      BY <1>3, <1>11, <2>1
  <1> QED
    BY <1>8, <1>10, <1>12, <1>13

\* What a request says that has this system prompt and these turns.
SaidIn(texts, ts) == texts \o Only(FlattenSeq([k \in 1..Len(ts) |-> ts[k].blocks]), Heard)

LEMMA PiecesJoined ==
  ASSUME NEW s \in Seq(Pieces), NEW t \in Seq(Pieces)
  PROVE  /\ Only(s \o t, Heard) = Only(s, Heard) \o Only(t, Heard)
         /\ Only(s, Heard) \in Seq(Pieces) /\ Only(t, Heard) \in Seq(Pieces)
  <1>1. Only(s, Heard) \in Seq(Pieces) /\ Only(t, Heard) \in Seq(Pieces)
    BY OnlyTyped
  <1> DEFINE P == Pieces
  <1> HIDE DEF P
  <1>2. s \in Seq(P) /\ t \in Seq(P)
    BY DEF P
  <1>3. Only(s \o t, Heard) = Only(s, Heard) \o Only(t, Heard)
    BY <1>2, OnlyJoined
  <1> QED
    BY <1>1, <1>3

LEMMA TurnAdded ==
  ASSUME NEW texts \in Seq(Pieces), NEW ts \in Seq(Turns), NEW turn \in Turns
  PROVE  /\ Append(ts, turn) \in Seq(Turns) /\ SaidIn(texts, ts) \in Seq(Pieces)
         /\ SaidIn(texts, Append(ts, turn)) = SaidIn(texts, ts) \o Only(turn.blocks, Heard)
  <1> DEFINE n == Len(ts)
             more == Append(ts, turn)
             before == [k \in 1..n |-> ts[k].blocks]
             after == [k \in 1..Len(more) |-> more[k].blocks]
             last == turn.blocks
             Q == Seq(Pieces)
  <1>1. /\ more \in Seq(Turns) /\ Len(more) = n + 1 /\ n \in Nat
        /\ \A i \in 1..(n + 1) : more[i] = IF i = n + 1 THEN turn ELSE ts[i]
    BY Appended
  <1>2. last \in Q /\ \A k \in 1..n : ts[k].blocks \in Q
    <2>1. \A x \in Turns : x.blocks \in Q
      BY DEF Turns
    <2>2. \A k \in 1..n : ts[k] \in Turns
      OBVIOUS
    <2> QED
      BY <2>1, <2>2
  <1> HIDE DEF more, n
  <1>3. before \in [1..n -> Q] /\ \A k \in 1..n : before[k] = ts[k].blocks
    BY <1>2
  <1> HIDE DEF Q, last, before
  <1>4. before \in Seq(Q) /\ Len(before) = n
    <2>1. n \in Nat
      BY <1>1
    <2>2. \A f \in [1..n -> Q] : f \in Seq(Q) /\ Len(f) = n
      BY <2>1
    <2> QED
      BY <1>3, <2>2
  <1>5. /\ Append(before, last) \in Seq(Q) /\ Len(Append(before, last)) = n + 1
        /\ \A i \in 1..(n + 1) : Append(before, last)[i] = IF i = n + 1 THEN last ELSE before[i]
    BY <1>2, <1>4, Appended
  <1>6. \A k \in 1..(n + 1) : after[k] = IF k = n + 1 THEN last ELSE before[k]
    BY <1>1, <1>3 DEF last
  <1>7. after \in Seq(Q) /\ Len(after) = n + 1
    <2>1. \A k \in 1..(n + 1) : more[k].blocks \in Q
      BY <1>1, <1>2 DEF last
    <2>2. after \in [1..(n + 1) -> Q]
      BY <1>1, <2>1
    <2> HIDE DEF after
    <2> QED
      BY <1>1, <2>2
  <1> HIDE DEF before, after
  <1>8. after = Append(before, last)
    <2> DEFINE whole == Append(before, last)
    <2>1. whole \in Seq(Q) /\ Len(whole) = n + 1 /\ \A k \in 1..(n + 1) : after[k] = whole[k]
      BY <1>5, <1>6
    <2> HIDE DEF whole
    <2>2. after = whole
      BY <1>7, <2>1, SameSequence
    <2> QED
      BY <2>2 DEF whole
  <1>9. FlattenSeq(after) = FlattenSeq(before) \o last /\ FlattenSeq(before) \in Seq(Pieces)
    BY <1>2, <1>4, <1>8, FlattenOne DEF Q
  <1>10. last \in Seq(Pieces) /\ FlattenSeq(before) \in Seq(Pieces)
    BY <1>2, <1>9 DEF Q
  <1>11. Only(FlattenSeq(before) \o last, Heard) = Only(FlattenSeq(before), Heard) \o Only(last, Heard)
    BY <1>10, PiecesJoined
  <1> DEFINE a == Only(FlattenSeq(before), Heard)
             b == Only(last, Heard)
  <1>12. a \in Seq(Pieces) /\ b \in Seq(Pieces)
    BY <1>10, OnlyTyped
  <1>13. SaidIn(texts, ts) = texts \o a /\ SaidIn(texts, more) = texts \o (a \o b)
    <2>1. /\ SaidIn(texts, ts) = texts \o Only(FlattenSeq(before), Heard)
          /\ SaidIn(texts, more) = texts \o Only(FlattenSeq(after), Heard)
      BY DEF SaidIn, before, after, n
    <2> QED
      BY <1>9, <1>11, <2>1
  <1> HIDE DEF a, b
  <1>14. (texts \o a) \o b = texts \o (a \o b) /\ texts \o a \in Seq(Pieces)
    BY <1>12, Associative
  <1> QED
    BY <1>1, <1>13, <1>14 DEF more, b, last

LEMMA TurnJoined ==
  ASSUME NEW texts \in Seq(Pieces), NEW ts \in Seq(Turns), ts # <<>>, NEW blocks \in Seq(Pieces)
  PROVE  LET more == [ts EXCEPT ![Len(ts)].blocks = @ \o blocks]
         IN /\ more \in Seq(Turns) /\ SaidIn(texts, more) = SaidIn(texts, ts) \o Only(blocks, Heard)
            /\ Len(more) = Len(ts)
            /\ \A k \in 1..Len(ts) : more[k].role = ts[k].role
            /\ \A k \in 1..Len(ts) : ts[k].blocks # <<>> => more[k].blocks # <<>>
  <1> DEFINE more == [ts EXCEPT ![Len(ts)].blocks = @ \o blocks]
  <1>1. PICK f \in Seq(Turns), x \in Turns : ts = Append(f, x) /\ Len(ts) = Len(f) + 1
    BY Unappended
  <1> DEFINE longer == [x EXCEPT !.blocks = @ \o blocks]
             n == Len(f)
             said == x.blocks
  <1>2. said \in Seq(Pieces) /\ x \in [role : Roles, blocks : Seq(Pieces)]
    BY DEF Turns
  <1>3. said \o blocks \in Seq(Pieces)
    BY <1>2
  <1>4. longer \in Turns /\ longer.role = x.role /\ longer.blocks = said \o blocks
    BY <1>2, <1>3 DEF Turns
  <1>5. n \in Nat /\ \A i \in 1..(n + 1) : ts[i] = IF i = n + 1 THEN x ELSE f[i]
    BY <1>1, Appended
  <1> HIDE DEF longer, said
  <1>6. /\ Append(f, longer) \in Seq(Turns) /\ Len(Append(f, longer)) = n + 1
        /\ \A i \in 1..(n + 1) : Append(f, longer)[i] = IF i = n + 1 THEN longer ELSE f[i]
    BY <1>4, Appended
  <1>7. ts[Len(ts)] = x /\ Len(ts) = n + 1
    BY <1>1, <1>5
  <1>8. more = [ts EXCEPT ![Len(ts)] = longer]
    BY <1>7 DEF longer
  <1> HIDE DEF more, n
  <1>9. more \in Seq(Turns) /\ Len(more) = n + 1
    BY <1>4, <1>7, <1>8
  <1>10. \A k \in 1..(n + 1) : more[k] = IF k = n + 1 THEN longer ELSE ts[k]
    BY <1>5, <1>7, <1>8
  <1>11. more = Append(f, longer)
    <2> DEFINE whole == Append(f, longer)
    <2>1. whole \in Seq(Turns) /\ Len(whole) = n + 1 /\ \A k \in 1..(n + 1) : more[k] = whole[k]
      BY <1>5, <1>6, <1>10
    <2> HIDE DEF whole
    <2>2. more = whole
      BY <1>9, <2>1, SameSequence
    <2> QED
      BY <2>2 DEF whole
  <1> DEFINE a == SaidIn(texts, f)
             c == Only(said, Heard)
             d == Only(blocks, Heard)
  <1>12. SaidIn(texts, Append(f, longer)) = a \o Only(said \o blocks, Heard) /\ a \in Seq(Pieces)
    <2>1. SaidIn(texts, Append(f, longer)) = SaidIn(texts, f) \o Only(longer.blocks, Heard) /\ SaidIn(texts, f) \in Seq(Pieces)
      BY <1>4, TurnAdded
    <2> HIDE DEF a
    <2>2. SaidIn(texts, Append(f, longer)) = a \o Only(longer.blocks, Heard) /\ a \in Seq(Pieces)
      BY <2>1 DEF a
    <2> QED
      BY <1>4, <2>2, Zenon
  <1>13. SaidIn(texts, Append(f, x)) = a \o c
    BY TurnAdded DEF said
  <1>14. Only(said \o blocks, Heard) = c \o d
    BY <1>2, PiecesJoined
  <1>15. c \in Seq(Pieces) /\ d \in Seq(Pieces)
    BY <1>2, OnlyTyped
  <1> DEFINE P == Pieces
  <1> HIDE DEF P
  <1>16. a \in Seq(P) /\ c \in Seq(P) /\ d \in Seq(P)
    BY <1>12, <1>15 DEF P
  <1> HIDE DEF a, c, d
  <1>17. (a \o c) \o d = a \o (c \o d)
    <2>1. \A u, v, w \in Seq(P) : (u \o v) \o w = u \o (v \o w)
      BY Associative, SMTT(30)
    <2> QED
      BY <1>16, <2>1
  <1>18. SaidIn(texts, more) = SaidIn(texts, ts) \o d
    <2>1. SaidIn(texts, more) = a \o (c \o d)
      BY <1>11, <1>12, <1>14, Zenon
    <2>2. SaidIn(texts, ts) = a \o c
      BY <1>1, <1>13, Zenon
    <2> QED
      BY <1>17, <2>1, <2>2, Zenon
  <1>19. said # <<>> => longer.blocks # <<>>
    BY <1>2, <1>4
  <1>20. \A k \in 1..(n + 1) : more[k].role = ts[k].role /\ (ts[k].blocks # <<>> => more[k].blocks # <<>>)
    BY <1>4, <1>5, <1>10, <1>19 DEF said
  <1> QED
    BY <1>7, <1>9, <1>18, <1>20 DEF more, d

LEMMA NothingSaid ==
  ASSUME NEW texts \in Seq(Pieces)
  PROVE  SaidIn(texts, <<>>) = texts
  <1>1. [k \in 1..Len(<<>>) |-> <<>>[k].blocks] = <<>>
    OBVIOUS
  <1>2. Only(FlattenSeq(<<>>), Heard) = <<>>
    BY FlattenNothing, OnlyNothing
  <1>3. texts \o <<>> = texts
    BY Associative
  <1> QED
    BY <1>1, <1>2, <1>3 DEF SaidIn

\* One message more means what it means.
LEMMA OneMoreMeant ==
  ASSUME NEW ms, NEW n \in Nat, \A k \in 1..(n + 1) : Meaning(ms[k]) \in Seq(Pieces)
  PROVE  FlattenSeq([k \in 1..(n + 1) |-> Meaning(ms[k])])
           = FlattenSeq([k \in 1..n |-> Meaning(ms[k])]) \o Meaning(ms[n + 1])
  <1> DEFINE Q == Seq(Pieces)
             before == [k \in 1..n |-> Meaning(ms[k])]
             after == [k \in 1..(n + 1) |-> Meaning(ms[k])]
             last == Meaning(ms[n + 1])
  <1>0. \A k \in 1..n : k \in 1..(n + 1)
    OBVIOUS
  <1>1. last \in Q /\ \A k \in 1..n : Meaning(ms[k]) \in Q
    BY <1>0
  <1>2. before \in [1..n -> Q] /\ after \in [1..(n + 1) -> Q]
    BY <1>1
  <1>3. \A k \in 1..(n + 1) : after[k] = IF k = n + 1 THEN last ELSE before[k]
    OBVIOUS
  <1> HIDE DEF Q, before, after, last
  <1>4. before \in Seq(Q) /\ Len(before) = n /\ after \in Seq(Q) /\ Len(after) = n + 1
    BY <1>2
  <1> DEFINE whole == Append(before, last)
  <1>5. whole \in Seq(Q) /\ Len(whole) = n + 1 /\ \A k \in 1..(n + 1) : whole[k] = IF k = n + 1 THEN last ELSE before[k]
    BY <1>1, <1>4, Appended
  <1> HIDE DEF whole
  <1>6. after = whole
    BY <1>3, <1>4, <1>5, SameSequence
  <1>7. FlattenSeq(Append(before, last)) = FlattenSeq(before) \o last
    BY <1>1, <1>4, FlattenOne DEF Q
  <1> QED
    BY <1>6, <1>7 DEF before, after, last, whole

\* What one more message does to the request says what it means.
ToldOfOne(message) == SplitSystem(message) \/ ToOpenAi(message) \/ ToTurns(message)

LEMMA OneTold ==
  ASSUME TalkTyped, Alternates, NEW message, WellSaid(message), ToldOfOne(message), talk' = talk,
         message.role = "system" => turns = <<>>
  PROVE  /\ system' \in Seq(Pieces) /\ turns' \in Seq(Turns) /\ Alternates'
         /\ Said' = Said \o Meaning(message)
  <1> DEFINE meaning == Meaning(message)
  <1>1. /\ meaning \in Seq(Pieces) /\ TextOf(message) \in Seq(Pieces) /\ Only(meaning, Heard) = meaning
        /\ OpenAiContent(message) \in Seq(Pieces) /\ Only(OpenAiContent(message), Heard) = meaning
        /\ Blocks(message) = meaning
    BY MessageSaid
  <1>2. Said = SaidIn(system, turns) /\ Said' = SaidIn(system', turns')
    BY DEF Said, SaidIn
  <1>3. system \in Seq(Pieces) /\ turns \in Seq(Turns)
    BY DEF TalkTyped
  <1>4. message.role \in Roles /\ Speaker(message) \in Roles /\ Speaker(message) \in {"user", "assistant"}
    BY DEF WellSaid, Roles, Speaker
  <1>5. CASE SplitSystem(message)
    <2>1. turns = <<>> /\ turns' = turns /\ system' = system \o TextOf(message) /\ TextOf(message) = meaning
      BY <1>5 DEF SplitSystem, WellSaid
    <2> DEFINE P == Pieces
    <2> HIDE DEF meaning, P
    <2>2. system' = system \o meaning
      BY <2>1
    <2>3. system \in Seq(P) /\ meaning \in Seq(P)
      BY <1>1, <1>3 DEF P
    <2>4. system \o meaning \in Seq(P)
      BY <2>3
    <2>5. SaidIn(system, <<>>) = system /\ SaidIn(system \o meaning, <<>>) = system \o meaning
      BY <1>3, <2>4, NothingSaid DEF P
    <2>6. Said' = Said \o meaning
      BY <1>2, <2>1, <2>2, <2>5, Zenon
    <2>7. Alternates'
      BY <2>1 DEF Alternates
    <2> QED
      BY <1>3, <2>1, <2>2, <2>4, <2>6, <2>7 DEF meaning, P
  <1>6. CASE ToOpenAi(message)
    <2> DEFINE turn == [role |-> message.role, blocks |-> OpenAiContent(message)]
    <2>1. turns' = Append(turns, turn) /\ system' = system /\ talk'.api = "openai"
      BY <1>6 DEF ToOpenAi
    <2>2. turn \in Turns
      BY <1>1, <1>4 DEF Turns
    <2>3. Only(turn.blocks, Heard) = meaning
      BY <1>1
    <2> HIDE DEF turn, meaning
    <2>4. /\ Append(turns, turn) \in Seq(Turns)
          /\ SaidIn(system, Append(turns, turn)) = SaidIn(system, turns) \o Only(turn.blocks, Heard)
      BY <1>3, <2>2, TurnAdded
    <2>5. Said' = Said \o meaning
      BY <1>2, <2>1, <2>3, <2>4, Zenon
    <2>6. Alternates'
      BY <2>1 DEF Alternates
    <2> QED
      BY <1>3, <2>1, <2>4, <2>5, <2>6 DEF meaning
  <1>7. CASE ToTurns(message)
    <2> DEFINE role == Speaker(message)
    <2>1. /\ talk.api # "openai" /\ system' = system
          /\ turns' = IF meaning = <<>> THEN turns ELSE JoinTurn(role, meaning)
      BY <1>1, <1>7 DEF ToTurns
    <2>2. /\ \A k \in 1..(Len(turns) - 1) : turns[k].role # turns[k + 1].role
          /\ \A k \in 1..Len(turns) : turns[k].role \in {"user", "assistant"} /\ turns[k].blocks # <<>>
      BY <2>1 DEF Alternates
    <2>3. role \in Roles /\ role \in {"user", "assistant"}
      BY <1>4
    <2>4. Len(turns) \in Nat
      BY <1>3
    <2> HIDE DEF role, meaning
    <2>5. CASE meaning = <<>>
      <3>1. turns' = turns /\ Alternates'
        BY <2>1, <2>5 DEF Alternates
      <3> DEFINE said == SaidIn(system, turns)
                 P == Pieces
      <3>2. \E turn : turn \in Turns
        <4>1. <<>> \in Seq(Pieces)
          OBVIOUS
        <4>2. [role |-> "user", blocks |-> <<>>] \in Turns
          BY <4>1 DEF Turns, Roles
        <4> QED
          BY <4>2
      <3>3. said \in Seq(P)
        BY <1>3, <3>2, TurnAdded
      <3> HIDE DEF said, P
      <3>4. said \o <<>> = said
        BY <3>3, Associative
      <3>5. Said' = Said \o meaning
        BY <1>2, <2>1, <2>5, <3>1, <3>4, Zenon DEF said
      <3> QED
        BY <1>3, <2>1, <3>1, <3>5 DEF meaning
    <2>6. CASE meaning # <<>> /\ turns # <<>> /\ turns[Len(turns)].role = role
      <3> DEFINE more == [turns EXCEPT ![Len(turns)].blocks = @ \o meaning]
      <3>1. turns' = more
        BY <2>1, <2>6 DEF JoinTurn, Last
      <3>2. /\ more \in Seq(Turns) /\ SaidIn(system, more) = SaidIn(system, turns) \o Only(meaning, Heard)
            /\ Len(more) = Len(turns)
            /\ \A k \in 1..Len(turns) : more[k].role = turns[k].role
            /\ \A k \in 1..Len(turns) : turns[k].blocks # <<>> => more[k].blocks # <<>>
        <4>1. meaning \in Seq(Pieces) /\ turns # <<>>
          BY <1>1, <2>6 DEF meaning
        <4>2. system \in Seq(Pieces) /\ turns \in Seq(Turns)
          BY <1>3
        <4> QED
          BY <4>1, <4>2, TurnJoined, ZenonT(30)
      <3> HIDE DEF more
      <3>3. Said' = Said \o meaning
        BY <1>1, <1>2, <2>1, <3>1, <3>2, Zenon DEF meaning
      <3>4. /\ \A k \in 1..(Len(more) - 1) : more[k].role # more[k + 1].role
            /\ \A k \in 1..Len(more) : more[k].role \in {"user", "assistant"} /\ more[k].blocks # <<>>
        <4>1. ASSUME NEW k \in 1..(Len(turns) - 1) PROVE more[k].role # more[k + 1].role
          <5>1. k \in 1..Len(turns) /\ k + 1 \in 1..Len(turns)
            BY <2>4
          <5>2. more[k].role = turns[k].role /\ more[k + 1].role = turns[k + 1].role
            BY <3>2, <5>1
          <5> QED
            BY <2>2, <5>2
        <4>2. \A k \in 1..Len(turns) : more[k].role \in {"user", "assistant"} /\ more[k].blocks # <<>>
          BY <2>2, <3>2
        <4> QED
          BY <3>2, <4>1, <4>2
      <3>5. Alternates'
        BY <3>1, <3>4 DEF Alternates
      <3> QED
        BY <1>3, <2>1, <3>1, <3>2, <3>3, <3>5 DEF meaning
    <2>7. CASE meaning # <<>> /\ ~(turns # <<>> /\ turns[Len(turns)].role = role)
      <3> DEFINE turn == [role |-> role, blocks |-> meaning]
                 more == Append(turns, turn)
      <3>1. turns' = more
        BY <2>1, <2>7 DEF JoinTurn, Last
      <3>2. turn \in Turns /\ turn.role = role /\ turn.blocks = meaning
        BY <1>1, <2>3 DEF Turns, meaning
      <3> HIDE DEF turn
      <3>3. more \in Seq(Turns) /\ SaidIn(system, more) = SaidIn(system, turns) \o Only(turn.blocks, Heard)
        BY <1>3, <3>2, TurnAdded
      <3>4. /\ Len(more) = Len(turns) + 1
            /\ \A i \in 1..(Len(turns) + 1) : more[i] = IF i = Len(turns) + 1 THEN turn ELSE turns[i]
        BY <1>3, <3>2, Appended
      <3> HIDE DEF more
      <3>5. Only(meaning, Heard) = meaning
        BY <1>1 DEF meaning
      <3>6. Said' = Said \o meaning
        BY <1>2, <2>1, <3>1, <3>2, <3>3, <3>5, Zenon
      <3>7. /\ \A k \in 1..(Len(more) - 1) : more[k].role # more[k + 1].role
            /\ \A k \in 1..Len(more) : more[k].role \in {"user", "assistant"} /\ more[k].blocks # <<>>
        <4>1. ASSUME NEW k \in 1..(Len(more) - 1) PROVE more[k].role # more[k + 1].role
          <5>1. CASE k = Len(turns)
            <6>1. turns # <<>>
              BY <5>1
            <6> QED
              BY <2>4, <2>7, <3>2, <3>4, <5>1, <6>1
          <5>2. CASE k # Len(turns)
            <6>1. k \in 1..(Len(turns) - 1) /\ k + 1 \in 1..Len(turns) /\ k \in 1..Len(turns)
              BY <2>4, <3>4, <5>2
            <6>2. more[k] = turns[k] /\ more[k + 1] = turns[k + 1]
              BY <2>4, <3>4, <6>1
            <6> QED
              BY <2>2, <6>1, <6>2
          <5> QED
            BY <5>1, <5>2
        <4>2. \A k \in 1..Len(more) : more[k].role \in {"user", "assistant"} /\ more[k].blocks # <<>>
          BY <2>2, <2>3, <2>4, <2>7, <3>2, <3>4
        <4> QED
          BY <4>1, <4>2
      <3>8. Alternates'
        BY <3>1, <3>7 DEF Alternates
      <3> QED
        BY <1>3, <2>1, <3>1, <3>3, <3>6, <3>8 DEF meaning
    <2> QED
      BY <2>5, <2>6, <2>7
  <1> QED
    BY <1>5, <1>6, <1>7 DEF ToldOfOne

\* At every stage the messages are those of the history, and the request says
\* what those converted so far mean; turns alternate where the API asks it.
THEOREM TalkInvariance == TalkSpec => []TalkInv
  <1>1. TalkInit => TalkInv
    <2> SUFFICES ASSUME TalkInit PROVE TalkInv
      OBVIOUS
    <2>1. stage = "reading" /\ done = 0 /\ messages = <<>> /\ system = <<>> /\ turns = <<>>
      BY DEF TalkInit
    <2>2. <<>> \in Seq(Pieces) /\ <<>> \in Seq(Turns) /\ Len(<<>>) = 0
      OBVIOUS
    <2>3. TalkTyped
      BY <2>2 DEF TalkInit, TalkTyped
    <2>4. Reading
      <3>1. talk.history \in Seq(Entry)
        BY <2>3, HistoryTyped DEF TalkTyped
      <3>2. Len(talk.history) \in Nat
        BY <3>1
      <3>3. ReadSoFar(0) = <<>>
        BY DEF ReadSoFar
      <3> QED
        BY <2>1, <3>2, <3>3 DEF Reading
    <2>5. Converting
      BY <2>1 DEF Converting
    <2>6. Alternates
      BY <2>1, <2>2 DEF Alternates
    <2> QED
      BY <2>3, <2>4, <2>5, <2>6 DEF TalkInv
  <1>2. TalkInv /\ [TalkNext]_talkVars => TalkInv'
    <2> SUFFICES ASSUME TalkInv, [TalkNext]_talkVars PROVE TalkInv'
      OBVIOUS
    <2>1. /\ talk \in [api : Apis, history : BoundedSeq(Entry, EntryLimit), latest : BOOLEAN, prompt : BOOLEAN]
          /\ done \in Nat /\ system \in Seq(Pieces) /\ turns \in Seq(Turns)
          /\ stage \in {"reading", "converting", "sent", "refused"}
      BY DEF TalkInv, TalkTyped
    <2>2. talk.history \in Seq(Entry) /\ Len(talk.history) \in Nat
      <3>1. talk.history \in Seq(Entry)
        BY <2>1, HistoryTyped
      <3> QED
        BY <3>1
    <2>3. talk' = talk
      BY DEF TalkNext, ReadEntry, Complete, Convert, Send, talkVars
    <2>4. \A n : ReadSoFar(n)' = ReadSoFar(n)
      BY <2>3 DEF ReadSoFar, ChatMessage
    <2>5. WholeTalk' = WholeTalk
      BY <2>3 DEF WholeTalk, ReadSoFar, ChatMessage, Prompt, Latest
    <2>6. CASE ReadEntry
      <3>1. /\ stage = "reading" /\ done < Len(talk.history) /\ done' = done + 1 /\ stage' = stage
            /\ messages' = Append(messages, ChatMessage(done + 1)) /\ system' = system /\ turns' = turns
        BY <2>6 DEF ReadEntry
      <3>2. messages = ReadSoFar(done) /\ system = <<>> /\ turns = <<>>
        BY <3>1 DEF TalkInv, Reading
      <3>3. Append(ReadSoFar(done), ChatMessage(done + 1)) = ReadSoFar(done + 1)
        <4> DEFINE n == done
                   before == [k \in 1..n |-> ChatMessage(k)]
                   after == [k \in 1..(n + 1) |-> ChatMessage(k)]
                   last == ChatMessage(n + 1)
                   Q == {ChatMessage(k) : k \in 1..(n + 1)}
        <4>1. n \in Nat
          BY <2>1
        <4>2. last \in Q /\ \A k \in 1..n : ChatMessage(k) \in Q
          BY <4>1
        <4>3. before \in [1..n -> Q] /\ after \in [1..(n + 1) -> Q]
          BY <4>2
        <4>4. \A k \in 1..(n + 1) : after[k] = IF k = n + 1 THEN last ELSE before[k]
          <5>1. \A k \in 1..(n + 1) : k # n + 1 => k \in 1..n
            BY <4>1
          <5> HIDE DEF n
          <5> QED
            BY <5>1
        <4> HIDE DEF n, Q, before, after, last
        <4>5. before \in Seq(Q) /\ Len(before) = n /\ after \in Seq(Q) /\ Len(after) = n + 1
          BY <4>1, <4>3
        <4> DEFINE whole == Append(before, last)
        <4>6. whole \in Seq(Q) /\ Len(whole) = n + 1 /\ \A k \in 1..(n + 1) : whole[k] = IF k = n + 1 THEN last ELSE before[k]
          BY <4>2, <4>5, Appended
        <4> HIDE DEF whole
        <4>7. after = whole
          BY <4>4, <4>5, <4>6, SameSequence
        <4> QED
          BY <4>7 DEF before, after, last, whole, n, ReadSoFar
      <3>4. TalkTyped'
        BY <2>1, <2>3, <3>1 DEF TalkTyped
      <3>5. Reading'
        <4>1. done' \in Nat /\ done' <= Len(talk'.history)
          BY <2>1, <2>2, <2>3, <3>1
        <4>2. messages' = ReadSoFar(done)'
          <5>1. messages' = ReadSoFar(done + 1)
            BY <3>1, <3>2, <3>3, Zenon
          <5>2. \A k : ChatMessage(k)' = ChatMessage(k)
            BY <2>3 DEF ChatMessage
          <5>3. ReadSoFar(done)' = [k \in 1..(done + 1) |-> ChatMessage(k)]
            BY <3>1, <5>2 DEF ReadSoFar
          <5>4. ReadSoFar(done + 1) = ReadSoFar(done)'
            BY <5>3 DEF ReadSoFar
          <5> QED
            BY <5>1, <5>4, Zenon
        <4> QED
          BY <3>1, <3>2, <4>1, <4>2 DEF Reading
      <3>6. Converting'
        BY <3>1 DEF Converting
      <3>7. Alternates'
        BY <2>3, <3>1 DEF TalkInv, Alternates
      <3> QED
        BY <3>4, <3>5, <3>6, <3>7 DEF TalkInv
    <2>7. CASE Complete
      <3>1. /\ stage = "reading" /\ done = Len(talk.history) /\ done' = 0 /\ system' = system /\ turns' = turns
            /\ \/ stage' = "refused"
               \/ stage' = "converting" /\ messages' = Prompt \o messages \o Latest
        BY <2>7 DEF Complete
      <3>2. messages = ReadSoFar(done) /\ system = <<>> /\ turns = <<>>
        BY <3>1 DEF TalkInv, Reading
      <3>3. TalkTyped'
        BY <2>1, <2>3, <3>1 DEF TalkTyped
      <3>4. Reading' /\ Alternates'
        BY <2>3, <3>1 DEF Reading, TalkInv, Alternates
      <3>5. Converting'
        <4>1. CASE stage' = "refused"
          BY <4>1 DEF Converting
        <4>2. CASE stage' = "converting" /\ messages' = Prompt \o messages \o Latest
          <5>1. messages' = WholeTalk
            BY <3>1, <3>2, <4>2 DEF WholeTalk
          <5>2. Len(WholeTalk) \in Nat
            BY <2>2, WholeWellSaid
          <5>3. done' <= Len(messages')
            BY <3>1, <5>1, <5>2
          <5>4. Said' = <<>>
            <6>1. Said' = SaidIn(<<>>, <<>>)
              <7>1. Said' = SaidIn(system', turns')
                BY DEF Said, SaidIn
              <7> QED
                BY <3>1, <3>2, <7>1
            <6>2. <<>> \in Seq(Pieces)
              OBVIOUS
            <6> QED
              BY <6>1, <6>2, NothingSaid
          <5>5. FlattenSeq([k \in 1..0 |-> Meaning(messages'[k])]) = <<>>
            <6>1. [k \in 1..0 |-> Meaning(messages'[k])] = <<>>
              OBVIOUS
            <6> QED
              BY <6>1, FlattenNothing
          <5>6. Said' = FlattenSeq([k \in 1..done' |-> Meaning(messages'[k])])
            BY <3>1, <5>4, <5>5
          <5> QED
            BY <2>5, <3>1, <3>2, <4>2, <5>1, <5>3, <5>6 DEF Converting, Meaning, ToolResult, TextOf
        <4> QED
          BY <3>1, <4>1, <4>2
      <3> QED
        BY <3>3, <3>4, <3>5 DEF TalkInv
    <2>8. CASE Convert
      <3> DEFINE message == messages[done + 1]
      <3>1. /\ stage = "converting" /\ done < Len(messages) /\ done' = done + 1 /\ stage' = stage
            /\ messages' = messages /\ ToldOfOne(message)
        BY <2>8 DEF Convert, ToldOfOne
      <3>2. /\ messages = WholeTalk
            /\ done = 0 => system = <<>> /\ turns = <<>>
            /\ Said = FlattenSeq([k \in 1..done |-> Meaning(messages[k])])
        BY <3>1 DEF TalkInv, Converting
      <3>3. Len(messages) \in Nat /\ \A k \in 1..Len(messages) : WellSaid(messages[k]) /\ (messages[k].role = "system" => k = 1)
        BY <2>2, <3>2, WholeWellSaid
      <3>4. done + 1 \in 1..Len(messages)
        BY <2>1, <3>1, <3>3
      <3>5. WellSaid(message) /\ (message.role = "system" => turns = <<>>)
        <4>1. message.role = "system" => done + 1 = 1
          BY <3>3, <3>4
        <4>2. done + 1 = 1 => done = 0
          BY <2>1
        <4> QED
          BY <3>2, <3>3, <3>4, <4>1, <4>2
      <3>6. /\ system' \in Seq(Pieces) /\ turns' \in Seq(Turns) /\ Alternates'
            /\ Said' = Said \o Meaning(message)
        <4>1. ToldOfOne(message)
          BY <3>1
        <4> HIDE DEF message
        <4> QED
          BY <2>3, <3>5, <4>1, OneTold DEF TalkInv
      <3>7. FlattenSeq([k \in 1..(done + 1) |-> Meaning(messages[k])])
              = FlattenSeq([k \in 1..done |-> Meaning(messages[k])]) \o Meaning(messages[done + 1])
        <4>1. \A k \in 1..(done + 1) : Meaning(messages[k]) \in Seq(Pieces)
          <5> SUFFICES ASSUME NEW k \in 1..(done + 1) PROVE Meaning(messages[k]) \in Seq(Pieces)
            OBVIOUS
          <5>1. k \in 1..Len(messages)
            BY <2>1, <3>3, <3>4
          <5> QED
            BY <3>3, <5>1, MessageSaid
        <4> QED
          BY <2>1, <4>1, OneMoreMeant
      <3>8. Said' = FlattenSeq([k \in 1..done' |-> Meaning(messages'[k])])
        BY <3>1, <3>2, <3>6, <3>7, Zenon
      <3>9. TalkTyped'
        BY <2>1, <2>3, <3>1, <3>6 DEF TalkTyped
      <3>10. Reading'
        BY <3>1 DEF Reading
      <3>11. Converting'
        <4>1. messages' = WholeTalk' /\ done' <= Len(messages') /\ done' # 0 /\ stage' # "sent"
          BY <2>1, <2>5, <3>1, <3>2, <3>4
        <4> QED
          BY <3>8, <4>1 DEF Converting, Meaning, ToolResult, TextOf
      <3> QED
        BY <3>6, <3>9, <3>10, <3>11 DEF TalkInv
    <2>9. CASE Send \/ UNCHANGED talkVars
      <3>1. /\ messages' = messages /\ done' = done /\ system' = system /\ turns' = turns
            /\ \/ stage' = stage
               \/ stage = "converting" /\ stage' = "sent" /\ done = Len(messages)
        BY <2>9 DEF Send, talkVars
      <3>2. TalkTyped'
        BY <2>1, <2>3, <3>1 DEF TalkTyped
      <3>3. Alternates'
        BY <2>3, <3>1 DEF TalkInv, Alternates
      <3>4. Reading'
        <4>1. stage' = "reading" => stage = "reading"
          BY <3>1
        <4>2. ReadSoFar(done)' = ReadSoFar(done)
          BY <2>3, <3>1 DEF ReadSoFar, ChatMessage
        <4> QED
          BY <2>3, <3>1, <4>1, <4>2 DEF TalkInv, Reading
      <3>5. Converting'
        <4>1. stage' \in {"converting", "sent"} => stage \in {"converting", "sent"}
          BY <3>1
        <4>2. Said' = Said
          BY <3>1 DEF Said
        <4> QED
          BY <2>5, <3>1, <4>1, <4>2 DEF TalkInv, Converting, Meaning, ToolResult, TextOf
      <3> QED
        BY <3>2, <3>3, <3>4, <3>5 DEF TalkInv
    <2> QED
      BY <2>6, <2>7, <2>8, <2>9 DEF TalkNext
  <1> QED
    BY <1>1, <1>2, PTL DEF TalkSpec

\* A request says what the client said, all of it, once and in its order, in
\* turns its API accepts, whatever the history and its length.
THEOREM TalkIsConveyed == TalkSpec => []TalkConveyed
  <1>1. TalkInv => TalkConveyed
    <2> SUFFICES ASSUME TalkInv, stage = "sent" PROVE Said = Conveyed
      BY DEF TalkConveyed, HistoryKept, TalkInv
    <2>1. talk.history \in Seq(Entry)
      BY HistoryTyped DEF TalkInv, TalkTyped
    <2>2. /\ messages = WholeTalk /\ done = Len(messages)
          /\ Said = FlattenSeq([k \in 1..done |-> Meaning(messages[k])])
      BY DEF TalkInv, Converting
    <2>3. FlattenSeq(Meanings(WholeTalk)) = Conveyed
      BY <2>1, WholeWellSaid
    <2> QED
      BY <2>2, <2>3 DEF Meanings
  <1> QED
    BY <1>1, TalkInvariance, PTL

-----------------------------------------------------------------------------
(* Sequences cut and put together.                                          *)

LEMMA Concatenated ==
  ASSUME NEW P, NEW a \in Seq(P), NEW b \in Seq(P)
  PROVE  /\ a \o b \in Seq(P) /\ Len(a \o b) = Len(a) + Len(b) /\ Len(a) \in Nat /\ Len(b) \in Nat
         /\ \A k \in 1..(Len(a) + Len(b)) : (a \o b)[k] = IF k <= Len(a) THEN a[k] ELSE b[k - Len(a)]
  OBVIOUS

LEMMA CutOut ==
  ASSUME NEW P, NEW s \in Seq(P), NEW m \in 1..(Len(s) + 1), NEW n \in (m - 1)..Len(s)
  PROVE  /\ SubSeq(s, m, n) \in Seq(P) /\ Len(SubSeq(s, m, n)) = n - m + 1
         /\ \A k \in 1..(n - m + 1) : SubSeq(s, m, n)[k] = s[m + k - 1]
  OBVIOUS

\* A sequence that is not empty is its head and its tail.
LEMMA HeadAndTail ==
  ASSUME NEW P, NEW s \in Seq(P), s # <<>>
  PROVE  s[1] \in P /\ Tail(s) \in Seq(P) /\ s = <<s[1]>> \o Tail(s)
  OBVIOUS

LEMMA SeqWidened ==
  ASSUME NEW Q, NEW S \in SUBSET Q, NEW s \in Seq(S)
  PROVE  s \in Seq(Q)
  <1>1. Len(s) \in Nat /\ s = [k \in 1..Len(s) |-> s[k]] /\ \A k \in 1..Len(s) : s[k] \in S
    OBVIOUS
  <1>2. \A k \in 1..Len(s) : s[k] \in Q
    BY <1>1
  <1> QED
    BY <1>1, <1>2

Regroups(a, b, c) == (a \o b) \o c = a \o (b \o c)

LEMMA Regrouped ==
  ASSUME NEW P, NEW a \in Seq(P), NEW b \in Seq(P), NEW c \in Seq(P)
  PROVE  Regroups(a, b, c)
  BY Associative DEF Regroups

LEMMA BeginsWith ==
  ASSUME NEW P, NEW a \in Seq(P), NEW b \in Seq(P)
  PROVE  IsPrefix(a, a \o b)
  <1> DEFINE ab == a \o b
             n == Len(a)
             c == SubSeq(a, 1, n)
             d == SubSeq(ab, 1, n)
  <1>1. /\ ab \in Seq(P) /\ Len(ab) = n + Len(b) /\ n \in Nat /\ Len(b) \in Nat
        /\ \A k \in 1..(n + Len(b)) : ab[k] = IF k <= n THEN a[k] ELSE b[k - n]
    BY Concatenated
  <1> HIDE DEF ab
  <1>2. n <= Len(ab) /\ 1 \in 1..(n + 1) /\ 1 \in 1..(Len(ab) + 1) /\ n \in (1 - 1)..n /\ n \in (1 - 1)..Len(ab)
    BY <1>1
  <1>3. c \in Seq(P) /\ Len(c) = n - 1 + 1 /\ \A k \in 1..(n - 1 + 1) : c[k] = a[1 + k - 1]
    BY <1>2, CutOut
  <1>4. d \in Seq(P) /\ Len(d) = n - 1 + 1 /\ \A k \in 1..(n - 1 + 1) : d[k] = ab[1 + k - 1]
    BY <1>1, <1>2, CutOut
  <1> HIDE DEF c, d, n
  <1>5. n - 1 + 1 = n /\ \A k \in 1..n : 1 + k - 1 = k /\ k \in 1..(n + Len(b)) /\ k <= n
    BY <1>1
  <1>6. \A k \in 1..Len(c) : c[k] = d[k]
    BY <1>1, <1>3, <1>4, <1>5
  <1>7. c = d
    BY <1>3, <1>4, <1>6, SameSequence
  <1> QED
    BY <1>2, <1>7 DEF IsPrefix, ab, n, c, d

LEMMA HeadMoved ==
  ASSUME NEW P, NEW s \in Seq(P), NEW t \in Seq(P), t # <<>>
  PROVE  Append(s, t[1]) \in Seq(P) /\ Append(s, t[1]) \o Tail(t) = s \o t
  <1>1. t[1] \in P /\ Tail(t) \in Seq(P) /\ t = <<t[1]>> \o Tail(t)
    BY HeadAndTail
  <1>2. <<t[1]>> \in Seq(P)
    BY <1>1
  <1>3. Append(s, t[1]) = s \o <<t[1]>> /\ Append(s, t[1]) \in Seq(P)
    BY <1>1
  <1>4. (s \o <<t[1]>>) \o Tail(t) = s \o (<<t[1]>> \o Tail(t))
    BY <1>1, <1>2, Associative
  <1> QED
    BY <1>1, <1>3, <1>4

-----------------------------------------------------------------------------
(* What is read of each element of a sequence, one after the other.         *)

Reads(h, S, P) == h \in [S -> Seq(P)]
Each(h, s) == [k \in 1..Len(s) |-> h[s[k]]]
ReadOff(h, s, P) ==
  /\ Each(h, s) \in Seq(Seq(P)) /\ Len(Each(h, s)) = Len(s) /\ FlattenSeq(Each(h, s)) \in Seq(P)
  /\ \A k \in 1..Len(s) : Each(h, s)[k] = h[s[k]]

LEMMA EachTyped ==
  ASSUME NEW P, NEW S, NEW h, Reads(h, S, P), NEW s \in Seq(S)
  PROVE  ReadOff(h, s, P)
  <1> DEFINE Q == Seq(P)
  <1>1. \A k \in 1..Len(s) : h[s[k]] \in Q
    BY DEF Reads
  <1> HIDE DEF Q
  <1>2. \A f : (\A k \in 1..Len(s) : f[k] \in Q) /\ f = [k \in 1..Len(s) |-> f[k]] => f \in Seq(Q) /\ Len(f) = Len(s)
    OBVIOUS
  <1>3. Each(h, s) \in Seq(Q) /\ Len(Each(h, s)) = Len(s)
    <2> DEFINE each == Each(h, s)
    <2>1. each = [k \in 1..Len(s) |-> h[s[k]]]
      BY DEF Each
    <2> HIDE DEF each
    <2>2. \A k \in 1..Len(s) : each[k] = h[s[k]]
      BY <2>1
    <2>3. each = [k \in 1..Len(s) |-> each[k]]
      BY <2>1, <2>2
    <2>4. \A k \in 1..Len(s) : each[k] \in Q
      BY <1>1, <2>2
    <2>5. each \in Seq(Q) /\ Len(each) = Len(s)
      BY <1>2, <2>3, <2>4
    <2> QED
      BY <2>5 DEF each
  <1>4. \A k \in 1..Len(s) : Each(h, s)[k] = h[s[k]]
    BY DEF Each
  <1> QED
    BY <1>3, <1>4, FlattenTyped DEF Q, ReadOff

LEMMA EachJoined ==
  ASSUME NEW P, NEW S, NEW h, Reads(h, S, P), NEW s \in Seq(S), NEW t \in Seq(S)
  PROVE  FlattenSeq(Each(h, s \o t)) = FlattenSeq(Each(h, s)) \o FlattenSeq(Each(h, t))
  <1> DEFINE st == s \o t
             a == Each(h, s)
             b == Each(h, t)
             c == Each(h, st)
             d == a \o b
             Q == Seq(P)
  <1>1. /\ st \in Seq(S) /\ Len(st) = Len(s) + Len(t) /\ Len(s) \in Nat /\ Len(t) \in Nat
        /\ \A k \in 1..(Len(s) + Len(t)) : st[k] = IF k <= Len(s) THEN s[k] ELSE t[k - Len(s)]
    BY Concatenated
  <1> HIDE DEF st
  <1>2. /\ a \in Seq(Q) /\ Len(a) = Len(s) /\ \A k \in 1..Len(s) : a[k] = h[s[k]]
        /\ b \in Seq(Q) /\ Len(b) = Len(t) /\ \A k \in 1..Len(t) : b[k] = h[t[k]]
        /\ c \in Seq(Q) /\ Len(c) = Len(st) /\ \A k \in 1..Len(st) : c[k] = h[st[k]]
    <2>1. ReadOff(h, s, P) /\ ReadOff(h, t, P) /\ ReadOff(h, st, P)
      BY <1>1, EachTyped
    <2> QED
      BY <2>1 DEF ReadOff
  <1> HIDE DEF a, b, c, Q
  <1>3. /\ d \in Seq(Q) /\ Len(d) = Len(a) + Len(b)
        /\ \A k \in 1..(Len(a) + Len(b)) : d[k] = IF k <= Len(a) THEN a[k] ELSE b[k - Len(a)]
    <2>1. a \in Seq(Q) /\ b \in Seq(Q)
      BY <1>2
    <2> QED
      BY <2>1, Concatenated
  <1> HIDE DEF d
  <1>4. ASSUME NEW k \in 1..Len(c) PROVE c[k] = d[k]
    <2>1. k \in 1..(Len(s) + Len(t)) /\ c[k] = h[st[k]] /\ st[k] = IF k <= Len(s) THEN s[k] ELSE t[k - Len(s)]
      BY <1>1, <1>2
    <2>2. d[k] = IF k <= Len(s) THEN a[k] ELSE b[k - Len(s)]
      BY <1>2, <1>3, <2>1
    <2>3. CASE k <= Len(s)
      BY <1>1, <1>2, <2>1, <2>2, <2>3
    <2>4. CASE ~(k <= Len(s))
      <3>1. k - Len(s) \in 1..Len(t)
        BY <1>1, <2>1, <2>4
      <3> QED
        BY <1>2, <2>1, <2>2, <2>4, <3>1
    <2> QED
      BY <2>3, <2>4
  <1>5. c = d
    BY <1>1, <1>2, <1>3, <1>4, SameSequence
  <1> QED
    BY <1>2, <1>5, FlattenJoined DEF a, b, c, d, st, Q

LEMMA EachNone ==
  ASSUME NEW h
  PROVE  FlattenSeq(Each(h, <<>>)) = <<>>
  <1>1. Each(h, <<>>) = <<>>
    BY DEF Each
  <1> QED
    BY <1>1, FlattenNothing

LEMMA EachSingle ==
  ASSUME NEW P, NEW S, NEW h, Reads(h, S, P), NEW x \in S
  PROVE  FlattenSeq(Each(h, <<x>>)) = h[x]
  <1>1. Each(h, <<x>>) = <<h[x]>>
    BY DEF Each
  <1>2. h[x] \in Seq(P)
    BY DEF Reads
  <1> QED
    BY <1>1, <1>2, FlattenSingle

-----------------------------------------------------------------------------
(* RpcFraming.  Frames and their bytes.                                     *)

\* The frames there are: an envelope's, of at most the length it can say.
Framed == [flags : Nat, payload : {p \in Seq(Nat) : Len(p) < Base * Base}]
Bytes(fs) == FlattenSeq([k \in 1..Len(fs) |-> Envelope(fs[k].payload, fs[k].flags)])

\* The two bytes of a length say it.
LEMMA LengthSaid ==
  ASSUME NEW n \in Nat, n < Base * Base
  PROVE  /\ (n \div Base) % Base \in Nat /\ n % Base \in Nat
         /\ ((n \div Base) % Base) * Base + (n % Base) = n
  <1>1. Base \in Nat \ {0, 1}
    BY FramingAssumption
  <1> DEFINE b == Base
             q == n \div b
  <1>2. b \in Nat /\ b > 0
    BY <1>1
  <1> HIDE DEF b
  <1>3. q \in Nat /\ n % b = n - b * q /\ n % b \in Nat
    BY <1>2
  <1>4. n < b * b
    BY DEF b
  <1>5. q < b
    BY <1>2, <1>4
  <1> HIDE DEF q
  <1>6. q % b = q
    BY <1>2, <1>3, <1>5
  <1>7. q * b = b * q /\ b * q \in Nat
    <2>1. \A x, y \in Nat : x * y = y * x /\ y * x \in Nat
      OBVIOUS
    <2> QED
      BY <1>2, <1>3, <2>1
  <1>8. q * b + (n % b) = n
    BY <1>2, <1>3, <1>7
  <1> QED
    BY <1>3, <1>6, <1>8 DEF b, q

\* Whatever follows an envelope, its frame is found at the head of it.
LEMMA HeadFound ==
  ASSUME NEW f \in Framed
  PROVE  /\ Envelope(f.payload, f.flags) \in Seq(Nat)
         /\ Len(Envelope(f.payload, f.flags)) = 3 + Len(f.payload) /\ Len(f.payload) \in Nat
         /\ Envelope(f.payload, f.flags)[1] = f.flags
         /\ Envelope(f.payload, f.flags)[2] \in Nat
         /\ FrameLength(Envelope(f.payload, f.flags)) = 3 + Len(f.payload)
         /\ \A k \in 1..Len(f.payload) : Envelope(f.payload, f.flags)[3 + k] = f.payload[k]
  <1> DEFINE p == f.payload
             high == (Len(p) \div Base) % Base
             low == Len(p) % Base
             head == <<f.flags, high, low>>
  <1>1. p \in Seq(Nat) /\ Len(p) < Base * Base /\ f.flags \in Nat /\ Len(p) \in Nat
    BY DEF Framed
  <1>2. high \in Nat /\ low \in Nat /\ high * Base + low = Len(p)
    BY <1>1, LengthSaid
  <1> HIDE DEF p, high, low
  <1>3. head \in Seq(Nat) /\ Len(head) = 3 /\ head[1] = f.flags /\ head[2] = high /\ head[3] = low
    BY <1>1, <1>2
  <1> HIDE DEF head
  <1> DEFINE whole == head \o p
  <1>4. /\ whole \in Seq(Nat) /\ Len(whole) = 3 + Len(p)
        /\ \A k \in 1..(3 + Len(p)) : whole[k] = IF k <= 3 THEN head[k] ELSE p[k - 3]
    <2>1. /\ whole \in Seq(Nat) /\ Len(whole) = Len(head) + Len(p)
          /\ \A k \in 1..(Len(head) + Len(p)) : whole[k] = IF k <= Len(head) THEN head[k] ELSE p[k - Len(head)]
      BY <1>1, <1>3, Concatenated
    <2> HIDE DEF whole
    <2> QED
      BY <1>3, <2>1
  <1> HIDE DEF whole
  <1>5. whole[1] = f.flags /\ whole[2] = high /\ whole[3] = low
    BY <1>1, <1>3, <1>4
  <1>6. \A k \in 1..Len(p) : whole[3 + k] = p[k]
    <2> SUFFICES ASSUME NEW k \in 1..Len(p) PROVE whole[3 + k] = p[k]
      OBVIOUS
    <2>1. 3 + k \in 1..(3 + Len(p)) /\ ~(3 + k <= 3) /\ (3 + k) - 3 = k
      BY <1>1
    <2> QED
      BY <1>4, <2>1
  <1>7. FrameLength(whole) = 3 + Len(p)
    <2>1. Base \in Nat
      BY FramingAssumption
    <2>2. high * Base \in Nat
      BY <1>2, <2>1
    <2> QED
      BY <1>1, <1>2, <1>5, <2>2 DEF FrameLength, Header
  <1>8. Envelope(p, f.flags) = whole
    BY DEF Envelope, whole, head, high, low
  <1>9. p = f.payload
    BY DEF p
  <1>10. Envelope(f.payload, f.flags) = whole
    BY <1>8, <1>9
  <1> QED
    BY <1>1, <1>2, <1>4, <1>5, <1>6, <1>7, <1>9, <1>10

Enveloping == [f \in Framed |-> Envelope(f.payload, f.flags)]

LEMMA BytesAreEach ==
  /\ Reads(Enveloping, Framed, Nat)
  /\ \A fs \in Seq(Framed) : Bytes(fs) = FlattenSeq(Each(Enveloping, fs)) /\ Bytes(fs) \in Seq(Nat)
  <1>1. Reads(Enveloping, Framed, Nat)
    <2>1. \A f \in Framed : Envelope(f.payload, f.flags) \in Seq(Nat)
      BY HeadFound
    <2> QED
      BY <2>1 DEF Enveloping, Reads
  <1>2. ASSUME NEW fs \in Seq(Framed)
        PROVE  Bytes(fs) = FlattenSeq(Each(Enveloping, fs)) /\ Bytes(fs) \in Seq(Nat)
    <2>1. \A k \in 1..Len(fs) : Enveloping[fs[k]] = Envelope(fs[k].payload, fs[k].flags)
      <3>1. \A k \in 1..Len(fs) : fs[k] \in Framed
        OBVIOUS
      <3> QED
        BY <3>1 DEF Enveloping
    <2>2. Each(Enveloping, fs) = [k \in 1..Len(fs) |-> Envelope(fs[k].payload, fs[k].flags)]
      BY <2>1 DEF Each
    <2> QED
      BY <1>1, <2>2, EachTyped DEF Bytes, ReadOff
  <1> QED
    BY <1>1, <1>2

LEMMA BytesJoined ==
  ASSUME NEW fs \in Seq(Framed), NEW gs \in Seq(Framed)
  PROVE  Bytes(fs \o gs) = Bytes(fs) \o Bytes(gs)
  <1>1. fs \o gs \in Seq(Framed)
    BY Concatenated
  <1>2. FlattenSeq(Each(Enveloping, fs \o gs)) = FlattenSeq(Each(Enveloping, fs)) \o FlattenSeq(Each(Enveloping, gs))
    BY BytesAreEach, EachJoined
  <1> QED
    BY <1>1, <1>2, BytesAreEach

LEMMA BytesSingle ==
  ASSUME NEW f \in Framed
  PROVE  Bytes(<<f>>) = Envelope(f.payload, f.flags)
  <1>1. <<f>> \in Seq(Framed)
    OBVIOUS
  <1>2. Enveloping[f] = Envelope(f.payload, f.flags)
    BY DEF Enveloping
  <1>3. FlattenSeq(Each(Enveloping, <<f>>)) = Enveloping[f]
    BY BytesAreEach, EachSingle
  <1> QED
    BY <1>1, <1>2, <1>3, BytesAreEach

LEMMA BytesNone == Bytes(<<>>) = <<>>
  <1>1. <<>> \in Seq(Framed)
    OBVIOUS
  <1> QED
    BY <1>1, BytesAreEach, EachNone

\* What is at hand and what is to come are some frames: a whole one at hand is
\* the first of them, and what it leaves goes on with the others.
AreBytes(x, y, fs) == x \o y = Bytes(fs)
HeadTakenOff(x, y, fs) ==
  /\ fs # <<>> /\ Frame(x) = fs[1]
  /\ Rest(x) \in Seq(Nat) /\ Len(Rest(x)) < Len(x) /\ Rest(x) \o y = Bytes(Tail(fs))

LEMMA HeadTaken ==
  ASSUME NEW fs \in Seq(Framed), NEW x \in Seq(Nat), NEW y \in Seq(Nat), AreBytes(x, y, fs), Whole(x)
  PROVE  HeadTakenOff(x, y, fs)
  <1> DEFINE w == x \o y
  <1>1. /\ w \in Seq(Nat) /\ Len(w) = Len(x) + Len(y) /\ Len(x) \in Nat /\ Len(y) \in Nat
        /\ \A k \in 1..(Len(x) + Len(y)) : w[k] = IF k <= Len(x) THEN x[k] ELSE y[k - Len(x)]
    BY Concatenated
  <1>a. Len(w) = Len(x) + Len(y) /\ Len(x) \in Nat /\ Len(y) \in Nat
    BY <1>1
  <1>2. w = Bytes(fs)
    BY DEF AreBytes
  <1> HIDE DEF w
  <1>3. Len(x) >= 3 /\ Len(x) >= FrameLength(x)
    BY DEF Whole, Header
  <1>4. fs # <<>>
    <2> SUFFICES ASSUME fs = <<>> PROVE FALSE
      OBVIOUS
    <2>1. w = <<>>
      BY <1>2, BytesNone
    <2>2. Len(w) = 0
      BY <2>1
    <2>3. Len(x) >= 3
      BY <1>3
    <2>4. \A a, b \in Nat : a >= 3 => a + b # 0
      OBVIOUS
    <2> QED
      BY <1>a, <2>2, <2>3, <2>4
  <1> DEFINE f == fs[1]
             t == Tail(fs)
             e == Envelope(f.payload, f.flags)
             z == Bytes(t)
             p == f.payload
             n == 3 + Len(p)
  <1>5. f \in Framed /\ t \in Seq(Framed) /\ fs = <<f>> \o t
    BY <1>4, HeadAndTail
  <1>6. w = e \o z
    <2>1. <<f>> \in Seq(Framed)
      BY <1>5
    <2>2. Bytes(<<f>> \o t) = Bytes(<<f>>) \o Bytes(t)
      BY <1>5, <2>1, BytesJoined
    <2>3. Bytes(<<f>>) = e
      BY <1>5, BytesSingle
    <2> QED
      BY <1>2, <1>5, <2>2, <2>3
  <1>7. p \in Seq(Nat) /\ f.flags \in Nat /\ f = [flags |-> f.flags, payload |-> p]
    BY <1>5 DEF Framed
  <1>8. /\ e \in Seq(Nat) /\ Len(e) = n /\ Len(p) \in Nat /\ e[1] = f.flags
        /\ FrameLength(e) = n /\ \A k \in 1..Len(p) : e[3 + k] = p[k]
    BY <1>5, HeadFound
  <1>9. z \in Seq(Nat) /\ Len(z) \in Nat
    <2>1. z \in Seq(Nat)
      BY <1>5, BytesAreEach
    <2> HIDE DEF z
    <2> QED
      BY <2>1
  <1> HIDE DEF f, t, e, z, p
  <1>10. /\ Len(w) = n + Len(z) /\ n \in Nat /\ n >= 3
         /\ \A k \in 1..(n + Len(z)) : w[k] = IF k <= n THEN e[k] ELSE z[k - n]
    <2>1. /\ Len(e \o z) = Len(e) + Len(z)
          /\ \A k \in 1..(Len(e) + Len(z)) : (e \o z)[k] = IF k <= Len(e) THEN e[k] ELSE z[k - Len(e)]
      <3>1. e \in Seq(Nat) /\ z \in Seq(Nat)
        BY <1>8, <1>9
      <3> QED
        BY <3>1, Concatenated
    <2> QED
      BY <1>6, <1>8, <2>1
  <1>b. Len(w) = n + Len(z) /\ n \in Nat /\ n >= 3
    BY <1>10
  <1>11. FrameLength(x) = n /\ x[1] = f.flags
    <2>1. x[1] = e[1] /\ x[2] = e[2] /\ x[3] = e[3]
      <3>1. \A k \in 1..3 : k \in 1..(Len(x) + Len(y)) /\ k \in 1..(n + Len(z)) /\ k <= Len(x) /\ k <= n
        BY <1>a, <1>b, <1>3, <1>9
      <3>2. \A k \in 1..3 : x[k] = e[k]
        BY <1>1, <1>10, <3>1
      <3> QED
        BY <3>2
    <2>2. FrameLength(x) = FrameLength(e)
      BY <2>1 DEF FrameLength
    <2> QED
      BY <1>8, <2>1, <2>2
  <1>12. n <= Len(x)
    BY <1>3, <1>11
  <1>13. \A k \in 1..n : x[k] = e[k]
    <2>1. \A k \in 1..n : k \in 1..(Len(x) + Len(y)) /\ k \in 1..(n + Len(z)) /\ k <= Len(x) /\ k <= n
      BY <1>a, <1>b, <1>9, <1>12
    <2> QED
      BY <1>1, <1>10, <2>1
  <1>14. SubSeq(x, 4, n) = p
    <2> DEFINE q == SubSeq(x, 4, n)
    <2>1. q \in Seq(Nat) /\ Len(q) = Len(p) /\ \A k \in 1..Len(p) : q[k] = x[3 + k]
      <3>1. 4 \in 1..(Len(x) + 1) /\ n \in (4 - 1)..Len(x) /\ n - 4 + 1 = Len(p)
        BY <1>a, <1>b, <1>3, <1>12 DEF n
      <3>2. q \in Seq(Nat) /\ Len(q) = n - 4 + 1 /\ \A k \in 1..(n - 4 + 1) : q[k] = x[4 + k - 1]
        BY <3>1, CutOut
      <3>3. \A k \in 1..Len(p) : 4 + k - 1 = 3 + k
        BY <1>8
      <3> HIDE DEF q, n
      <3> QED
        BY <3>1, <3>2, <3>3
    <2> HIDE DEF q
    <2>2. \A k \in 1..Len(p) : 3 + k \in 1..n
      BY <1>8
    <2>3. \A k \in 1..Len(q) : q[k] = p[k]
      BY <1>8, <1>13, <2>1, <2>2
    <2>4. q = p
      BY <1>7, <2>1, <2>3, SameSequence
    <2> QED
      BY <2>4 DEF q
  <1>15. Frame(x) = f
    <2>1. Frame(x) = [flags |-> x[1], payload |-> SubSeq(x, 4, n)]
      BY <1>11 DEF Frame, Header
    <2> QED
      BY <1>7, <1>11, <1>14, <2>1
  <1> DEFINE r == SubSeq(x, n + 1, Len(x))
             ry == r \o y
  <1>16. r \in Seq(Nat) /\ Len(r) = Len(x) - n /\ \A k \in 1..(Len(x) - n) : r[k] = x[n + k]
    <2>1. n + 1 \in 1..(Len(x) + 1) /\ Len(x) \in ((n + 1) - 1)..Len(x) /\ Len(x) - (n + 1) + 1 = Len(x) - n
      BY <1>a, <1>b, <1>12
    <2>2. r \in Seq(Nat) /\ Len(r) = Len(x) - (n + 1) + 1 /\ \A k \in 1..(Len(x) - (n + 1) + 1) : r[k] = x[(n + 1) + k - 1]
      BY <2>1, CutOut
    <2>3. \A k \in 1..(Len(x) - n) : (n + 1) + k - 1 = n + k
      BY <1>1, <1>10
    <2> HIDE DEF r, n
    <2> QED
      BY <2>1, <2>2, <2>3
  <1> HIDE DEF r
  <1>17. /\ ry \in Seq(Nat) /\ Len(ry) = Len(r) + Len(y)
         /\ \A k \in 1..(Len(r) + Len(y)) : ry[k] = IF k <= Len(r) THEN r[k] ELSE y[k - Len(r)]
    <2>1. r \in Seq(Nat)
      BY <1>16
    <2> QED
      BY <2>1, Concatenated
  <1> HIDE DEF ry, n
  <1>18. Len(ry) = Len(z)
    <2>1. Len(ry) = Len(r) + Len(y) /\ Len(r) = Len(x) - n
      BY <1>16, <1>17
    <2>2. \A a, b, c, d \in Nat : a + b = c + d => (a - c) + b = d
      OBVIOUS
    <2>3. Len(z) \in Nat /\ Len(x) + Len(y) = n + Len(z)
      BY <1>a, <1>b, <1>9
    <2>4. (Len(x) - n) + Len(y) = Len(z)
      BY <1>a, <1>b, <2>2, <2>3
    <2> QED
      BY <2>1, <2>4
  <1>19. ASSUME NEW k \in 1..Len(ry) PROVE ry[k] = z[k]
    <2>1. k \in 1..Len(z) /\ n + k \in 1..(n + Len(z)) /\ ~(n + k <= n) /\ (n + k) - n = k /\ n + k \in 1..(Len(x) + Len(y))
      BY <1>1, <1>9, <1>10, <1>18
    <2>2. w[n + k] = z[k]
      BY <1>10, <2>1
    <2>3. CASE k <= Len(r)
      <3>1. n + k <= Len(x) /\ k \in 1..(Len(x) - n) /\ k \in 1..(Len(r) + Len(y))
        <4>1. Len(r) = Len(x) - n
          BY <1>16
        <4> QED
          BY <1>a, <1>b, <2>1, <2>3, <4>1
      <3>2. ry[k] = x[n + k]
        BY <1>16, <1>17, <2>3, <3>1
      <3> QED
        BY <1>1, <2>1, <2>2, <3>1, <3>2
    <2>4. CASE ~(k <= Len(r))
      <3>1. ry[k] = y[k - Len(r)]
        BY <1>17, <2>4
      <3>2. ~(n + k <= Len(x)) /\ (n + k) - Len(x) = k - Len(r)
        BY <1>1, <1>10, <1>16, <2>1, <2>4
      <3> QED
        BY <1>1, <2>1, <2>2, <3>1, <3>2
    <2> QED
      BY <2>3, <2>4
  <1>20. ry = z
    BY <1>9, <1>17, <1>18, <1>19, SameSequence
  <1>21. Rest(x) = r
    BY <1>11 DEF Rest, r
  <1>22. Len(r) < Len(x)
    BY <1>1, <1>10, <1>16
  <1> QED
    BY <1>4, <1>15, <1>16, <1>20, <1>21, <1>22 DEF HeadTakenOff, ry, z, f, t

\* When nothing more comes and no whole frame is at hand, there is none.
LEMMA NothingLeft ==
  ASSUME NEW fs \in Seq(Framed), NEW x \in Seq(Nat), x = Bytes(fs), ~Whole(x)
  PROVE  fs = <<>> /\ x = <<>>
  <1>1. fs = <<>>
    <2> SUFFICES ASSUME fs # <<>> PROVE FALSE
      OBVIOUS
    <2> DEFINE f == fs[1]
               t == Tail(fs)
               e == Envelope(f.payload, f.flags)
               z == Bytes(t)
    <2>1. f \in Framed /\ t \in Seq(Framed) /\ fs = <<f>> \o t
      BY HeadAndTail
    <2>2. x = e \o z
      <3>1. <<f>> \in Seq(Framed)
        BY <2>1
      <3>2. Bytes(<<f>> \o t) = Bytes(<<f>>) \o Bytes(t)
        BY <2>1, <3>1, BytesJoined
      <3>3. Bytes(<<f>>) = e
        BY <2>1, BytesSingle
      <3> QED
        BY <2>1, <3>2, <3>3
    <2>3. e \in Seq(Nat) /\ Len(e) = FrameLength(e) /\ Len(e) >= 3
      <3>1. e \in Seq(Nat) /\ Len(e) = 3 + Len(f.payload) /\ Len(f.payload) \in Nat /\ FrameLength(e) = 3 + Len(f.payload)
        BY <2>1, HeadFound
      <3> HIDE DEF e, f
      <3> QED
        BY <3>1
    <2>4. z \in Seq(Nat)
      BY <2>1, BytesAreEach
    <2> HIDE DEF f, t, e, z
    <2>5. Len(x) = Len(e) + Len(z) /\ Len(z) \in Nat /\ \A k \in 1..3 : x[k] = e[k]
      <3>1. /\ Len(e \o z) = Len(e) + Len(z) /\ Len(e) \in Nat /\ Len(z) \in Nat
            /\ \A k \in 1..(Len(e) + Len(z)) : (e \o z)[k] = IF k <= Len(e) THEN e[k] ELSE z[k - Len(e)]
        BY <2>3, <2>4, Concatenated
      <3>2. \A k \in 1..3 : k \in 1..(Len(e) + Len(z)) /\ k <= Len(e)
        BY <2>3, <3>1
      <3> QED
        BY <2>2, <3>1, <3>2
    <2>6. FrameLength(x) = FrameLength(e)
      BY <2>5 DEF FrameLength
    <2> QED
      BY <2>3, <2>5, <2>6 DEF Whole, Header
  <1> QED
    BY <1>1, BytesNone

-----------------------------------------------------------------------------
(* What the decoder takes of the bytes at hand.                             *)

Decoded == [flags : Nat, payload : Seq(Nat)]
Got == [frames : Seq(Decoded), rest : Seq(Nat)]

LEMMA TakeFrameTyped == ASSUME NEW got \in Got PROVE TakeFrame(got) \in Got
<1> DEFINE x == got.rest
<1>1. x \in Seq(Nat) /\ got.frames \in Seq(Decoded)
  BY DEF Got
<1>2. CASE Whole(x)
  <2> HIDE DEF x
  <2>1. Len(x) \in Nat /\ Len(x) >= 3 /\ Len(x) >= FrameLength(x)
    BY <1>1, <1>2 DEF Whole, Header
  <2>2. x[1] \in Nat /\ x[2] \in Nat /\ x[3] \in Nat
    BY <1>1, <2>1
  <2>3. FrameLength(x) \in Nat /\ FrameLength(x) >= 3
    <3>1. Base \in Nat /\ x[2] * Base \in Nat
      BY <2>2, FramingAssumption
    <3> QED
      BY <2>2, <3>1 DEF FrameLength, Header
  <2> DEFINE n == FrameLength(x)
             m == Len(x)
  <2>4. n \in Nat /\ n >= 3 /\ n <= m /\ m \in Nat
    BY <2>1, <2>3
  <2> HIDE DEF n
  <2>5. SubSeq(x, 4, n) \in Seq(Nat)
    <3>1. 4 \in 1..(m + 1) /\ n \in (4 - 1)..m
      BY <2>4
    <3> QED
      BY <1>1, <3>1, CutOut
  <2>6. SubSeq(x, n + 1, m) \in Seq(Nat)
    <3>1. n + 1 \in 1..(m + 1) /\ m \in ((n + 1) - 1)..m
      BY <2>4
    <3> QED
      BY <1>1, <3>1, CutOut
  <2>7. Frame(x) \in Decoded
    <3>1. Frame(x) = [flags |-> x[1], payload |-> SubSeq(x, 4, n)]
      BY DEF Frame, Header, n
    <3> QED
      BY <2>2, <2>5, <3>1 DEF Decoded
  <2>8. Rest(x) \in Seq(Nat)
    BY <2>6 DEF Rest, n
  <2>9. Append(got.frames, Frame(x)) \in Seq(Decoded)
    BY <1>1, <2>7, Appended
  <2>10. TakeFrame(got) = [frames |-> Append(got.frames, Frame(x)), rest |-> Rest(x)]
    BY <1>2 DEF TakeFrame, x
  <2> QED
    BY <2>8, <2>9, <2>10 DEF Got
<1>3. CASE ~Whole(x)
  BY <1>3 DEF TakeFrame
<1> QED
  BY <1>2, <1>3

\* Drained, step by step.
Drains(d, x) ==
  /\ d[0] = [frames |-> <<>>, rest |-> x]
  /\ \A i \in 1..Len(x) : d[i] = TakeFrame(d[i - 1])

LEMMA DrainedUnfolds ==
  ASSUME NEW x \in Seq(Nat)
  PROVE  \E d \in [0..Len(x) -> Got] : Drains(d, x) /\ Drained(x) = d[Len(x)]
  <1> DEFINE n == Len(x)
             start == [frames |-> <<>>, rest |-> x]
             advance == [i \in 1..n |-> [v \in Got |-> TakeFrame(v)]]
             value(f, i) == IF i = 0 THEN start ELSE TakeFrame(f[i - 1])
             IsDrain(f) == f = [i \in 0..n |-> value(f, i)]
  <1>1. n \in Nat /\ start \in Got
    BY DEF Got
  <1>2. advance \in [1..n -> [Got -> Got]] /\ \A i \in 1..n, v \in Got : advance[i][v] = TakeFrame(v)
    BY TakeFrameTyped
  <1> HIDE DEF advance, start, n
  <1>3. PICK g : Follows(g, n, Got, start, advance)
    BY <1>1, <1>2, Recursion
  <1>4. g \in [0..n -> Got] /\ g[0] = start /\ \A i \in 1..n : g[i] = TakeFrame(g[i - 1])
    <2>1. g \in [0..n -> Got] /\ g[0] = start /\ \A i \in 1..n : g[i] = advance[i][g[i - 1]]
      BY <1>3 DEF Follows
    <2>2. \A i \in 1..n : i - 1 \in 0..n
      BY <1>1
    <2>3. \A i \in 1..n : g[i - 1] \in Got
      BY <2>1, <2>2
    <2> QED
      BY <1>2, <2>1, <2>3
  <1>5. IsDrain(g)
    <2>1. \A i \in 0..n : i # 0 => i \in 1..n
      BY <1>1
    <2>2. \A i \in 0..n : g[i] = value(g, i)
      BY <1>4, <2>1
    <2> HIDE DEF value
    <2> QED
      BY <1>4, <2>2
  <1> DEFINE drained == CHOOSE f : IsDrain(f)
  <1>6. IsDrain(drained)
    BY <1>5
  <1>7. Drained(x) = drained[n]
    BY DEF Drained, n, start
  <1> HIDE DEF drained
  <1>8. drained[0] = start /\ \A i \in 1..n : drained[i] = TakeFrame(drained[i - 1])
    <2> HIDE DEF value
    <2>1. \A i \in 0..n : drained[i] = value(drained, i)
      BY <1>6
    <2>2. 0 \in 0..n /\ \A i \in 1..n : i \in 0..n /\ i # 0
      BY <1>1
    <2>3. drained[0] = value(drained, 0) /\ \A i \in 1..n : drained[i] = value(drained, i)
      BY <2>1, <2>2
    <2> QED
      BY <2>2, <2>3 DEF value
  <1>9. drained[n] = g[n]
    <2>1. \A i \in 1..n : drained[i - 1] = g[i - 1] => drained[i] = g[i]
      BY <1>4, <1>8
    <2>2. AgreeOnward(drained, g, n)
      BY <1>4, <1>8, <2>1 DEF AgreeOnward
    <2>3. n \in 0..n
      BY <1>1
    <2> QED
      BY <1>1, <2>2, <2>3, Agreement
  <1> QED
    BY <1>4, <1>7, <1>9 DEF Drains, n, start

\* Some of the frames taken off, the bytes of the others at hand or to come.
Midway(got, y, fs) ==
  /\ got.rest \in Seq(Nat)
  /\ \E left \in Seq(Framed) : /\ got.frames \in Seq(Framed) /\ fs = got.frames \o left
                               /\ AreBytes(got.rest, y, left)

LEMMA MidwayOn ==
  ASSUME NEW fs \in Seq(Framed), NEW y \in Seq(Nat), NEW got, Midway(got, y, fs)
  PROVE  /\ Midway(TakeFrame(got), y, fs)
         /\ Whole(got.rest) => Len(TakeFrame(got).rest) < Len(got.rest)
         /\ ~Whole(got.rest) => TakeFrame(got) = got
  <1>1. CASE Whole(got.rest)
    <2> DEFINE x == got.rest
               s == got.frames
    <2>1. x \in Seq(Nat)
      BY DEF Midway
    <2>2. PICK left \in Seq(Framed) : s \in Seq(Framed) /\ fs = s \o left /\ AreBytes(x, y, left)
      BY DEF Midway
    <2>3. TakeFrame(got).frames = Append(s, Frame(x)) /\ TakeFrame(got).rest = Rest(x)
      BY <1>1 DEF TakeFrame
    <2>4. Whole(x)
      BY <1>1
    <2> HIDE DEF x, s
    <2>5. HeadTakenOff(x, y, left)
      BY <2>1, <2>2, <2>4, HeadTaken
    <2>6. left # <<>> /\ Frame(x) = left[1] /\ Rest(x) \in Seq(Nat) /\ Len(Rest(x)) < Len(x)
      BY <2>5 DEF HeadTakenOff
    <2>7. Tail(left) \in Seq(Framed) /\ AreBytes(Rest(x), y, Tail(left))
      BY <2>2, <2>5, <2>6, HeadAndTail DEF HeadTakenOff, AreBytes
    <2>8. Append(s, Frame(x)) \in Seq(Framed) /\ Append(s, Frame(x)) \o Tail(left) = fs
      BY <2>2, <2>6, HeadMoved
    <2> QED
      BY <1>1, <2>3, <2>6, <2>7, <2>8 DEF Midway, x
  <1>2. CASE ~Whole(got.rest)
    BY <1>2 DEF TakeFrame
  <1> QED
    BY <1>1, <1>2

\* All the frames that are there whole are taken, and no more.
LEMMA DrainedRight ==
  ASSUME NEW fs \in Seq(Framed), NEW x \in Seq(Nat), NEW y \in Seq(Nat), AreBytes(x, y, fs)
  PROVE  Midway(Drained(x), y, fs) /\ ~Whole(Drained(x).rest)
  <1> DEFINE n == Len(x)
  <1>1. PICK d \in [0..n -> Got] : Drains(d, x) /\ Drained(x) = d[n]
    BY DrainedUnfolds
  <1>2. n \in Nat
    OBVIOUS
  <1>3. d[0].rest = x /\ d[0].frames = <<>> /\ \A i \in 1..n : d[i] = TakeFrame(d[i - 1])
    BY <1>1 DEF Drains
  <1> DEFINE OffBy(i) == Midway(d[i], y, fs) /\ (Whole(d[i].rest) => Len(d[i].rest) + i <= n)
             S == {i \in Nat : i <= n => OffBy(i)}
  <1> HIDE DEF n
  <1>4. OffBy(0)
    <2>1. <<>> \in Seq(Framed) /\ fs = <<>> \o fs
      BY Associative
    <2>2. Midway(d[0], y, fs)
      BY <1>3, <2>1 DEF Midway
    <2> QED
      BY <1>2, <1>3, <2>2 DEF n
  <1>5. ASSUME NEW i \in Nat, i + 1 <= n, OffBy(i) PROVE OffBy(i + 1)
    <2>1. i + 1 \in 1..n /\ (i + 1) - 1 = i
      BY <1>2, <1>5
    <2>2. d[i + 1] = TakeFrame(d[i])
      BY <1>3, <2>1
    <2>3. /\ Midway(d[i + 1], y, fs)
          /\ Whole(d[i].rest) => Len(d[i + 1].rest) < Len(d[i].rest)
          /\ ~Whole(d[i].rest) => d[i + 1] = d[i]
      BY <1>5, <2>2, MidwayOn
    <2> DEFINE a == Len(d[i].rest)
               b == Len(d[i + 1].rest)
    <2>4. a \in Nat /\ b \in Nat
      <3>1. d[i].rest \in Seq(Nat)
        BY <1>5 DEF Midway
      <3>2. d[i + 1].rest \in Seq(Nat)
        BY <2>3 DEF Midway
      <3> QED
        BY <3>1, <3>2
    <2>5. Whole(d[i + 1].rest) => Whole(d[i].rest)
      BY <2>3
    <2>6. Whole(d[i].rest) => b < a /\ a + i <= n
      BY <1>5, <2>3
    <2> HIDE DEF a, b
    <2>7. Whole(d[i].rest) => b + (i + 1) <= n
      BY <1>2, <2>4, <2>6
    <2> QED
      BY <2>3, <2>5, <2>7 DEF b
  <1>6. S = Nat
    <2> HIDE DEF OffBy
    <2>1. 0 \in S
      BY <1>4
    <2>2. \A i \in S : i + 1 \in S
      BY <1>2, <1>5
    <2>3. S \in SUBSET Nat
      OBVIOUS
    <2> HIDE DEF S
    <2> QED
      BY <2>1, <2>2, <2>3, Inductive
  <1>7. OffBy(n)
    <2> HIDE DEF S, OffBy
    <2>1. n \in S /\ n <= n
      BY <1>2, <1>6
    <2> QED
      BY <2>1 DEF S
  <1>8. ~Whole(d[n].rest)
    <2> SUFFICES ASSUME Whole(d[n].rest) PROVE FALSE
      OBVIOUS
    <2>1. Len(d[n].rest) >= 3
      BY DEF Whole, Header
    <2>2. Len(d[n].rest) \in Nat
      BY <1>7 DEF Midway
    <2>3. Len(d[n].rest) + n <= n
      BY <1>7
    <2> QED
      BY <1>2, <2>1, <2>2, <2>3
  <1> QED
    BY <1>1, <1>7, <1>8

-----------------------------------------------------------------------------
(* What frames say.                                                         *)

PayloadOf == [f \in Framed |-> IF f.flags = 0 THEN <<f.payload>> ELSE <<>>]
StatusOf == [f \in Framed |-> IF f.flags = 0 THEN <<>> ELSE <<f.payload[1]>>]
Firsts == {f.payload[1] : f \in Framed}

LEMMA FramesAreEach ==
  /\ Reads(PayloadOf, Framed, Seq(Nat)) /\ Reads(StatusOf, Framed, Firsts)
  /\ \A fs \in Seq(Framed) : /\ Payloads(fs) = FlattenSeq(Each(PayloadOf, fs)) /\ Payloads(fs) \in Seq(Seq(Nat))
                             /\ Statuses(fs) = FlattenSeq(Each(StatusOf, fs)) /\ Statuses(fs) \in Seq(Firsts)
  <1>1. Reads(PayloadOf, Framed, Seq(Nat))
    <2>1. ASSUME NEW f \in Framed PROVE (IF f.flags = 0 THEN <<f.payload>> ELSE <<>>) \in Seq(Seq(Nat))
      <3>1. f.payload \in Seq(Nat)
        BY DEF Framed
      <3> DEFINE Q == Seq(Nat)
      <3> HIDE DEF Q
      <3>2. \A p \in Q : <<p>> \in Seq(Q) /\ <<>> \in Seq(Q)
        OBVIOUS
      <3>3. f.payload \in Q
        BY <3>1 DEF Q
      <3>4. (IF f.flags = 0 THEN <<f.payload>> ELSE <<>>) \in Seq(Q)
        BY <3>2, <3>3
      <3> QED
        BY <3>4 DEF Q
    <2> QED
      BY <2>1 DEF PayloadOf, Reads
  <1>2. Reads(StatusOf, Framed, Firsts)
    <2>1. ASSUME NEW f \in Framed PROVE (IF f.flags = 0 THEN <<>> ELSE <<f.payload[1]>>) \in Seq(Firsts)
      <3>1. f.payload[1] \in Firsts
        BY DEF Firsts
      <3>2. <<f.payload[1]>> \in Seq(Firsts) /\ <<>> \in Seq(Firsts)
        BY <3>1
      <3> QED
        BY <3>2
    <2> QED
      BY <2>1 DEF StatusOf, Reads
  <1>3. ASSUME NEW fs \in Seq(Framed)
        PROVE  /\ Payloads(fs) = FlattenSeq(Each(PayloadOf, fs)) /\ Payloads(fs) \in Seq(Seq(Nat))
               /\ Statuses(fs) = FlattenSeq(Each(StatusOf, fs)) /\ Statuses(fs) \in Seq(Firsts)
    <2>1. \A k \in 1..Len(fs) : fs[k] \in Framed
      OBVIOUS
    <2>2. Each(PayloadOf, fs) = [k \in 1..Len(fs) |-> IF fs[k].flags = 0 THEN <<fs[k].payload>> ELSE <<>>]
      BY <2>1 DEF Each, PayloadOf
    <2>3. Each(StatusOf, fs) = [k \in 1..Len(fs) |-> IF fs[k].flags = 0 THEN <<>> ELSE <<fs[k].payload[1]>>]
      BY <2>1 DEF Each, StatusOf
    <2>4. ReadOff(PayloadOf, fs, Seq(Nat)) /\ ReadOff(StatusOf, fs, Firsts)
      BY <1>1, <1>2, EachTyped
    <2>5. FlattenSeq(Each(PayloadOf, fs)) \in Seq(Seq(Nat)) /\ FlattenSeq(Each(StatusOf, fs)) \in Seq(Firsts)
      BY <2>4 DEF ReadOff
    <2>6. Payloads(fs) = FlattenSeq(Each(PayloadOf, fs)) /\ Statuses(fs) = FlattenSeq(Each(StatusOf, fs))
      BY <2>2, <2>3 DEF Payloads, Statuses
    <2> QED
      BY <2>5, <2>6
  <1> QED
    BY <1>1, <1>2, <1>3

LEMMA FramesJoined ==
  ASSUME NEW fs \in Seq(Framed), NEW gs \in Seq(Framed)
  PROVE  /\ Payloads(fs \o gs) = Payloads(fs) \o Payloads(gs)
         /\ Statuses(fs \o gs) = Statuses(fs) \o Statuses(gs)
  <1>1. fs \o gs \in Seq(Framed)
    BY Concatenated
  <1>2. FlattenSeq(Each(PayloadOf, fs \o gs)) = FlattenSeq(Each(PayloadOf, fs)) \o FlattenSeq(Each(PayloadOf, gs))
    BY FramesAreEach, EachJoined
  <1>3. FlattenSeq(Each(StatusOf, fs \o gs)) = FlattenSeq(Each(StatusOf, fs)) \o FlattenSeq(Each(StatusOf, gs))
    BY FramesAreEach, EachJoined
  <1> QED
    BY <1>1, <1>2, <1>3, FramesAreEach

LEMMA FrameSaid ==
  ASSUME NEW f \in Framed
  PROVE  /\ Payloads(<<f>>) = (IF f.flags = 0 THEN <<f.payload>> ELSE <<>>)
         /\ Statuses(<<f>>) = (IF f.flags = 0 THEN <<>> ELSE <<f.payload[1]>>)
  <1>1. <<f>> \in Seq(Framed)
    OBVIOUS
  <1>2. PayloadOf[f] = (IF f.flags = 0 THEN <<f.payload>> ELSE <<>>)
    BY DEF PayloadOf
  <1>3. StatusOf[f] = (IF f.flags = 0 THEN <<>> ELSE <<f.payload[1]>>)
    BY DEF StatusOf
  <1>4. FlattenSeq(Each(PayloadOf, <<f>>)) = PayloadOf[f]
    BY FramesAreEach, EachSingle
  <1>5. FlattenSeq(Each(StatusOf, <<f>>)) = StatusOf[f]
    BY FramesAreEach, EachSingle
  <1>6. Payloads(<<f>>) = PayloadOf[f] /\ Statuses(<<f>>) = StatusOf[f]
    BY <1>1, <1>4, <1>5, FramesAreEach
  <1> QED
    BY <1>2, <1>3, <1>6

LEMMA NothingFramed == Payloads(<<>>) = <<>> /\ Statuses(<<>>) = <<>>
  <1>1. <<>> \in Seq(Framed)
    OBVIOUS
  <1> QED
    BY <1>1, FramesAreEach, EachNone

\* The frames that carry a message, and the end of a stream.
MessageFrame(message) == [flags |-> 0, payload |-> message]
EndFrames(status) ==
  CASE rpc.protocol = "connect-stream" -> <<[flags |-> EndStreamFlag, payload |-> <<status>>]>>
    [] rpc.protocol = "grpc-web" -> <<[flags |-> TrailerFlag, payload |-> <<status>>]>>
    [] OTHER -> <<>>

LEMMA MessageFramed ==
  ASSUME NEW message \in Payload
  PROVE  /\ <<MessageFrame(message)>> \in Seq(Framed) /\ Bytes(<<MessageFrame(message)>>) = Envelope(message, 0)
         /\ Payloads(<<MessageFrame(message)>>) = <<message>> /\ Statuses(<<MessageFrame(message)>>) = <<>>
         /\ Envelope(message, 0) \in Seq(Nat) /\ message \in Seq(Nat)
  <1> DEFINE f == MessageFrame(message)
  <1>1. message \in Seq(Nat) /\ Len(message) < Base * Base
    <2>1. message \in Seq(0..(Base - 1)) /\ Len(message) < Base * Base
      BY FramingAssumption
    <2> DEFINE S == 0..(Base - 1)
    <2>2. S \in SUBSET Nat
      OBVIOUS
    <2>3. message \in Seq(S)
      BY <2>1
    <2> HIDE DEF S
    <2> QED
      BY <2>1, <2>2, <2>3, SeqWidened
  <1>2. f \in Framed /\ f.flags = 0 /\ f.payload = message
    BY <1>1 DEF Framed, MessageFrame
  <1> HIDE DEF f
  <1>3. <<f>> \in Seq(Framed)
    BY <1>2
  <1>4. Bytes(<<f>>) = Envelope(message, 0)
    BY <1>2, BytesSingle
  <1>5. Payloads(<<f>>) = <<message>> /\ Statuses(<<f>>) = <<>>
    BY <1>2, FrameSaid
  <1>6. Envelope(message, 0) \in Seq(Nat)
    BY <1>3, <1>4, BytesAreEach
  <1> QED
    BY <1>1, <1>3, <1>4, <1>5, <1>6 DEF f

LEMMA EndFramed ==
  ASSUME NEW status \in Nat
  PROVE  /\ EndFrames(status) \in Seq(Framed) /\ Bytes(EndFrames(status)) = StreamEnd(status)
         /\ Payloads(EndFrames(status)) = <<>>
         /\ Statuses(EndFrames(status))
              = IF rpc.protocol \in {"connect-stream", "grpc-web"} THEN <<status>> ELSE <<>>
  <1>1. ASSUME NEW flag \in {2, 3}
        PROVE  /\ <<[flags |-> flag, payload |-> <<status>>]>> \in Seq(Framed)
               /\ Bytes(<<[flags |-> flag, payload |-> <<status>>]>>) = Envelope(<<status>>, flag)
               /\ Payloads(<<[flags |-> flag, payload |-> <<status>>]>>) = <<>>
               /\ Statuses(<<[flags |-> flag, payload |-> <<status>>]>>) = <<status>>
    <2> DEFINE f == [flags |-> flag, payload |-> <<status>>]
    <2>1. <<status>> \in Seq(Nat) /\ Len(<<status>>) = 1 /\ <<status>>[1] = status
      OBVIOUS
    <2>2. 1 < Base * Base
      BY FramingAssumption
    <2>3. f.flags = flag /\ f.payload = <<status>> /\ f.flags # 0 /\ f.payload[1] = status
      OBVIOUS
    <2>4. f \in Framed
      BY <2>1, <2>2 DEF Framed
    <2> HIDE DEF f
    <2>5. <<f>> \in Seq(Framed)
      BY <2>4
    <2>6. Bytes(<<f>>) = Envelope(<<status>>, flag)
      BY <2>3, <2>4, BytesSingle
    <2>7. Payloads(<<f>>) = <<>> /\ Statuses(<<f>>) = <<status>>
      BY <2>3, <2>4, FrameSaid
    <2> QED
      BY <2>5, <2>6, <2>7 DEF f
  <1>2. CASE rpc.protocol = "connect-stream"
    BY <1>1, <1>2 DEF EndFrames, StreamEnd, EndStreamFlag
  <1>3. CASE rpc.protocol = "grpc-web"
    BY <1>1, <1>3 DEF EndFrames, StreamEnd, TrailerFlag
  <1>4. CASE rpc.protocol \notin {"connect-stream", "grpc-web"}
    <2>1. EndFrames(status) = <<>> /\ StreamEnd(status) = <<>>
      BY <1>4 DEF EndFrames, StreamEnd
    <2>2. <<>> \in Seq(Framed)
      OBVIOUS
    <2> QED
      BY <1>4, <2>1, <2>2, BytesNone, NothingFramed
  <1> QED
    BY <1>2, <1>3, <1>4

-----------------------------------------------------------------------------
(* The call.                                                                *)

StatusCodes == {0, Open} \cup Codes

CallTyped ==
  /\ rpc.protocol \in Protocols
  /\ rpcStep \in {"sent", "handling", "streaming", "answered", "forwarded"}
  /\ meant \in [messages : Seq(Payload), end : StatusCodes]
  /\ wire \in [status : StatusCodes, body : Seq(Nat), ended : BOOLEAN]

\* How far the answer is.
AnswerSoFar ==
  /\ wire.ended <=> rpcStep = "answered"
  /\ rpcStep \notin {"streaming", "answered"} => wire.body = <<>> /\ meant.messages = <<>>

\* Unary Connect has the message for its body, or the error for its status; or
\* its stream is blurred.
PlainAnswer ==
  ~Enveloped =>
    /\ held = <<>>
    /\ rpcStep = "streaming" =>
         wire.status = 0 /\ (meant.messages = <<wire.body>> \/ Len(meant.messages) > 1)
    /\ wire.ended => \/ Blurred
                     \/ wire.status = 0 /\ meant = [messages |-> <<wire.body>>, end |-> 0]
                     \/ wire.status # 0 /\ meant = [messages |-> <<>>, end |-> wire.status]

\* The frames decoded, those at hand in part and those to come are the answer's.
ToCome == SubSeq(wire.body, taken + 1, Len(wire.body))
Carry(fs) ==
  /\ \/ Payloads(fs) = meant.messages
     \/ rpcStep = "answered" /\ rpc.protocol = "grpc" /\ Payloads(fs) = <<>>
  /\ Statuses(fs) = IF rpcStep = "answered" /\ rpc.protocol # "grpc" THEN <<meant.end>> ELSE <<>>
FramedAnswer ==
  Enveloped =>
    /\ taken \in 0..Len(wire.body)
    /\ held \in Seq(Nat) /\ ~Whole(held)
    /\ frames \in Seq(Framed)
    /\ \E left \in Seq(Framed) : AreBytes(held, ToCome, left) /\ Carry(frames \o left)

CallInv == CallTyped /\ AnswerSoFar /\ PlainAnswer /\ FramedAnswer

LEMMA CallInvInit == RpcInit => CallInv
<1> SUFFICES ASSUME RpcInit PROVE CallInv
  OBVIOUS
<1>1. /\ rpc.protocol \in Protocols /\ rpcStep = "sent" /\ taken = 0 /\ held = <<>> /\ frames = <<>>
      /\ meant = [messages |-> <<>>, end |-> Open] /\ wire = [status |-> Open, body |-> <<>>, ended |-> FALSE]
  BY DEF RpcInit
<1>2. wire.body = <<>> /\ meant.messages = <<>> /\ ~wire.ended
  BY <1>1
<1>3. CallTyped
  <2>1. <<>> \in Seq(Payload) /\ <<>> \in Seq(Nat) /\ Open \in StatusCodes
    BY DEF StatusCodes
  <2> QED
    BY <1>1, <2>1 DEF CallTyped
<1>4. AnswerSoFar /\ PlainAnswer
  BY <1>1, <1>2 DEF AnswerSoFar, PlainAnswer
<1>5. FramedAnswer
  <2>1. taken \in 0..Len(wire.body) /\ held \in Seq(Nat) /\ frames \in Seq(Framed)
    BY <1>1, <1>2
  <2>2. ~Whole(held)
    <3>1. Len(held) = 0
      BY <1>1
    <3> QED
      BY <3>1 DEF Whole, Header
  <2>3. ToCome = <<>>
    BY <1>1, <1>2 DEF ToCome
  <2>4. AreBytes(held, ToCome, <<>>) /\ <<>> \in Seq(Framed)
    BY <1>1, <2>3, BytesNone DEF AreBytes
  <2>5. frames \o <<>> = <<>>
    BY <1>1
  <2>6. Carry(<<>>)
    BY <1>1, <1>2, NothingFramed DEF Carry
  <2> QED
    BY <2>1, <2>2, <2>4, <2>5, <2>6 DEF FramedAnswer
<1> QED
  BY <1>3, <1>4, <1>5 DEF CallInv

\* Frames put at the end of the body are to come.
LEMMA Extended ==
  ASSUME NEW body \in Seq(Nat), NEW n \in 0..Len(body), NEW x \in Seq(Nat), NEW left \in Seq(Framed),
         NEW more \in Seq(Framed), AreBytes(x, SubSeq(body, n + 1, Len(body)), left)
  PROVE  LET longer == body \o Bytes(more)
         IN /\ longer \in Seq(Nat) /\ n \in 0..Len(longer)
            /\ AreBytes(x, SubSeq(longer, n + 1, Len(longer)), left \o more)
  <1> DEFINE z == Bytes(more)
             longer == body \o z
             a == SubSeq(body, n + 1, Len(body))
             b == SubSeq(longer, n + 1, Len(longer))
             az == a \o z
  <1>1. z \in Seq(Nat)
    BY BytesAreEach
  <1>2. AreBytes(x, a, left)
    OBVIOUS
  <1> HIDE DEF z
  <1>3. /\ longer \in Seq(Nat) /\ Len(longer) = Len(body) + Len(z) /\ Len(body) \in Nat /\ Len(z) \in Nat
        /\ \A k \in 1..(Len(body) + Len(z)) : longer[k] = IF k <= Len(body) THEN body[k] ELSE z[k - Len(body)]
    BY <1>1, Concatenated
  <1> HIDE DEF longer
  <1> DEFINE l == Len(body)
             m == Len(longer)
  <1>4. l \in Nat /\ m \in Nat /\ n \in 0..l /\ m = l + Len(z) /\ Len(z) \in Nat /\ n \in Nat /\ n <= l
    BY <1>3
  <1> HIDE DEF l, m
  <1>5. n + 1 \in 1..(l + 1) /\ l \in ((n + 1) - 1)..l /\ n + 1 \in 1..(m + 1) /\ m \in ((n + 1) - 1)..m
    BY <1>4
  <1>6. a \in Seq(Nat) /\ Len(a) = l - (n + 1) + 1 /\ \A k \in 1..(l - (n + 1) + 1) : a[k] = body[(n + 1) + k - 1]
    BY <1>5, CutOut DEF l
  <1>7. b \in Seq(Nat) /\ Len(b) = m - (n + 1) + 1 /\ \A k \in 1..(m - (n + 1) + 1) : b[k] = longer[(n + 1) + k - 1]
    BY <1>3, <1>5, CutOut DEF m
  <1> HIDE DEF a, b
  <1>8. /\ az \in Seq(Nat) /\ Len(az) = Len(a) + Len(z)
        /\ \A k \in 1..(Len(a) + Len(z)) : az[k] = IF k <= Len(a) THEN a[k] ELSE z[k - Len(a)]
    <2>1. a \in Seq(Nat)
      BY <1>6
    <2> QED
      BY <1>1, <2>1, Concatenated
  <1> HIDE DEF az
  <1>9. Len(a) = l - n /\ Len(b) = m - n /\ Len(b) = Len(az)
    <2>1. l - (n + 1) + 1 = l - n /\ m - (n + 1) + 1 = m - n /\ (l - n) + Len(z) = m - n
      BY <1>4
    <2> QED
      BY <1>6, <1>7, <1>8, <2>1
  <1>10. ASSUME NEW k \in 1..Len(b) PROVE b[k] = az[k]
    <2>1. /\ k \in 1..(m - (n + 1) + 1) /\ k \in 1..((l - n) + Len(z)) /\ (n + 1) + k - 1 = n + k
          /\ n + k \in 1..(l + Len(z)) /\ m - n = (l - n) + Len(z)
      BY <1>4, <1>9
    <2>2. b[k] = longer[n + k] /\ longer[n + k] = IF n + k <= l THEN body[n + k] ELSE z[(n + k) - l]
      BY <1>3, <1>7, <2>1 DEF l
    <2>3. az[k] = IF k <= l - n THEN a[k] ELSE z[k - (l - n)]
      BY <1>8, <1>9, <2>1
    <2>4. CASE k <= l - n
      <3>1. n + k <= l /\ k \in 1..(l - (n + 1) + 1)
        BY <1>4, <2>1, <2>4
      <3>2. a[k] = body[n + k]
        BY <1>6, <2>1, <3>1
      <3> QED
        BY <2>2, <2>3, <2>4, <3>1, <3>2
    <2>5. CASE ~(k <= l - n)
      <3>1. ~(n + k <= l) /\ (n + k) - l = k - (l - n)
        BY <1>4, <2>1, <2>5
      <3> QED
        BY <2>2, <2>3, <2>5, <3>1
    <2> QED
      BY <2>4, <2>5
  <1>11. b = az
    BY <1>7, <1>8, <1>9, <1>10, SameSequence
  <1>12. x \o az = Bytes(left \o more)
    <2>1. x \o a = Bytes(left)
      BY <1>2 DEF AreBytes
    <2>2. (x \o a) \o z = x \o (a \o z)
      <3>1. a \in Seq(Nat)
        BY <1>6
      <3>2. Regroups(x, a, z)
        BY <1>1, <3>1, Regrouped
      <3> QED
        BY <3>2 DEF Regroups
    <2>3. Bytes(left \o more) = Bytes(left) \o z
      BY BytesJoined DEF z
    <2> QED
      BY <2>1, <2>2, <2>3 DEF az
  <1>13. AreBytes(x, b, left \o more)
    BY <1>11, <1>12 DEF AreBytes
  <1>14. n \in 0..m
    BY <1>4
  <1> QED
    BY <1>3, <1>13, <1>14 DEF longer, z, b, m

\* More of the answer is written: what the frames say grows by what these say.
LEMMA WrittenOn ==
  ASSUME CallInv, Enveloped, NEW more \in Seq(Framed), wire'.body = wire.body \o Bytes(more),
         UNCHANGED <<rpc, taken, held, frames>>, rpcStep # "answered",
         meant'.messages = meant.messages \o Payloads(more)
           \/ (rpcStep' = "answered" /\ rpc.protocol = "grpc" /\ meant.messages = <<>> /\ Payloads(more) = <<>>),
         Statuses(more) = IF rpcStep' = "answered" /\ rpc.protocol # "grpc" THEN <<meant'.end>> ELSE <<>>
  PROVE  FramedAnswer'
  <1> DEFINE body == wire.body
             longer == body \o Bytes(more)
  <1>1. body \in Seq(Nat) /\ taken \in 0..Len(body) /\ held \in Seq(Nat) /\ ~Whole(held) /\ frames \in Seq(Framed)
    BY DEF CallInv, CallTyped, FramedAnswer
  <1>2. PICK left \in Seq(Framed) : AreBytes(held, ToCome, left) /\ Carry(frames \o left)
    BY DEF CallInv, FramedAnswer
  <1>3. AreBytes(held, SubSeq(body, taken + 1, Len(body)), left)
    BY <1>2 DEF ToCome
  <1> HIDE DEF body
  <1>4. /\ longer \in Seq(Nat) /\ taken \in 0..Len(longer)
        /\ AreBytes(held, SubSeq(longer, taken + 1, Len(longer)), left \o more)
    BY <1>1, <1>3, Extended
  <1>5. wire'.body = longer /\ taken' = taken /\ held' = held /\ frames' = frames /\ rpc' = rpc
    BY DEF body
  <1> HIDE DEF longer
  <1>6. AreBytes(held', ToCome', left \o more) /\ taken' \in 0..Len(wire'.body)
    BY <1>4, <1>5 DEF ToCome
  <1> DEFINE before == frames \o left
  <1>7. PICK all : all = frames \o (left \o more)
    OBVIOUS
  <1>8. before \in Seq(Framed) /\ left \o more \in Seq(Framed)
    BY <1>1, Concatenated
  <1>9. all = before \o more
    <2>1. (frames \o left) \o more = frames \o (left \o more)
      <3>1. frames \in Seq(Framed)
        BY <1>1
      <3>2. Regroups(frames, left, more)
        BY <3>1, Regrouped
      <3> QED
        BY <3>2 DEF Regroups
    <2> QED
      BY <1>7, <2>1
  <1>10. Carry(before)
    BY <1>2
  <1> HIDE DEF before
  <1>11. Payloads(all) = Payloads(before) \o Payloads(more) /\ Statuses(all) = Statuses(before) \o Statuses(more)
    BY <1>8, <1>9, FramesJoined
  <1>12. Payloads(before) = meant.messages /\ Statuses(before) = <<>>
    BY <1>10 DEF Carry
  <1>13. Statuses(all) = Statuses(more)
    <2>1. Statuses(more) \in Seq(Firsts)
      BY FramesAreEach
    <2>2. <<>> \o Statuses(more) = Statuses(more)
      BY <2>1, Associative
    <2> QED
      BY <1>11, <1>12, <2>2
  <1>14. Payloads(all) = meant.messages \o Payloads(more)
    BY <1>11, <1>12
  <1>15. Carry(all)'
    <2>1. CASE meant'.messages = meant.messages \o Payloads(more)
      BY <1>5, <1>13, <1>14, <2>1 DEF Carry
    <2>2. CASE rpcStep' = "answered" /\ rpc.protocol = "grpc" /\ meant.messages = <<>> /\ Payloads(more) = <<>>
      <3>1. <<>> \o <<>> = <<>>
        OBVIOUS
      <3>2. Payloads(all) = <<>>
        BY <1>14, <2>2, <3>1
      <3> QED
        BY <1>5, <1>13, <2>2, <3>2 DEF Carry
    <2> QED
      BY <2>1, <2>2
  <1>16. PICK l \in Seq(Framed) : l = left \o more
    BY <1>8
  <1>17. AreBytes(held, ToCome, l)' /\ Carry(frames \o l)'
    <2>1. all = frames' \o l
      BY <1>5, <1>7, <1>16
    <2> QED
      BY <1>6, <1>15, <1>16, <2>1 DEF AreBytes, Carry
  <1>18. (~Whole(held))' /\ held' \in Seq(Nat) /\ frames' \in Seq(Framed)
    BY <1>1, <1>5
  <1> QED
    BY <1>6, <1>17, <1>18 DEF FramedAnswer

LEMMA HandleKeeps == ASSUME CallInv, HandleRequest PROVE CallInv'
<1>1. /\ rpcStep = "sent" /\ rpcStep' \in {"handling", "forwarded"}
      /\ UNCHANGED <<rpc, meant, wire, taken, held, frames>>
  BY DEF HandleRequest
<1>2. CallTyped' /\ AnswerSoFar' /\ PlainAnswer'
  BY <1>1 DEF CallInv, CallTyped, AnswerSoFar, PlainAnswer, Enveloped
<1>3. FramedAnswer'
  <2>1. ToCome' = ToCome /\ Enveloped' = Enveloped /\ \A fs : Carry(fs)' <=> Carry(fs)
    BY <1>1 DEF ToCome, Enveloped, Carry
  <2> QED
    BY <1>1, <2>1 DEF CallInv, FramedAnswer
<1> QED
  BY <1>2, <1>3 DEF CallInv

\* An answer in one piece.
LEMMA AnsweredKeeps ==
  ASSUME CallInv, rpcStep = "handling", NEW status \in {0} \cup Codes, NEW end \in {0} \cup Codes,
         NEW said \in Seq(Payload), NEW body \in Seq(Nat), Answered(status, body, said, end),
         NEW more \in Seq(Framed), Enveloped => body = Bytes(more) /\ Payloads(more) = said,
         Statuses(more) = IF rpc.protocol \in {"connect-stream", "grpc-web"} THEN <<end>> ELSE <<>>,
         ~Enveloped => \/ status = 0 /\ said = <<body>> /\ end = 0
                       \/ status # 0 /\ said = <<>> /\ end = status
  PROVE  CallInv'
<1>1. /\ wire' = [status |-> status, ended |-> TRUE, body |-> IF rpc.protocol = "grpc" THEN <<>> ELSE body]
      /\ meant' = [messages |-> said, end |-> end] /\ rpcStep' = "answered"
      /\ UNCHANGED <<rpc, taken, held, frames>>
  BY DEF Answered
<1>2. wire.body = <<>> /\ meant.messages = <<>>
  BY DEF CallInv, AnswerSoFar
<1>3. <<>> \in Seq(Nat) /\ <<>> \in Seq(Framed)
  OBVIOUS
<1>4. CallTyped'
  <2>1. wire'.body \in Seq(Nat)
    BY <1>1, <1>3
  <2>2. wire' \in [status : StatusCodes, body : Seq(Nat), ended : BOOLEAN]
    BY <1>1, <1>3 DEF StatusCodes
  <2>3. meant' \in [messages : Seq(Payload), end : StatusCodes]
    BY <1>1 DEF StatusCodes
  <2> QED
    BY <1>1, <2>2, <2>3 DEF CallInv, CallTyped
<1>5. AnswerSoFar'
  BY <1>1 DEF AnswerSoFar
<1>6. PlainAnswer'
  <2> SUFFICES ASSUME ~Enveloped PROVE PlainAnswer'
    BY <1>1 DEF PlainAnswer, Enveloped
  <2>1. rpc.protocol # "grpc" /\ held = <<>>
    BY DEF CallInv, PlainAnswer, Enveloped
  <2>2. wire'.body = body /\ wire'.status = status
    BY <1>1, <2>1
  <2> QED
    BY <1>1, <2>1, <2>2 DEF PlainAnswer
<1>7. FramedAnswer'
  <2> SUFFICES ASSUME Enveloped PROVE FramedAnswer'
    BY <1>1 DEF FramedAnswer, Enveloped
  <2>1. rpc.protocol \in {"connect-stream", "grpc", "grpc-web"}
    BY FramingAssumption DEF CallInv, CallTyped, Enveloped
  <2>2. CASE rpc.protocol = "grpc"
    <3>1. wire'.body = <<>> /\ wire.body \o Bytes(<<>>) = <<>>
      BY <1>1, <1>2, <2>2, BytesNone
    <3> QED
      BY <1>1, <1>2, <1>3, <2>2, <3>1, NothingFramed, WrittenOn
  <2>3. CASE rpc.protocol # "grpc"
    <3>1. <<>> \o Bytes(more) = Bytes(more) /\ <<>> \o Payloads(more) = Payloads(more)
      BY BytesAreEach, FramesAreEach, Associative
    <3>2. wire'.body = wire.body \o Bytes(more) /\ meant'.messages = meant.messages \o Payloads(more)
      BY <1>1, <1>2, <2>3, <3>1
    <3>3. Statuses(more) = <<meant'.end>>
      BY <1>1, <2>1, <2>3
    <3> QED
      BY <1>1, <2>3, <3>2, <3>3, WrittenOn
  <2> QED
    BY <2>2, <2>3
<1> QED
  BY <1>4, <1>5, <1>6, <1>7 DEF CallInv

LEMMA UnaryKeeps == ASSUME CallInv, NEW message \in Payload, UnaryResponse(message) PROVE CallInv'
<1> DEFINE first == <<MessageFrame(message)>>
           last == EndFrames(0)
<1>0. PICK more, body : more = first \o last /\ body = FrameMessage(message) \o StreamEnd(0)
  OBVIOUS
<1>1. /\ first \in Seq(Framed) /\ Bytes(first) = Envelope(message, 0) /\ Payloads(first) = <<message>>
      /\ Statuses(first) = <<>> /\ message \in Seq(Nat)
  BY MessageFramed
<1>2. /\ last \in Seq(Framed) /\ Bytes(last) = StreamEnd(0) /\ Payloads(last) = <<>>
      /\ Statuses(last) = IF rpc.protocol \in {"connect-stream", "grpc-web"} THEN <<0>> ELSE <<>>
  BY EndFramed
<1>3. rpcStep = "handling" /\ Answered(0, body, <<message>>, 0)
  BY <1>0 DEF UnaryResponse
<1> HIDE DEF first, last
<1>4. more \in Seq(Framed) /\ Bytes(more) = Bytes(first) \o Bytes(last)
  BY <1>0, <1>1, <1>2, BytesJoined, Concatenated
<1>5. Payloads(more) = <<message>> \o <<>> /\ Statuses(more) = <<>> \o Statuses(last)
  BY <1>0, <1>1, <1>2, FramesJoined
<1>6. Payloads(more) = <<message>>
  BY <1>5
<1>7. Statuses(more) = Statuses(last)
  <2>1. Statuses(last) \in Seq(Firsts)
    BY <1>2, FramesAreEach
  <2>2. <<>> \o Statuses(last) = Statuses(last)
    BY <2>1, Associative
  <2> QED
    BY <1>5, <2>2
<1>8. Enveloped => body = Bytes(more)
  BY <1>0, <1>1, <1>2, <1>4 DEF FrameMessage
<1>9. ~Enveloped => body = message
  <2> SUFFICES ASSUME ~Enveloped PROVE body = message
    OBVIOUS
  <2>1. FrameMessage(message) = message /\ StreamEnd(0) = <<>>
    BY DEF FrameMessage, StreamEnd, Enveloped
  <2>2. message \o <<>> = message
    BY <1>1, Associative
  <2> QED
    BY <1>0, <2>1, <2>2
<1>10. body \in Seq(Nat)
  BY <1>1, <1>4, <1>8, <1>9, BytesAreEach
<1>11. <<message>> \in Seq(Payload)
  OBVIOUS
<1> QED
  BY <1>2, <1>3, <1>4, <1>6, <1>7, <1>8, <1>9, <1>10, <1>11, AnsweredKeeps

LEMMA ErrorKeeps == ASSUME CallInv, NEW code \in Codes, ErrorResponse(code) PROVE CallInv'
<1>0. PICK more, status, body :
        /\ more = EndFrames(code) /\ status = (IF Enveloped THEN 0 ELSE code)
        /\ body = IF Enveloped THEN StreamEnd(code) ELSE <<code>>
  OBVIOUS
<1>1. code \in Nat /\ code # 0
  BY FramingAssumption
<1>2. /\ more \in Seq(Framed) /\ Bytes(more) = StreamEnd(code) /\ Payloads(more) = <<>>
      /\ Statuses(more) = IF rpc.protocol \in {"connect-stream", "grpc-web"} THEN <<code>> ELSE <<>>
  BY <1>0, <1>1, EndFramed
<1>3. rpcStep = "handling" /\ Answered(status, body, <<>>, code)
  BY <1>0 DEF ErrorResponse
<1>4. Enveloped => body = Bytes(more)
  BY <1>0, <1>2
<1>5. body \in Seq(Nat)
  <2>1. <<code>> \in Seq(Nat)
    BY <1>1
  <2>2. Bytes(more) \in Seq(Nat)
    BY <1>2, BytesAreEach
  <2> QED
    BY <1>0, <1>4, <2>1, <2>2
<1>6. ~Enveloped => status # 0 /\ status = code
  BY <1>0, <1>1
<1>7. status \in {0} \cup Codes /\ code \in {0} \cup Codes /\ <<>> \in Seq(Payload)
  BY <1>0
<1> QED
  BY <1>2, <1>3, <1>4, <1>5, <1>6, <1>7, AnsweredKeeps

\* A message more of a stream over unary Connect.
LEMMA BareStreamKeeps ==
  ASSUME CallInv, ~Enveloped, NEW message \in Payload, StreamMessage(message) PROVE CallInv'
<1> DEFINE said == meant.messages
           old == wire.body
<1>1. /\ rpcStep \in {"handling", "streaming"} /\ rpcStep' = "streaming"
      /\ wire' = [wire EXCEPT !.status = 0, !.body = @ \o message]
      /\ meant' = [meant EXCEPT !.messages = Append(@, message)]
      /\ UNCHANGED <<rpc, taken, held, frames>>
  BY DEF StreamMessage, FrameMessage
<1>2. /\ wire \in [status : StatusCodes, body : Seq(Nat), ended : BOOLEAN] /\ old \in Seq(Nat)
      /\ meant \in [messages : Seq(Payload), end : StatusCodes] /\ said \in Seq(Payload)
      /\ message \in Seq(Nat)
  BY MessageFramed DEF CallInv, CallTyped
<1>3. wire' = [status |-> 0, body |-> old \o message, ended |-> wire.ended]
  BY <1>1, <1>2
<1>4. meant' = [messages |-> Append(said, message), end |-> meant.end]
  BY <1>1, <1>2
<1> HIDE DEF said, old
<1>5. old \o message \in Seq(Nat)
  BY <1>2, Concatenated
<1>6. Append(said, message) \in Seq(Payload) /\ Len(Append(said, message)) = Len(said) + 1
  BY <1>2
<1>7. CallTyped'
  <2>1. wire' \in [status : StatusCodes, body : Seq(Nat), ended : BOOLEAN]
    BY <1>2, <1>3, <1>5 DEF StatusCodes
  <2>2. meant' \in [messages : Seq(Payload), end : StatusCodes]
    BY <1>2, <1>4, <1>6
  <2> QED
    BY <1>1, <2>1, <2>2 DEF CallInv, CallTyped
<1>8. ~wire'.ended
  BY <1>1, <1>3 DEF CallInv, AnswerSoFar
<1>9. AnswerSoFar'
  BY <1>1, <1>8 DEF AnswerSoFar
<1>10. meant'.messages = <<wire'.body>> \/ Len(meant'.messages) > 1
  <2>1. CASE rpcStep = "handling"
    <3>1. old = <<>> /\ said = <<>>
      BY <2>1 DEF CallInv, AnswerSoFar, said, old
    <3>2. <<>> \o message = message /\ Append(<<>>, message) = <<message>>
      BY <1>2, Associative
    <3> QED
      BY <1>3, <1>4, <3>1, <3>2
  <2>2. CASE rpcStep = "streaming"
    <3>1. said = <<old>> \/ Len(said) > 1
      BY <2>2 DEF CallInv, PlainAnswer, said, old
    <3>2. Len(<<old>>) = 1 /\ Len(said) \in Nat
      BY <1>2
    <3>3. Len(said) >= 1
      BY <3>1, <3>2
    <3> QED
      BY <1>4, <1>6, <3>2, <3>3
  <2> QED
    BY <1>1, <2>1, <2>2
<1>11. PlainAnswer'
  BY <1>1, <1>3, <1>8, <1>10 DEF CallInv, PlainAnswer
<1>12. FramedAnswer'
  BY <1>1 DEF FramedAnswer, Enveloped
<1> QED
  BY <1>7, <1>9, <1>11, <1>12 DEF CallInv

LEMMA FramedStreamKeeps ==
  ASSUME CallInv, Enveloped, NEW message \in Payload, StreamMessage(message) PROVE CallInv'
<1> DEFINE more == <<MessageFrame(message)>>
           body == wire.body \o Bytes(more)
<1>1. /\ more \in Seq(Framed) /\ Bytes(more) = Envelope(message, 0) /\ Payloads(more) = <<message>>
      /\ Statuses(more) = <<>> /\ Bytes(more) \in Seq(Nat)
  BY MessageFramed
<1> HIDE DEF more
<1>2. /\ rpcStep \in {"handling", "streaming"} /\ Enveloped /\ rpcStep' = "streaming"
      /\ wire' = [wire EXCEPT !.status = 0, !.body = @ \o FrameMessage(message)]
      /\ meant' = [meant EXCEPT !.messages = Append(@, message)]
      /\ UNCHANGED <<rpc, taken, held, frames>>
  BY DEF StreamMessage
<1>3. /\ wire \in [status : StatusCodes, body : Seq(Nat), ended : BOOLEAN]
      /\ meant \in [messages : Seq(Payload), end : StatusCodes]
  BY DEF CallInv, CallTyped
<1>4. wire' = [wire EXCEPT !.status = 0, !.body = body]
  BY <1>1, <1>2 DEF FrameMessage
<1>5. body \in Seq(Nat)
  BY <1>1, <1>3
<1> HIDE DEF body
<1>6. wire'.body = body /\ wire'.ended = wire.ended /\ wire' \in [status : StatusCodes, body : Seq(Nat), ended : BOOLEAN]
  BY <1>3, <1>4, <1>5 DEF StatusCodes
<1>7. meant'.messages = meant.messages \o <<message>> /\ meant'.end = meant.end
      /\ meant' \in [messages : Seq(Payload), end : StatusCodes]
  <2> DEFINE m == meant.messages
             e == meant.end
  <2>1. m \in Seq(Payload) /\ e \in StatusCodes /\ meant' = [messages |-> Append(m, message), end |-> e]
    BY <1>2, <1>3
  <2> HIDE DEF m, e
  <2>2. Append(m, message) = m \o <<message>> /\ Append(m, message) \in Seq(Payload)
    BY <2>1
  <2>3. meant'.messages = Append(m, message) /\ meant'.end = e
    BY <2>1
  <2>4. meant' \in [messages : Seq(Payload), end : StatusCodes]
    BY <2>1, <2>2
  <2> QED
    BY <2>2, <2>3, <2>4 DEF m, e
<1>8. CallTyped'
  BY <1>2, <1>6, <1>7 DEF CallInv, CallTyped
<1>9. AnswerSoFar'
  BY <1>2, <1>6 DEF CallInv, AnswerSoFar
<1>10. PlainAnswer'
  BY <1>2 DEF PlainAnswer, Enveloped
<1>11. wire'.body = wire.body \o Bytes(more) /\ meant'.messages = meant.messages \o Payloads(more)
  BY <1>1, <1>6, <1>7 DEF body
<1>12. Statuses(more) = IF rpcStep' = "answered" /\ rpc.protocol # "grpc" THEN <<meant'.end>> ELSE <<>>
  BY <1>1, <1>2
<1>13. FramedAnswer'
  BY <1>1, <1>2, <1>11, <1>12, WrittenOn
<1> QED
  BY <1>8, <1>9, <1>10, <1>13 DEF CallInv

LEMMA StreamKeeps == ASSUME CallInv, NEW message \in Payload, StreamMessage(message) PROVE CallInv'
  BY BareStreamKeeps, FramedStreamKeeps

\* The end of a stream over unary Connect is the end of the body.
LEMMA BareCloseKeeps ==
  ASSUME CallInv, ~Enveloped, NEW status \in {0} \cup Codes, CloseStream(status) PROVE CallInv'
<1> DEFINE said == meant.messages
           old == wire.body
<1>1. StreamEnd(status) = <<>>
  BY DEF StreamEnd, Enveloped
<1>2. /\ rpcStep = "streaming" /\ rpcStep' = "answered"
      /\ wire' = [wire EXCEPT !.body = @ \o <<>>, !.ended = TRUE]
      /\ meant' = [meant EXCEPT !.end = status]
      /\ UNCHANGED <<rpc, taken, held, frames>>
  BY <1>1 DEF CloseStream
<1>3. /\ wire \in [status : StatusCodes, body : Seq(Nat), ended : BOOLEAN] /\ old \in Seq(Nat)
      /\ meant \in [messages : Seq(Payload), end : StatusCodes] /\ said \in Seq(Payload)
      /\ rpc.protocol \in Protocols
  BY DEF CallInv, CallTyped
<1>4. wire' = [status |-> wire.status, body |-> old \o <<>>, ended |-> TRUE]
  BY <1>2, <1>3
<1>5. meant' = [messages |-> said, end |-> status]
  BY <1>2, <1>3
<1>6. wire.status = 0 /\ (said = <<old>> \/ Len(said) > 1) /\ held = <<>>
  BY <1>2 DEF CallInv, PlainAnswer
<1> HIDE DEF said, old
<1>7. old \o <<>> = old
  BY <1>3, Associative
<1>8. CallTyped'
  <2>1. wire' \in [status : StatusCodes, body : Seq(Nat), ended : BOOLEAN]
    BY <1>3, <1>4, <1>6, <1>7 DEF StatusCodes
  <2>2. meant' \in [messages : Seq(Payload), end : StatusCodes]
    BY <1>3, <1>5 DEF StatusCodes
  <2> QED
    BY <1>2, <1>3, <2>1, <2>2 DEF CallTyped
<1>9. AnswerSoFar'
  BY <1>2, <1>4 DEF AnswerSoFar
<1>10. PlainAnswer'
  <2>1. held' = <<>> /\ ~Enveloped' /\ rpcStep' # "streaming"
    BY <1>2, <1>6 DEF Enveloped
  <2>2. wire'.status = 0 /\ wire'.body = old
    BY <1>4, <1>6, <1>7
  <2>3. CASE Len(said) > 1
    BY <1>5, <2>1, <2>3 DEF PlainAnswer, Blurred
  <2>4. CASE said = <<old>> /\ status = 0
    BY <1>5, <2>1, <2>2, <2>4 DEF PlainAnswer
  <2>5. CASE said = <<old>> /\ status # 0
    <3>1. Len(said) = 1
      BY <2>5
    <3> QED
      BY <1>5, <2>1, <2>5, <3>1 DEF PlainAnswer, Blurred
  <2> QED
    BY <1>6, <2>3, <2>4, <2>5
<1>11. FramedAnswer'
  BY <1>2 DEF FramedAnswer, Enveloped
<1> QED
  BY <1>8, <1>9, <1>10, <1>11 DEF CallInv

LEMMA FramedCloseKeeps ==
  ASSUME CallInv, Enveloped, NEW status \in {0} \cup Codes, CloseStream(status) PROVE CallInv'
<1>0. PICK more : more = EndFrames(status)
  OBVIOUS
<1> DEFINE body == wire.body \o Bytes(more)
<1>1. status \in Nat /\ status \in StatusCodes
  BY FramingAssumption DEF StatusCodes
<1>2. /\ more \in Seq(Framed) /\ Bytes(more) = StreamEnd(status) /\ Payloads(more) = <<>>
      /\ Statuses(more) = IF rpc.protocol \in {"connect-stream", "grpc-web"} THEN <<status>> ELSE <<>>
  BY <1>0, <1>1, EndFramed
<1>3. Bytes(more) \in Seq(Nat)
  BY <1>2, BytesAreEach
<1>4. /\ rpcStep = "streaming" /\ rpcStep' = "answered"
      /\ wire' = [wire EXCEPT !.body = @ \o StreamEnd(status), !.ended = TRUE]
      /\ meant' = [meant EXCEPT !.end = status]
      /\ UNCHANGED <<rpc, taken, held, frames>>
  BY DEF CloseStream
<1>5. /\ wire \in [status : StatusCodes, body : Seq(Nat), ended : BOOLEAN]
      /\ meant \in [messages : Seq(Payload), end : StatusCodes] /\ Enveloped /\ rpc.protocol \in Protocols
  BY <1>4 DEF CallInv, CallTyped, AnswerSoFar
<1>6. wire' = [wire EXCEPT !.body = body, !.ended = TRUE]
  BY <1>2, <1>4
<1>7. body \in Seq(Nat)
  BY <1>3, <1>5
<1> HIDE DEF body
<1>8. wire'.body = body /\ wire'.ended = TRUE /\ wire' \in [status : StatusCodes, body : Seq(Nat), ended : BOOLEAN]
  BY <1>5, <1>6, <1>7
<1>9. meant'.messages = meant.messages /\ meant'.end = status /\ meant' \in [messages : Seq(Payload), end : StatusCodes]
  BY <1>1, <1>4, <1>5
<1>10. CallTyped'
  BY <1>4, <1>5, <1>8, <1>9 DEF CallTyped
<1>11. AnswerSoFar' /\ PlainAnswer'
  BY <1>4, <1>5, <1>8 DEF AnswerSoFar, PlainAnswer, Enveloped
<1>12. meant.messages \o Payloads(more) = meant.messages
  <2>1. meant.messages \in Seq(Payload)
    BY <1>5
  <2>2. meant.messages \o <<>> = meant.messages
    BY <2>1, Associative
  <2> QED
    BY <1>2, <2>2
<1>13. wire'.body = wire.body \o Bytes(more) /\ meant'.messages = meant.messages \o Payloads(more)
  BY <1>8, <1>9, <1>12 DEF body
<1>14. Statuses(more) = IF rpcStep' = "answered" /\ rpc.protocol # "grpc" THEN <<meant'.end>> ELSE <<>>
  <2>1. rpc.protocol \in {"connect-stream", "grpc", "grpc-web"}
    BY <1>5, FramingAssumption DEF Enveloped
  <2> QED
    BY <1>2, <1>4, <1>9, <2>1
<1>15. FramedAnswer'
  BY <1>2, <1>4, <1>5, <1>13, <1>14, WrittenOn
<1> QED
  BY <1>10, <1>11, <1>15 DEF CallInv

LEMMA CloseKeeps == ASSUME CallInv, NEW status \in {0} \cup Codes, CloseStream(status) PROVE CallInv'
  BY BareCloseKeeps, FramedCloseKeeps

LEMMA TakeKeepsCall == ASSUME CallInv, TakeChunk PROVE CallInv'
<1> DEFINE body == wire.body
           m == Len(body)
<1>1. PICK upTo \in (taken + 1)..m :
        /\ taken' = upTo
        /\ frames' = frames \o Drained(held \o SubSeq(body, taken + 1, upTo)).frames
        /\ held' = Drained(held \o SubSeq(body, taken + 1, upTo)).rest
  BY DEF TakeChunk
<1>2. Enveloped /\ UNCHANGED <<rpc, rpcStep, heard, meant, wire>>
  BY DEF TakeChunk
<1>3. CallTyped' /\ AnswerSoFar' /\ PlainAnswer'
  BY <1>2 DEF CallInv, CallTyped, AnswerSoFar, PlainAnswer, Enveloped, Blurred
<1>4. body \in Seq(Nat) /\ taken \in 0..m /\ held \in Seq(Nat) /\ frames \in Seq(Framed) /\ m \in Nat
  BY <1>2 DEF CallInv, CallTyped, FramedAnswer
<1>5. PICK left \in Seq(Framed) : AreBytes(held, ToCome, left) /\ Carry(frames \o left)
  BY <1>2 DEF CallInv, FramedAnswer
<1> DEFINE a == SubSeq(body, taken + 1, m)
           b == SubSeq(body, taken + 1, upTo)
           c == SubSeq(body, upTo + 1, m)
           bc == b \o c
           x == held \o b
<1>6. held \o a = Bytes(left)
  BY <1>5 DEF ToCome, AreBytes
<1> HIDE DEF m, body
<1>7. /\ taken \in Nat /\ upTo \in Nat /\ taken + 1 <= upTo /\ upTo <= m /\ upTo \in 0..m
      /\ taken + 1 \in 1..(m + 1) /\ upTo \in ((taken + 1) - 1)..m /\ m \in ((taken + 1) - 1)..m
      /\ upTo + 1 \in 1..(m + 1) /\ m \in ((upTo + 1) - 1)..m
  BY <1>1, <1>4
<1>8. /\ a \in Seq(Nat) /\ Len(a) = m - (taken + 1) + 1
      /\ \A k \in 1..(m - (taken + 1) + 1) : a[k] = body[(taken + 1) + k - 1]
  BY <1>4, <1>7, CutOut DEF m
<1>9. /\ b \in Seq(Nat) /\ Len(b) = upTo - (taken + 1) + 1
      /\ \A k \in 1..(upTo - (taken + 1) + 1) : b[k] = body[(taken + 1) + k - 1]
  BY <1>4, <1>7, CutOut DEF m
<1>10. /\ c \in Seq(Nat) /\ Len(c) = m - (upTo + 1) + 1
       /\ \A k \in 1..(m - (upTo + 1) + 1) : c[k] = body[(upTo + 1) + k - 1]
  BY <1>4, <1>7, CutOut DEF m
<1> HIDE DEF a, b, c
<1>11. /\ bc \in Seq(Nat) /\ Len(bc) = Len(b) + Len(c)
       /\ \A k \in 1..(Len(b) + Len(c)) : bc[k] = IF k <= Len(b) THEN b[k] ELSE c[k - Len(b)]
  <2>1. b \in Seq(Nat) /\ c \in Seq(Nat)
    BY <1>9, <1>10
  <2> QED
    BY <2>1, Concatenated
<1> HIDE DEF bc
<1>12. Len(b) = upTo - taken /\ Len(c) = m - upTo /\ Len(a) = m - taken /\ Len(bc) = m - taken
  <2>1. /\ upTo - (taken + 1) + 1 = upTo - taken /\ m - (upTo + 1) + 1 = m - upTo
        /\ m - (taken + 1) + 1 = m - taken /\ (upTo - taken) + (m - upTo) = m - taken
    BY <1>4, <1>7
  <2> QED
    BY <1>8, <1>9, <1>10, <1>11, <2>1
<1>13. ASSUME NEW k \in 1..Len(bc) PROVE bc[k] = a[k]
  <2>1. /\ k \in 1..(m - (taken + 1) + 1) /\ k \in 1..((upTo - taken) + (m - upTo))
        /\ (taken + 1) + k - 1 = taken + k
    BY <1>4, <1>7, <1>12
  <2>2. a[k] = body[taken + k] /\ bc[k] = IF k <= upTo - taken THEN b[k] ELSE c[k - (upTo - taken)]
    BY <1>8, <1>11, <1>12, <2>1
  <2>3. CASE k <= upTo - taken
    <3>1. k \in 1..(upTo - (taken + 1) + 1)
      BY <1>4, <1>7, <2>1, <2>3
    <3>2. b[k] = body[taken + k]
      BY <1>9, <2>1, <3>1
    <3> QED
      BY <2>2, <2>3, <3>2
  <2>4. CASE ~(k <= upTo - taken)
    <3> DEFINE j == k - (upTo - taken)
    <3>1. j \in 1..(m - (upTo + 1) + 1) /\ (upTo + 1) + j - 1 = taken + k
      BY <1>4, <1>7, <2>1, <2>4
    <3> HIDE DEF j
    <3>2. c[j] = body[taken + k]
      BY <1>10, <3>1
    <3> QED
      BY <2>2, <2>4, <3>2 DEF j
  <2> QED
    BY <2>3, <2>4
<1>14. bc = a
  BY <1>8, <1>11, <1>12, <1>13, SameSequence
<1>15. x \in Seq(Nat)
  BY <1>4, <1>9, Concatenated
<1>16. AreBytes(x, c, left)
  <2>1. b \in Seq(Nat) /\ c \in Seq(Nat)
    BY <1>9, <1>10
  <2>2. (held \o b) \o c = held \o (b \o c)
    <3>1. Regroups(held, b, c)
      BY <1>4, <2>1, Regrouped
    <3> QED
      BY <3>1 DEF Regroups
  <2> QED
    BY <1>6, <1>14, <2>2 DEF AreBytes, bc
<1>17. frames' = frames \o Drained(x).frames /\ held' = Drained(x).rest
  BY <1>1 DEF b
<1> HIDE DEF x
<1>18. Midway(Drained(x), c, left) /\ ~Whole(Drained(x).rest)
  <2>1. c \in Seq(Nat)
    BY <1>10
  <2> QED
    BY <1>15, <1>16, <2>1, DrainedRight
<1> DEFINE got == Drained(x).frames
<1>19. PICK others \in Seq(Framed) :
         got \in Seq(Framed) /\ left = got \o others /\ AreBytes(Drained(x).rest, c, others)
  BY <1>18 DEF Midway
<1>20. Drained(x).rest \in Seq(Nat)
  BY <1>18 DEF Midway
<1> HIDE DEF got
<1>21. frames' = frames \o got
  BY <1>17 DEF got
<1>22. frames' \in Seq(Framed) /\ frames' \o others = frames \o left
  <2>2. (frames \o got) \o others = frames \o (got \o others)
    <3>1. Regroups(frames, got, others)
      BY <1>4, <1>19, Regrouped
    <3> QED
      BY <3>1 DEF Regroups
  <2>3. frames \o got \in Seq(Framed)
    BY <1>4, <1>19, Concatenated
  <2> QED
    BY <1>19, <1>21, <2>2, <2>3
<1>23. ToCome' = c
  <2>1. wire' = wire /\ taken' = upTo
    BY <1>1, <1>2
  <2>2. ToCome' = SubSeq(wire.body, upTo + 1, Len(wire.body))
    BY <2>1 DEF ToCome
  <2> QED
    BY <2>2 DEF c, body, m
<1>24. FramedAnswer'
  <2>1. taken' \in 0..Len(wire'.body)
    <3>1. taken' = upTo /\ wire' = wire
      BY <1>1, <1>2
    <3> QED
      BY <1>7, <3>1 DEF m, body
  <2>2. held' \in Seq(Nat) /\ ~Whole(held')
    BY <1>17, <1>18, <1>20
  <2>3. AreBytes(held', ToCome', others)
    BY <1>17, <1>19, <1>23
  <2>4. PICK all : all = frames \o left
    OBVIOUS
  <2>5. Carry(all)' /\ frames' \o others = all
    BY <1>2, <1>5, <1>22, <2>4 DEF Carry
  <2>6. Carry(frames \o others)'
    BY <2>5 DEF Carry
  <2>7. AreBytes(held, ToCome, others)'
    BY <2>3 DEF AreBytes
  <2> QED
    BY <1>19, <1>22, <2>1, <2>2, <2>6, <2>7 DEF FramedAnswer
<1> QED
  BY <1>3, <1>24 DEF CallInv

LEMMA CallInvStep == CallInv /\ [RpcNext]_rpcVars => CallInv'
<1> SUFFICES ASSUME CallInv, [RpcNext]_rpcVars PROVE CallInv'
  OBVIOUS
<1>1. CASE HandleRequest
  BY <1>1, HandleKeeps
<1>2. CASE \E message \in Payload : UnaryResponse(message) \/ StreamMessage(message)
  BY <1>2, UnaryKeeps, StreamKeeps
<1>3. CASE \E code \in Codes : ErrorResponse(code)
  BY <1>3, ErrorKeeps
<1>4. CASE \E status \in {0} \cup Codes : CloseStream(status)
  BY <1>4, CloseKeeps
<1>5. CASE TakeChunk
  BY <1>5, TakeKeepsCall
<1>6. CASE UNCHANGED rpcVars
  <2>1. UNCHANGED <<rpc, rpcStep, heard, meant, wire, taken, held, frames>>
    BY <1>6 DEF rpcVars
  <2>2. CallTyped' /\ AnswerSoFar' /\ PlainAnswer'
    BY <2>1 DEF CallInv, CallTyped, AnswerSoFar, PlainAnswer, Enveloped, Blurred
  <2>3. ToCome' = ToCome /\ Enveloped' = Enveloped /\ \A fs : Carry(fs)' <=> Carry(fs)
    BY <2>1 DEF ToCome, Enveloped, Carry
  <2>4. FramedAnswer'
    BY <2>1, <2>3 DEF CallInv, FramedAnswer
  <2> QED
    BY <2>2, <2>4 DEF CallInv
<1> QED
  BY <1>1, <1>2, <1>3, <1>4, <1>5, <1>6 DEF RpcNext

\* However the body of an answer is cut into chunks, the frames decoded and
\* those at hand in part or to come are the frames written, in their order, and
\* no whole frame waits (envelope.ts, response.ts, for bodies of any length).
THEOREM CallInvariance == RpcSpec => []CallInv
<1> QED
  BY CallInvInit, CallInvStep, PTL DEF RpcSpec

LEMMA Understands == CallInv => AnswerUnderstood
<1> SUFFICES ASSUME CallInv PROVE AnswerUnderstood
  OBVIOUS
<1>1. CASE Enveloped
  <2>1. frames \in Seq(Framed) /\ held \in Seq(Nat) /\ ~Whole(held)
    BY <1>1 DEF CallInv, FramedAnswer
  <2>2. PICK left \in Seq(Framed) : AreBytes(held, ToCome, left) /\ Carry(frames \o left)
    BY <1>1 DEF CallInv, FramedAnswer
  <2> DEFINE told == Payloads(frames)
             rest == Payloads(left)
  <2>3. told \in Seq(Seq(Nat)) /\ rest \in Seq(Seq(Nat)) /\ Payloads(frames \o left) = told \o rest
    BY <2>1, FramesAreEach, FramesJoined
  <2>4. Learned.messages = told
    BY <1>1 DEF Learned
  <2> HIDE DEF told, rest
  <2>5. IsPrefix(told, meant.messages)
    <3> DEFINE Q == Seq(Nat)
    <3>1. told \in Seq(Q) /\ rest \in Seq(Q)
      BY <2>3
    <3> HIDE DEF Q
    <3>2. CASE meant.messages = told \o rest
      <4>1. IsPrefix(told, told \o rest)
        BY <3>1, BeginsWith
      <4> QED
        BY <3>2, <4>1
    <3>3. CASE told \o rest = <<>>
      <4>1. told = <<>>
        <5>1. Len(told \o rest) = Len(told) + Len(rest) /\ Len(told) \in Nat /\ Len(rest) \in Nat
          BY <3>1, Concatenated
        <5>2. Len(told \o rest) = 0
          BY <3>3
        <5>3. Len(told) = 0
          BY <5>1, <5>2
        <5> QED
          BY <3>1, <5>3
      <4>2. meant.messages \in Seq(Payload)
        BY DEF CallInv, CallTyped
      <4>3. <<>> \o meant.messages = meant.messages /\ <<>> \in Seq(Payload)
        BY <4>2, Associative
      <4>4. IsPrefix(<<>>, <<>> \o meant.messages)
        BY <4>2, <4>3, BeginsWith
      <4> QED
        BY <4>1, <4>3, <4>4
    <3> QED
      BY <2>2, <2>3, <3>2, <3>3 DEF Carry
  <2>6. ASSUME wire.ended, taken = Len(wire.body)
        PROVE  /\ held = <<>> /\ (rpc.protocol # "grpc" => Learned = meant)
               /\ (rpc.protocol = "grpc" => Learned.end = Open)
    <3>1. ToCome = <<>>
      <4>1. wire.body \in Seq(Nat)
        BY DEF CallInv, CallTyped
      <4>2. Len(wire.body) \in Nat
        BY <4>1
      <4> DEFINE m == Len(wire.body)
                 none == SubSeq(wire.body, m + 1, m)
      <4>3. m + 1 \in 1..(m + 1) /\ m \in ((m + 1) - 1)..m /\ m - (m + 1) + 1 = 0
        BY <4>2
      <4>4. none \in Seq(Nat) /\ Len(none) = m - (m + 1) + 1
        BY <4>1, <4>3, CutOut
      <4>5. ToCome = none
        BY <2>6 DEF ToCome
      <4> HIDE DEF none, m
      <4>6. none = <<>>
        BY <4>3, <4>4
      <4> QED
        BY <4>5, <4>6
    <3>2. held = Bytes(left)
      <4>1. held \o <<>> = held
        BY <2>1, Associative
      <4> QED
        BY <2>2, <3>1, <4>1 DEF AreBytes
    <3>3. left = <<>> /\ held = <<>>
      BY <2>1, <3>2, NothingLeft
    <3>4. frames \o left = frames
      BY <2>1, <3>3, Associative
    <3>5. Carry(frames)
      BY <2>2, <3>4
    <3>6. rpcStep = "answered"
      BY <2>6 DEF CallInv, AnswerSoFar
    <3>7. meant = [messages |-> meant.messages, end |-> meant.end]
      BY DEF CallInv, CallTyped
    <3>8. CASE rpc.protocol # "grpc"
      <4>1. Payloads(frames) = meant.messages /\ Statuses(frames) = <<meant.end>>
        BY <3>5, <3>6, <3>8 DEF Carry
      <4>2. Learned = [messages |-> meant.messages, end |-> meant.end]
        BY <1>1, <4>1 DEF Learned
      <4> QED
        BY <3>3, <3>7, <3>8, <4>2
    <3>9. CASE rpc.protocol = "grpc"
      <4>1. Statuses(frames) = <<>>
        BY <3>5, <3>9 DEF Carry
      <4> QED
        BY <1>1, <3>3, <3>9, <4>1 DEF Learned
    <3> QED
      BY <3>8, <3>9
  <2> QED
    BY <1>1, <2>4, <2>5, <2>6 DEF AnswerUnderstood
<1>2. CASE ~Enveloped
  <2>1. rpc.protocol # "grpc" /\ held = <<>>
    BY <1>2 DEF CallInv, PlainAnswer, Enveloped
  <2>2. wire.ended /\ ~Blurred => Learned = meant
    BY <1>2 DEF CallInv, PlainAnswer, Learned
  <2> QED
    BY <1>2, <2>1, <2>2 DEF AnswerUnderstood
<1> QED
  BY <1>1, <1>2

\* However the body of an answer is cut into chunks, the client takes the
\* messages for what they are, never more than were written, and learns how the
\* call ended; over gRPC it learns of no end, and a stream over unary Connect has
\* nothing between its messages (envelope.ts, response.ts).
THEOREM AnswersAreUnderstood == RpcSpec => []AnswerUnderstood
<1> QED
  BY CallInvariance, Understands, PTL

-----------------------------------------------------------------------------
(* Numbers and their digits.                                                *)

\* A value for each number, each from the one before it.
Runs(g, V, base, advance) ==
  /\ g \in [Nat -> V] /\ g[0] = base
  /\ \A i \in Nat : g[i + 1] = advance[i + 1][g[i]]

LEMMA RunsOn ==
  ASSUME NEW V, NEW base \in V, NEW advance \in [Nat -> [V -> V]]
  PROVE  \E g : Runs(g, V, base, advance)
  <1> DEFINE first(n) == [i \in 1..n |-> advance[i]]
             h(n) == CHOOSE g : Follows(g, n, V, base, first(n))
             g == [n \in Nat |-> h(n)[n]]
  <1>1. ASSUME NEW n \in Nat PROVE Follows(h(n), n, V, base, first(n))
    <2>1. first(n) \in [1..n -> [V -> V]]
      OBVIOUS
    <2> HIDE DEF first
    <2>2. \E f : Follows(f, n, V, base, first(n))
      BY <2>1, Recursion
    <2> QED
      BY <2>2
  <1> HIDE DEF h
  <1>2. ASSUME NEW n \in Nat
        PROVE  /\ h(n) \in [0..n -> V] /\ h(n)[0] = base
               /\ \A i \in 1..n : h(n)[i] = advance[i][h(n)[i - 1]]
    BY <1>1 DEF Follows
  <1>3. g \in [Nat -> V] /\ g[0] = base
    <2>1. \A n \in Nat : h(n)[n] \in V
      BY <1>2
    <2> QED
      BY <1>2, <2>1
  <1>4. ASSUME NEW n \in Nat PROVE g[n + 1] = advance[n + 1][g[n]]
    <2> DEFINE m == n + 1
    <2>1. m \in Nat /\ m \in 1..m /\ m - 1 = n /\ \A i \in 1..n : i \in 1..m
      OBVIOUS
    <2>2. AgreeOnward(h(m), h(n), n)
      <3>1. h(m)[0] = h(n)[0]
        BY <1>2, <2>1
      <3>2. \A i \in 1..n : h(m)[i] = advance[i][h(m)[i - 1]] /\ h(n)[i] = advance[i][h(n)[i - 1]]
        BY <1>2, <2>1
      <3> QED
        BY <3>1, <3>2 DEF AgreeOnward
    <2>3. h(m)[n] = h(n)[n]
      <3>1. \A i \in 0..n : h(m)[i] = h(n)[i]
        BY <2>2, Agreement
      <3> QED
        BY <3>1
    <2>4. h(m)[m] = advance[m][h(m)[m - 1]]
      BY <1>2, <2>1
    <2> HIDE DEF m
    <2> QED
      BY <2>1, <2>3, <2>4 DEF m
  <1> HIDE DEF g
  <1> QED
    BY <1>3, <1>4 DEF Runs

LEMMA PlacesRise ==
  ASSUME NEW base \in Nat
  PROVE  /\ Place(base) \in [Nat -> Nat] /\ Place(base)[0] = 1
         /\ \A k \in Nat : Place(base)[k + 1] = Place(base)[k] * base
  <1> DEFINE advance == [i \in Nat |-> [v \in Nat |-> v * base]]
             Is(f) == f = [k \in Nat |-> IF k = 0 THEN 1 ELSE f[k - 1] * base]
  <1>1. PICK g : Runs(g, Nat, 1, advance)
    <2>1. advance \in [Nat -> [Nat -> Nat]] /\ 1 \in Nat
      OBVIOUS
    <2> HIDE DEF advance
    <2> QED
      BY <2>1, RunsOn
  <1>2. g \in [Nat -> Nat] /\ g[0] = 1 /\ \A i \in Nat : g[i + 1] = g[i] * base
    <2>1. \A i \in Nat, v \in Nat : advance[i + 1][v] = v * base
      OBVIOUS
    <2> HIDE DEF advance
    <2>2. g \in [Nat -> Nat] /\ g[0] = 1 /\ \A i \in Nat : g[i + 1] = advance[i + 1][g[i]] /\ g[i] \in Nat
      BY <1>1 DEF Runs
    <2> QED
      BY <2>1, <2>2
  <1>3. Is(g)
    <2>1. ASSUME NEW k \in Nat PROVE g[k] = IF k = 0 THEN 1 ELSE g[k - 1] * base
      <3>1. CASE k = 0
        BY <1>2, <3>1
      <3>2. CASE k # 0
        <4>1. k - 1 \in Nat /\ (k - 1) + 1 = k
          BY <3>2
        <4> QED
          BY <1>2, <3>2, <4>1
      <3> QED
        BY <3>1, <3>2
    <2> QED
      BY <1>2, <2>1
  <1> DEFINE place == CHOOSE f : Is(f)
  <1>4. Is(place)
    BY <1>3
  <1>5. Place(base) = place
    BY DEF Place
  <1> HIDE DEF place
  <1>6. place[0] = 1 /\ \A k \in Nat : place[k + 1] = place[k] * base
    <2>1. \A k \in Nat : place[k] = IF k = 0 THEN 1 ELSE place[k - 1] * base
      BY <1>4
    <2>2. \A k \in Nat : k + 1 \in Nat /\ k + 1 # 0 /\ (k + 1) - 1 = k
      OBVIOUS
    <2>3. 0 \in Nat
      OBVIOUS
    <2> HIDE DEF Is
    <2> QED
      BY <2>1, <2>2, <2>3
  <1>7. \A k \in Nat : place[k] \in Nat
    <2> DEFINE S == {k \in Nat : place[k] \in Nat}
    <2>1. \A k \in S : k + 1 \in S
      BY <1>6
    <2>2. 0 \in S /\ S \in SUBSET Nat
      BY <1>6
    <2> HIDE DEF S
    <2>3. S = Nat
      BY <2>1, <2>2, Inductive
    <2> QED
      BY <2>3 DEF S
  <1>8. place \in [Nat -> Nat]
    <2>1. place = [k \in Nat |-> IF k = 0 THEN 1 ELSE place[k - 1] * base]
      BY <1>4
    <2>2. place = [k \in Nat |-> place[k]]
      BY <2>1
    <2> QED
      BY <1>7, <2>2
  <1> QED
    BY <1>5, <1>6, <1>8

LEMMA LeftFollows ==
  ASSUME NEW value \in Nat, NEW base \in Nat \ {0}
  PROVE  /\ Left(value, base) \in [Nat -> Nat] /\ Left(value, base)[0] = value
         /\ \A k \in Nat : Left(value, base)[k + 1] = Left(value, base)[k] \div base
  <1> DEFINE advance == [i \in Nat |-> [v \in Nat |-> v \div base]]
             Is(f) == f = [k \in Nat |-> IF k = 0 THEN value ELSE f[k - 1] \div base]
  <1>1. PICK g : Runs(g, Nat, value, advance)
    <2>1. advance \in [Nat -> [Nat -> Nat]] /\ value \in Nat
      OBVIOUS
    <2> HIDE DEF advance
    <2> QED
      BY <2>1, RunsOn
  <1>2. g \in [Nat -> Nat] /\ g[0] = value /\ \A i \in Nat : g[i + 1] = g[i] \div base
    <2>1. \A i \in Nat, v \in Nat : advance[i + 1][v] = v \div base
      OBVIOUS
    <2> HIDE DEF advance
    <2>2. g \in [Nat -> Nat] /\ g[0] = value /\ \A i \in Nat : g[i + 1] = advance[i + 1][g[i]] /\ g[i] \in Nat
      BY <1>1 DEF Runs
    <2> QED
      BY <2>1, <2>2
  <1>3. Is(g)
    <2>1. ASSUME NEW k \in Nat PROVE g[k] = IF k = 0 THEN value ELSE g[k - 1] \div base
      <3>1. CASE k = 0
        BY <1>2, <3>1
      <3>2. CASE k # 0
        <4>1. k - 1 \in Nat /\ (k - 1) + 1 = k
          BY <3>2
        <4> QED
          BY <1>2, <3>2, <4>1
      <3> QED
        BY <3>1, <3>2
    <2> QED
      BY <1>2, <2>1
  <1> DEFINE left == CHOOSE f : Is(f)
  <1>4. Is(left)
    BY <1>3
  <1>5. Left(value, base) = left
    BY DEF Left
  <1> HIDE DEF left
  <1>6. left[0] = value /\ \A k \in Nat : left[k + 1] = left[k] \div base
    <2>1. \A k \in Nat : left[k] = IF k = 0 THEN value ELSE left[k - 1] \div base
      BY <1>4
    <2>2. \A k \in Nat : k + 1 \in Nat /\ k + 1 # 0 /\ (k + 1) - 1 = k
      OBVIOUS
    <2>3. 0 \in Nat
      OBVIOUS
    <2> HIDE DEF Is
    <2> QED
      BY <2>1, <2>2, <2>3
  <1>7. \A k \in Nat : left[k] \in Nat
    <2> DEFINE S == {k \in Nat : left[k] \in Nat}
    <2>1. \A k \in S : k + 1 \in S
      BY <1>6
    <2>2. 0 \in S /\ S \in SUBSET Nat
      BY <1>6
    <2> HIDE DEF S
    <2>3. S = Nat
      BY <2>1, <2>2, Inductive
    <2> QED
      BY <2>3 DEF S
  <1>8. left \in [Nat -> Nat]
    <2>1. left = [k \in Nat |-> IF k = 0 THEN value ELSE left[k - 1] \div base]
      BY <1>4
    <2>2. left = [k \in Nat |-> left[k]]
      BY <2>1
    <2> QED
      BY <1>7, <2>2
  <1> QED
    BY <1>5, <1>6, <1>8

LEMMA Divided ==
  ASSUME NEW v \in Nat, NEW base \in Nat \ {0}
  PROVE  v = base * (v \div base) + (v % base) /\ v \div base \in Nat /\ v % base \in 0..(base - 1)
  OBVIOUS

\* A loop that takes digits off a number ends.
LEMMA LeftFalls ==
  ASSUME NEW value \in Nat, NEW base \in Nat \ {0, 1}
  PROVE  \A k \in Nat : Left(value, base)[k] = 0 \/ Left(value, base)[k] + k <= value
  <1> DEFINE left == Left(value, base)
             S == {k \in Nat : left[k] = 0 \/ left[k] + k <= value}
  <1>1. left \in [Nat -> Nat] /\ left[0] = value /\ \A k \in Nat : left[k + 1] = left[k] \div base
    BY LeftFollows
  <1> HIDE DEF left
  <1>2. ASSUME NEW k \in S PROVE k + 1 \in S
    <2> DEFINE v == left[k]
               d == v \div base
    <2>1. v \in Nat /\ k \in Nat /\ left[k + 1] = d
      BY <1>1
    <2>2. v = base * d + (v % base) /\ d \in Nat /\ v % base \in 0..(base - 1)
      BY <2>1, Divided
    <2>3. v = 0 \/ v + k <= value
      OBVIOUS
    <2> DEFINE r == v % base
    <2> HIDE DEF v, d, r
    <2>4. r \in Nat /\ v = base * d + r
      BY <2>2 DEF r
    <2>5. base * d >= 2 * d
      BY <2>2
    <2>6. d = 0 \/ d + 1 <= v
      BY <2>1, <2>2, <2>4, <2>5
    <2>7. d = 0 \/ d + (k + 1) <= value
      BY <2>1, <2>2, <2>3, <2>6
    <2> QED
      BY <2>1, <2>7
  <1>3. 0 \in S /\ S \in SUBSET Nat
    BY <1>1
  <1> HIDE DEF S
  <1>4. S = Nat
    BY <1>2, <1>3, Inductive
  <1> QED
    BY <1>4 DEF S, left

LEMMA Multiplied ==
  ASSUME NEW a \in Nat, NEW b \in Nat, NEW c \in Nat, a <= b
  PROVE  a * c <= b * c /\ a * c \in Nat
  OBVIOUS

LEMMA Swapped ==
  ASSUME NEW a \in Nat, NEW b \in Nat, NEW c \in Nat
  PROVE  (a * b) * c = b * (c * a) /\ (a * b) * c = (a * c) * b /\ a * b \in Nat
  OBVIOUS

\* What is left weighs no more than the number it is left of.
LEMMA LeftPlaced ==
  ASSUME NEW value \in Nat, NEW base \in Nat \ {0}
  PROVE  \A k \in Nat : Left(value, base)[k] * Place(base)[k] <= value
  <1> DEFINE left == Left(value, base)
             place == Place(base)
             S == {k \in Nat : left[k] * place[k] <= value}
  <1>1. left \in [Nat -> Nat] /\ left[0] = value /\ \A k \in Nat : left[k + 1] = left[k] \div base
    BY LeftFollows
  <1>2. place \in [Nat -> Nat] /\ place[0] = 1 /\ \A k \in Nat : place[k + 1] = place[k] * base
    BY PlacesRise
  <1> HIDE DEF left, place
  <1>3. ASSUME NEW k \in S PROVE k + 1 \in S
    <2> DEFINE v == left[k]
               d == v \div base
               r == v % base
               p == place[k]
    <2>1. v \in Nat /\ p \in Nat /\ k \in Nat /\ left[k + 1] = d /\ place[k + 1] = p * base /\ v * p <= value
      BY <1>1, <1>2
    <2>0. v = base * d + r /\ d \in Nat /\ r \in 0..(base - 1)
      BY <2>1, Divided
    <2> HIDE DEF v, d, r, p
    <2>2. v = base * d + r /\ d \in Nat /\ r \in Nat
      BY <2>0
    <2>3. base * d <= v /\ base * d \in Nat
      BY <2>2
    <2>4. (base * d) * p <= v * p
      BY <2>1, <2>3, Multiplied
    <2>5. (base * d) * p = d * (p * base)
      BY <2>1, <2>2, Swapped
    <2>6. (base * d) * p \in Nat /\ v * p \in Nat
      BY <2>1, <2>3
    <2> DEFINE x == (base * d) * p
               y == v * p
    <2>7. x <= y /\ y <= value /\ x \in Nat /\ y \in Nat
      BY <2>1, <2>4, <2>6
    <2> HIDE DEF x, y
    <2>8. x <= value
      BY <2>7
    <2>9. d * (p * base) <= value
      BY <2>5, <2>8 DEF x
    <2> QED
      BY <2>1, <2>9
  <1>4. 0 \in S /\ S \in SUBSET Nat
    BY <1>1, <1>2
  <1> HIDE DEF S
  <1>5. S = Nat
    BY <1>3, <1>4, Inductive
  <1> QED
    BY <1>5 DEF S, left, place

LEMMA NoneLeft ==
  ASSUME NEW value \in Nat, NEW base \in Nat \ {0}, NEW n \in Nat, value < Place(base)[n]
  PROVE  Left(value, base)[n] = 0
  <1> DEFINE l == Left(value, base)[n]
             p == Place(base)[n]
  <1>1. l \in Nat /\ p \in Nat /\ l * p <= value /\ value < p
    BY LeftFollows, PlacesRise, LeftPlaced
  <1> HIDE DEF l, p
  <1>2. SUFFICES ASSUME l >= 1 PROVE FALSE
    BY <1>1 DEF l
  <1>3. 1 * p <= l * p
    BY <1>1, <1>2, Multiplied
  <1> QED
    BY <1>1, <1>3

\* The bytes of a varint: the groups of a number, and which of them is the last.
Grouped(bytes, value) ==
  /\ bytes \in Seq(0..(ByteValues - 1)) /\ Len(bytes) \in Nat \ {0}
  /\ \A k \in 1..Len(bytes) : bytes[k] % Group = Left(value, Group)[k - 1] % Group
  /\ \A k \in 1..(Len(bytes) - 1) : bytes[k] >= Group
  /\ bytes[Len(bytes)] < Group
  /\ Left(value, Group)[Len(bytes)] = 0

LEMMA GroupByte ==
  ASSUME NEW v \in Nat, NEW more \in BOOLEAN
  PROVE  LET byte == (v % Group) + (IF more THEN Group ELSE 0)
         IN byte \in 0..(ByteValues - 1) /\ byte % Group = v % Group /\ (byte >= Group <=> more)
  <1> DEFINE r == v % Group
  <1>1. Group \in Nat \ {0} /\ r \in 0..(Group - 1)
    BY WireAssumption, Divided
  <1> HIDE DEF r
  <1>2. r % Group = r /\ (r + Group) % Group = r
    BY <1>1
  <1>3. CASE more
    <2>1. (v % Group) + (IF more THEN Group ELSE 0) = r + Group
      BY <1>3 DEF r
    <2>2. r + Group \in 0..(ByteValues - 1) /\ r + Group >= Group
      BY <1>1 DEF ByteValues
    <2> QED
      BY <1>2, <1>3, <2>1, <2>2 DEF r
  <1>4. CASE ~more
    <2>1. (v % Group) + (IF more THEN Group ELSE 0) = r
      BY <1>1, <1>4 DEF r
    <2>2. r \in 0..(ByteValues - 1) /\ ~(r >= Group)
      BY <1>1 DEF ByteValues
    <2> QED
      BY <1>2, <1>4, <2>1, <2>2 DEF r
  <1> QED
    BY <1>3, <1>4

LEMMA LoopEnds ==
  ASSUME NEW value \in Nat
  PROVE  \E k \in 1..(value + 1) :
           Left(value, Group)[k] = 0 /\ \A j \in 1..(k - 1) : Left(value, Group)[j] > 0
  <1> DEFINE left == Left(value, Group)
             S == {k \in 1..(value + 1) : left[k] = 0}
  <1>1. left \in [Nat -> Nat] /\ left[value + 1] = 0
    <2>1. Group \in Nat \ {0, 1} /\ value + 1 \in Nat
      BY WireAssumption
    <2>2. left \in [Nat -> Nat]
      BY <2>1, LeftFollows
    <2>3. left[value + 1] = 0 \/ left[value + 1] + (value + 1) <= value
      BY <2>1, LeftFalls
    <2>4. left[value + 1] \in Nat
      BY <2>1, <2>2
    <2> HIDE DEF left
    <2> QED
      BY <2>2, <2>3, <2>4
  <1> HIDE DEF left
  <1>2. value + 1 \in S /\ S \in SUBSET Nat
    BY <1>1
  <1>3. PICK k \in S : \A j \in S : ~(<<j, k>> \in OpToRel(<, Nat))
    <2> HIDE DEF S
    <2> QED
      BY <1>2, WFMin, NatLessThanWellFounded
  <1>4. ASSUME NEW j \in 1..(k - 1) PROVE left[j] > 0
    <2>1. j \in 1..(value + 1) /\ j < k /\ left[j] \in Nat /\ j \in Nat /\ k \in Nat
      BY <1>1, <1>2
    <2>2. SUFFICES ASSUME left[j] = 0 PROVE FALSE
      BY <2>1
    <2>3. j \in S
      BY <2>1, <2>2
    <2>4. <<j, k>> \in OpToRel(<, Nat)
      BY <2>1 DEF OpToRel
    <2> QED
      BY <1>3, <2>3, <2>4
  <1>5. k \in 1..(value + 1) /\ left[k] = 0
    OBVIOUS
  <1> QED
    BY <1>4, <1>5 DEF left

LEMMA GroupsWritten ==
  ASSUME NEW value \in Nat
  PROVE  Grouped(Groups(value), value) /\ (Fits(value) => Len(Groups(value)) <= MostGroups)
  <1> DEFINE left == Left(value, Group)
             Final(k) == left[k] = 0 /\ \A j \in 1..(k - 1) : left[j] > 0
             ending == CHOOSE k \in 1..(value + 1) : Final(k)
             byte(k) == (left[k - 1] % Group) + (IF left[k] > 0 THEN Group ELSE 0)
             bytes == [k \in 1..ending |-> byte(k)]
  <1>1. ending \in 1..(value + 1) /\ Final(ending)
    BY LoopEnds
  <1>2. Groups(value) = bytes
    BY DEF Groups
  <1>3. left \in [Nat -> Nat] /\ Group \in Nat \ {0, 1}
    BY LeftFollows, WireAssumption
  <1> HIDE DEF ending
  <1>4. ending \in Nat \ {0} /\ left[ending] = 0 /\ \A j \in 1..(ending - 1) : left[j] > 0
    BY <1>1
  <1>5. ASSUME NEW k \in 1..ending
        PROVE  byte(k) \in 0..(ByteValues - 1) /\ byte(k) % Group = left[k - 1] % Group /\ (byte(k) >= Group <=> left[k] > 0)
    <2>1. left[k - 1] \in Nat /\ (left[k] > 0) \in BOOLEAN
      <3>1. k - 1 \in Nat
        BY <1>4
      <3> QED
        BY <1>3, <3>1
    <2> HIDE DEF left
    <2> QED
      BY <2>1, GroupByte
  <1>6. bytes \in Seq(0..(ByteValues - 1)) /\ Len(bytes) = ending /\ \A k \in 1..ending : bytes[k] = byte(k)
    <2> HIDE DEF byte
    <2> QED
      BY <1>4, <1>5
  <1>7. bytes[ending] < Group
    <2>1. ending \in 1..ending /\ ~(left[ending] > 0)
      BY <1>4
    <2>2. byte(ending) \in 0..(ByteValues - 1) /\ ~(byte(ending) >= Group) /\ bytes[ending] = byte(ending)
      BY <1>5, <1>6, <2>1
    <2> DEFINE b == byte(ending)
    <2>3. b \in 0..(ByteValues - 1) /\ ~(b >= Group) /\ bytes[ending] = b
      BY <2>2
    <2> HIDE DEF b, byte, bytes
    <2> QED
      BY <1>3, <2>3
  <1> HIDE DEF bytes, byte
  <1>8. Grouped(bytes, value)
    <2>1. \A k \in 1..ending : bytes[k] % Group = left[k - 1] % Group
      BY <1>5, <1>6
    <2>2. \A k \in 1..(ending - 1) : k \in 1..ending /\ bytes[k] >= Group
      <3>1. \A k \in 1..(ending - 1) : k \in 1..ending
        BY <1>4
      <3> QED
        BY <1>4, <1>5, <1>6, <3>1
    <2> QED
      BY <1>4, <1>6, <1>7, <2>1, <2>2 DEF Grouped
  <1>9. ASSUME Fits(value) PROVE ending <= MostGroups
    <2>1. MostGroups \in Nat \ {0} /\ value < Place(Group)[MostGroups]
      BY <1>9, WireAssumption DEF Fits
    <2>2. left[MostGroups] = 0
      BY <1>3, <2>1, NoneLeft
    <2>3. SUFFICES ASSUME MostGroups < ending PROVE FALSE
      BY <1>4, <2>1
    <2>4. MostGroups \in 1..(ending - 1)
      BY <1>4, <2>1, <2>3
    <2>5. left[MostGroups] > 0
      BY <1>4, <2>4
    <2> QED
      BY <2>2, <2>5
  <1> QED
    BY <1>2, <1>6, <1>8, <1>9

LEMMA Distributed ==
  ASSUME NEW b \in Nat, NEW d \in Nat, NEW r \in Nat, NEW p \in Nat
  PROVE  (b * d + r) * p = d * (p * b) + r * p /\ d * (p * b) \in Nat /\ r * p \in Nat
  OBVIOUS

\* What the digits of a number at some place in the buffer are put together to.
LEMMA PutTogether ==
  ASSUME NEW pos, NEW digits \in Nat, NEW base \in Nat \ {0}, NEW value \in Nat,
         \A k \in 1..digits : buffer[pos + k] % base = Left(value, base)[k - 1] % base,
         Left(value, base)[digits] = 0
  PROVE  Joined(pos, digits, base) = value
  <1> DEFINE left == Left(value, base)
             place == Place(base)
             next(f, k) == IF k = 0 THEN 0 ELSE f[k - 1] + (buffer[pos + k] % base) * place[k - 1]
             Is(f) == f = [k \in 0..digits |-> next(f, k)]
             g == [k \in 0..digits |-> value - left[k] * place[k]]
             joined == CHOOSE f : Is(f)
  <1>1. left \in [Nat -> Nat] /\ left[0] = value /\ \A k \in Nat : left[k + 1] = left[k] \div base
    BY LeftFollows
  <1>2. place \in [Nat -> Nat] /\ place[0] = 1 /\ \A k \in Nat : place[k + 1] = place[k] * base
    BY PlacesRise
  <1>3. Joined(pos, digits, base) = joined[digits]
    BY DEF Joined
  <1>4. /\ \A k \in 1..digits : buffer[pos + k] % base = left[k - 1] % base
        /\ left[digits] = 0
    OBVIOUS
  <1> HIDE DEF left, place
  <1>5. ASSUME NEW k \in 0..digits PROVE g[k] = next(g, k)
    <2>0. g[k] = value - left[k] * place[k]
      OBVIOUS
    <2>1. CASE k = 0
      BY <1>1, <1>2, <2>0, <2>1
    <2>2. CASE k # 0
      <3> DEFINE j == k - 1
                 v == left[j]
                 d == v \div base
                 r == v % base
                 p == place[j]
      <3>1. j \in Nat /\ j \in 0..digits /\ k \in 1..digits /\ j + 1 = k
        BY <2>2
      <3>2. v \in Nat /\ p \in Nat /\ left[k] = d /\ place[k] = p * base
        BY <1>1, <1>2, <3>1
      <3>3. v = base * d + r /\ d \in Nat /\ r \in 0..(base - 1)
        BY <3>2, Divided
      <3>4. g[j] = value - v * p
        BY <3>1
      <3>5. buffer[pos + k] % base = r
        BY <1>4, <3>1
      <3>6. next(g, k) = g[j] + r * p
        BY <2>2, <3>5
      <3> HIDE DEF v, d, r, p, g, next, j
      <3>7. r \in Nat
        BY <3>3
      <3>8. v * p = d * (p * base) + r * p /\ d * (p * base) \in Nat /\ r * p \in Nat
        BY <3>2, <3>3, <3>7, Distributed
      <3> DEFINE x == d * (p * base)
                 y == r * p
                 z == v * p
      <3>9. x \in Nat /\ y \in Nat /\ z = x + y /\ g[k] = value - x /\ g[j] = value - z /\ next(g, k) = g[j] + y
        BY <2>0, <3>2, <3>4, <3>6, <3>8
      <3> HIDE DEF x, y, z
      <3>10. value - x = (value - z) + y
        BY <3>9
      <3> QED
        BY <3>9, <3>10
    <2> QED
      BY <2>1, <2>2
  <1>6. Is(g)
    <2> DEFINE expected(k) == next(g, k)
    <2>1. \A k \in 0..digits : g[k] = expected(k)
      BY <1>5
    <2>2. g = [k \in 0..digits |-> g[k]]
      OBVIOUS
    <2> HIDE DEF g, expected
    <2>3. g = [k \in 0..digits |-> expected(k)]
      BY <2>1, <2>2
    <2> QED
      BY <2>3 DEF expected
  <1>7. Is(joined)
    BY <1>6
  <1> HIDE DEF joined
  <1>8. \A k \in 0..digits : joined[k] = next(joined, k)
    <2> DEFINE expected(k) == next(joined, k)
    <2>1. joined = [k \in 0..digits |-> expected(k)]
      BY <1>7
    <2> HIDE DEF expected
    <2>2. \A k \in 0..digits : joined[k] = expected(k)
      BY <2>1
    <2> QED
      BY <2>2 DEF expected
  <1>9. AgreeOnward(joined, g, digits)
    <2>1. joined[0] = g[0]
      <3>1. 0 \in 0..digits
        OBVIOUS
      <3> HIDE DEF g
      <3> QED
        BY <1>5, <1>8, <3>1
    <2>2. \A k \in 1..digits : joined[k - 1] = g[k - 1] => joined[k] = g[k]
      <3>1. \A k \in 1..digits : k \in 0..digits
        OBVIOUS
      <3> HIDE DEF g
      <3> QED
        BY <1>5, <1>8, <3>1
    <2> QED
      BY <2>1, <2>2 DEF AgreeOnward
  <1>10. joined[digits] = g[digits]
    <2>1. digits \in 0..digits
      OBVIOUS
    <2> HIDE DEF g
    <2> QED
      BY <1>9, <2>1, Agreement
  <1>11. g[digits] = value
    <2>1. g[digits] = value - left[digits] * place[digits] /\ place[digits] \in Nat
      BY <1>2
    <2> HIDE DEF g
    <2> QED
      BY <1>4, <2>1
  <1> QED
    BY <1>3, <1>10, <1>11

-----------------------------------------------------------------------------
(* What the reader finds of what was written, where all or a part of it is.  *)

Bytes8 == 0..(ByteValues - 1)

\* The buffer has some bytes at a place, as far as it goes.
Carried(pos, bytes) == \A k \in 1..Len(bytes) : pos + k <= Len(buffer) => buffer[pos + k] = bytes[k]

\* What a reader that finds a value, when its bytes are there, comes back with.
Found(pos, bytes, value) ==
  IF pos + Len(bytes) <= Len(buffer) THEN Result(value, pos + Len(bytes)) ELSE Thrown

LEMMA VarintRead ==
  ASSUME buffer \in Seq(Bytes8), NEW pos \in 0..Len(buffer), NEW value, Fits(value), Carried(pos, Groups(value))
  PROVE  ReadVarint(pos) = Found(pos, Groups(value), value)
  <1> DEFINE bytes == Groups(value)
             n == Len(bytes)
             last == {k \in (pos + 1)..Len(buffer) : buffer[k] < Group}
             upTo == CHOOSE k \in last : \A j \in last : k <= j
  <1>1. value \in Nat /\ Group \in Nat \ {0, 1} /\ MostGroups \in Nat
    BY WireAssumption DEF Fits
  <1>2. Grouped(bytes, value) /\ n <= MostGroups
    BY <1>1, GroupsWritten
  <1>3. Len(buffer) \in Nat /\ pos \in Nat
    OBVIOUS
  <1>4. \A k \in 1..n : pos + k <= Len(buffer) => buffer[pos + k] = bytes[k]
    BY DEF Carried
  <1>5. ReadVarint(pos) = IF last = {} THEN Thrown
                         ELSE IF upTo - pos > MostGroups THEN Thrown ELSE Result(Joined(pos, upTo - pos, Group), upTo)
    BY DEF ReadVarint
  <1> HIDE DEF bytes, upTo
  <1>6. /\ bytes \in Seq(Bytes8) /\ n \in Nat \ {0}
        /\ \A k \in 1..n : bytes[k] % Group = Left(value, Group)[k - 1] % Group
        /\ \A k \in 1..(n - 1) : bytes[k] >= Group
        /\ bytes[n] < Group
        /\ Left(value, Group)[n] = 0
    BY <1>2 DEF Grouped, Bytes8
  <1> HIDE DEF n
  <1>7. ASSUME NEW k \in last PROVE k >= pos + n
    <2>1. k \in Nat /\ k >= pos + 1 /\ k <= Len(buffer) /\ buffer[k] < Group
      BY <1>3
    <2>2. SUFFICES ASSUME k < pos + n PROVE FALSE
      BY <1>3, <1>6, <2>1
    <2> DEFINE j == k - pos
    <2>3. j \in 1..(n - 1) /\ j \in 1..n /\ pos + j = k
      BY <1>3, <1>6, <2>1, <2>2
    <2> HIDE DEF j
    <2>4. buffer[k] = bytes[j] /\ bytes[j] >= Group /\ bytes[j] \in Nat
      <3>1. bytes[j] \in Bytes8
        BY <1>6, <2>3 DEF n
      <3>2. bytes[j] \in Nat
        BY <1>1, <3>1 DEF Bytes8, ByteValues
      <3>3. pos + j <= Len(buffer) => buffer[pos + j] = bytes[j]
        BY <1>4, <2>3
      <3>4. buffer[k] = bytes[j]
        BY <2>1, <2>3, <3>3
      <3>5. bytes[j] >= Group
        BY <1>6, <2>3
      <3> QED
        BY <3>2, <3>4, <3>5
    <2> QED
      BY <1>1, <2>1, <2>4
  <1>8. CASE pos + n <= Len(buffer)
    <2>1. n \in 1..n /\ pos + n \in (pos + 1)..Len(buffer) /\ buffer[pos + n] = bytes[n]
      BY <1>3, <1>4, <1>6, <1>8
    <2>2. pos + n \in last
      BY <1>6, <2>1
    <2>3. upTo \in last /\ \A j \in last : upTo <= j
      <3>1. \E k \in last : \A j \in last : k <= j
        BY <1>7, <2>2
      <3> HIDE DEF last
      <3> QED
        BY <3>1 DEF upTo
    <2>4. upTo = pos + n
      <3>1. upTo <= pos + n /\ upTo >= pos + n /\ upTo \in Nat
        BY <1>3, <1>7, <2>2, <2>3
      <3> QED
        BY <1>3, <1>6, <3>1
    <2>5. last # {} /\ upTo - pos = n
      <3>1. pos \in Nat /\ n \in Nat
        BY <1>3, <1>6
      <3>2. upTo - pos = n
        BY <2>4, <3>1
      <3> HIDE DEF last
      <3> QED
        BY <2>2, <3>2
    <2>6. ~(upTo - pos > MostGroups)
      BY <1>1, <1>2, <1>6, <2>5 DEF n
    <2>7. Joined(pos, n, Group) = value
      <3>1. \A k \in 1..n : buffer[pos + k] = bytes[k]
        BY <1>3, <1>4, <1>6, <1>8
      <3>2. \A k \in 1..n : buffer[pos + k] % Group = Left(value, Group)[k - 1] % Group
        BY <1>6, <3>1
      <3>3. n \in Nat /\ Group \in Nat \ {0} /\ Left(value, Group)[n] = 0
        BY <1>1, <1>6
      <3> QED
        BY <1>1, <3>2, <3>3, PutTogether
    <2> HIDE DEF last
    <2>8. ReadVarint(pos) = Result(value, pos + n)
      BY <1>5, <2>4, <2>5, <2>6, <2>7
    <2> QED
      BY <1>8, <2>8 DEF Found, n, bytes
  <1>9. CASE ~(pos + n <= Len(buffer))
    <2>1. last = {}
      <3>1. \A k \in last : k \in Nat /\ k <= Len(buffer)
        BY <1>3
      <3> HIDE DEF last
      <3> QED
        BY <1>3, <1>6, <1>7, <1>9, <3>1
    <2> HIDE DEF last
    <2> QED
      BY <1>5, <1>9, <2>1 DEF Found, n, bytes
  <1> QED
    BY <1>8, <1>9

LEMMA Fixed ==
  ASSUME NEW value \in Nat, NEW width \in Nat
  PROVE  /\ LittleEndian(value, width) \in Seq(Bytes8) /\ Len(LittleEndian(value, width)) = width
         /\ \A k \in 1..width : LittleEndian(value, width)[k] = Left(value, ByteValues)[k - 1] % ByteValues
  <1> DEFINE byte(k) == Left(value, ByteValues)[k - 1] % ByteValues
  <1>1. ByteValues \in Nat \ {0}
    BY WireAssumption DEF ByteValues
  <1>2. ASSUME NEW k \in 1..width PROVE byte(k) \in Bytes8
    <2>1. k - 1 \in Nat /\ Left(value, ByteValues) \in [Nat -> Nat]
      BY <1>1, LeftFollows
    <2>2. Left(value, ByteValues)[k - 1] \in Nat
      BY <2>1
    <2> QED
      BY <1>1, <2>2, Divided DEF Bytes8
  <1>3. LittleEndian(value, width) = [k \in 1..width |-> byte(k)]
    BY DEF LittleEndian
  <1> HIDE DEF byte
  <1>4. /\ LittleEndian(value, width) \in Seq(Bytes8) /\ Len(LittleEndian(value, width)) = width
        /\ \A k \in 1..width : LittleEndian(value, width)[k] = byte(k)
    BY <1>2, <1>3
  <1> QED
    BY <1>4 DEF byte

LEMMA FixedRead ==
  ASSUME buffer \in Seq(Bytes8), NEW pos \in 0..Len(buffer), NEW width \in Nat,
         NEW value \in Nat, value < Place(ByteValues)[width], Carried(pos, LittleEndian(value, width))
  PROVE  ReadFixed(pos, width) = Found(pos, LittleEndian(value, width), value)
  <1> DEFINE bytes == LittleEndian(value, width)
  <1>1. ByteValues \in Nat \ {0} /\ Len(buffer) \in Nat /\ pos \in Nat
    BY WireAssumption DEF ByteValues
  <1>2. Len(bytes) = width /\ \A k \in 1..width : bytes[k] = Left(value, ByteValues)[k - 1] % ByteValues
    BY Fixed
  <1>3. CASE pos + width <= Len(buffer)
    <2>1. \A k \in 1..width : buffer[pos + k] = bytes[k]
      <3>1. \A k \in 1..width : pos + k <= Len(buffer)
        BY <1>1, <1>3
      <3> HIDE DEF bytes
      <3> QED
        BY <1>2, <3>1 DEF Carried, bytes
    <2>2. ASSUME NEW k \in 1..width
          PROVE  buffer[pos + k] % ByteValues = Left(value, ByteValues)[k - 1] % ByteValues
      <3> DEFINE l == Left(value, ByteValues)[k - 1]
      <3>1. l \in Nat
        <4>1. k - 1 \in Nat
          BY <1>1
        <4>2. Left(value, ByteValues) \in [Nat -> Nat]
          BY <1>1, LeftFollows
        <4> QED
          BY <4>1, <4>2
      <3>2. buffer[pos + k] = l % ByteValues
        BY <1>2, <2>1
      <3> DEFINE r == l % ByteValues
      <3>3. r \in 0..(ByteValues - 1)
        <4> HIDE DEF l
        <4> QED
          BY <1>1, <3>1, Divided
      <3> HIDE DEF r
      <3>4. r % ByteValues = r
        BY <1>1, <3>3
      <3> QED
        BY <3>2, <3>4 DEF r
    <2>3. Left(value, ByteValues)[width] = 0
      BY <1>1, NoneLeft
    <2>4. Joined(pos, width, ByteValues) = value
      BY <1>1, <2>2, <2>3, PutTogether
    <2> QED
      BY <1>1, <1>2, <1>3, <2>4 DEF ReadFixed, Found
  <1>4. CASE ~(pos + width <= Len(buffer))
    <2>1. pos + width > Len(buffer)
      BY <1>1, <1>4
    <2> QED
      BY <1>2, <1>4, <2>1 DEF ReadFixed, Found
  <1> QED
    BY <1>3, <1>4

LEMMA Apart ==
  ASSUME NEW P, NEW a \in Seq(P), NEW b \in Seq(P), NEW pos \in Nat, Carried(pos, a \o b)
  PROVE  /\ Carried(pos, a) /\ Carried(pos + Len(a), b)
         /\ a \o b \in Seq(P) /\ Len(a \o b) = Len(a) + Len(b) /\ Len(a) \in Nat /\ Len(b) \in Nat
  <1> DEFINE ab == a \o b
             n == Len(a)
             m == Len(b)
  <1>1. /\ ab \in Seq(P) /\ Len(ab) = n + m /\ n \in Nat /\ m \in Nat
        /\ \A k \in 1..n : ab[k] = a[k]
        /\ \A k \in 1..m : ab[n + k] = b[k]
    OBVIOUS
  <1>2. \A k \in 1..Len(ab) : pos + k <= Len(buffer) => buffer[pos + k] = ab[k]
    BY DEF Carried
  <1> HIDE DEF ab
  <1>3. Carried(pos, a)
    <2> HIDE DEF n, m
    <2>1. \A k \in 1..n : k \in 1..Len(ab)
      BY <1>1
    <2>2. \A k \in 1..n : pos + k <= Len(buffer) => buffer[pos + k] = a[k]
      BY <1>1, <1>2, <2>1
    <2> QED
      BY <2>2 DEF Carried, n
  <1>4. Carried(pos + n, b)
    <2> HIDE DEF n, m
    <2>1. ASSUME NEW k \in 1..m, (pos + n) + k <= Len(buffer) PROVE buffer[(pos + n) + k] = b[k]
      <3>1. n + k \in 1..Len(ab) /\ pos + (n + k) = (pos + n) + k
        BY <1>1
      <3>2. pos + (n + k) <= Len(buffer) => buffer[pos + (n + k)] = ab[n + k]
        BY <1>2, <3>1
      <3>3. ab[n + k] = b[k]
        BY <1>1
      <3> QED
        BY <2>1, <3>1, <3>2, <3>3
    <2> QED
      BY <2>1 DEF Carried, m
  <1> QED
    BY <1>1, <1>3, <1>4 DEF ab

LEMMA GroupsTyped ==
  ASSUME NEW value \in Nat
  PROVE  Groups(value) \in Seq(Bytes8) /\ Len(Groups(value)) \in Nat \ {0}
  BY GroupsWritten DEF Grouped, Bytes8

LEMMA BytesRead ==
  ASSUME buffer \in Seq(Bytes8), NEW pos \in 0..Len(buffer), NEW bytes \in Seq(Bytes8), Fits(Len(bytes)),
         Carried(pos, Groups(Len(bytes)) \o bytes)
  PROVE  ReadBytes(pos) = Found(pos, Groups(Len(bytes)) \o bytes, bytes)
  <1> DEFINE head == Groups(Len(bytes))
             n == Len(head)
             m == Len(bytes)
             length == ReadVarint(pos)
  <1>1. Len(buffer) \in Nat /\ pos \in Nat /\ m \in Nat
    OBVIOUS
  <1>2. head \in Seq(Bytes8) /\ n \in Nat
    BY <1>1, GroupsTyped
  <1>3. Carried(pos, head) /\ Carried(pos + n, bytes) /\ Len(head \o bytes) = n + m
    <2> HIDE DEF head
    <2> QED
      BY <1>1, <1>2, Apart DEF head
  <1>4. length = IF pos + n <= Len(buffer) THEN Result(m, pos + n) ELSE Thrown
    BY <1>3, VarintRead DEF Found
  <1>5. ReadBytes(pos) = IF ~length.ok THEN Thrown
                        ELSE IF length.next + length.value > Len(buffer) THEN Thrown
                        ELSE Result(SubSeq(buffer, length.next + 1, length.next + length.value), length.next + length.value)
    BY DEF ReadBytes
  <1> DEFINE both == head \o bytes
  <1>6. Found(pos, both, bytes) = IF pos + (n + m) <= Len(buffer) THEN Result(bytes, pos + (n + m)) ELSE Thrown
    BY <1>3 DEF Found
  <1> HIDE DEF length, both, head, n, m
  <1>7. CASE ~(pos + n <= Len(buffer))
    <2>1. ~length.ok
      BY <1>4, <1>7 DEF Thrown
    <2>2. ~(pos + (n + m) <= Len(buffer))
      BY <1>1, <1>2, <1>7
    <2> QED
      BY <1>5, <1>6, <2>1, <2>2 DEF both, head
  <1>8. CASE pos + n <= Len(buffer)
    <2>1. length.ok /\ length.value = m /\ length.next = pos + n
      BY <1>4, <1>8 DEF Result
    <2>2. (pos + n) + m = pos + (n + m)
      BY <1>1, <1>2
    <2>3. CASE ~(pos + (n + m) <= Len(buffer))
      <3>1. (pos + n) + m > Len(buffer)
        BY <1>1, <1>2, <2>2, <2>3
      <3> QED
        BY <1>5, <1>6, <2>1, <2>3, <3>1 DEF both, head
    <2>4. CASE pos + (n + m) <= Len(buffer)
      <3>1. ~((pos + n) + m > Len(buffer))
        BY <1>1, <1>2, <2>2, <2>4
      <3> DEFINE start == pos + n
                 cut == SubSeq(buffer, start + 1, start + m)
      <3>2. start \in Nat /\ start + m <= Len(buffer)
        BY <1>1, <1>2, <2>2, <2>4
      <3>3. \A k \in 1..m : buffer[start + k] = bytes[k]
        <4>1. \A k \in 1..m : start + k <= Len(buffer)
          BY <1>1, <3>2
        <4> HIDE DEF start
        <4> QED
          BY <1>3, <4>1 DEF Carried, m, start
      <3> HIDE DEF start
      <3>4. cut \in Seq(Bytes8) /\ Len(cut) = m /\ \A k \in 1..m : cut[k] = buffer[start + k]
        <4>1. cut \in Seq(Bytes8)
          BY <1>1, <3>2
        <4>2. Len(cut) = m
          BY <1>1, <3>2
        <4>3. \A k \in 1..m : cut[k] = buffer[start + k]
          BY <1>1, <3>2
        <4> QED
          BY <4>1, <4>2, <4>3
      <3>5. cut = bytes
        <4>1. Len(bytes) = m
          BY DEF m
        <4>2. Len(cut) = Len(bytes) /\ \A k \in 1..Len(bytes) : cut[k] = bytes[k]
          BY <3>3, <3>4, <4>1
        <4> HIDE DEF cut
        <4> QED
          BY <3>4, <4>2
      <3> HIDE DEF cut
      <3>6. ReadBytes(pos) = Result(cut, start + m)
        BY <1>5, <2>1, <3>1 DEF cut, start
      <3>7. start + m = pos + (n + m)
        BY <2>2 DEF start
      <3> QED
        BY <1>6, <2>4, <3>5, <3>6, <3>7 DEF both, head
    <2> QED
      BY <2>3, <2>4
  <1> QED
    BY <1>7, <1>8

LEMMA BytesWritten ==
  ASSUME NEW f \in Fields, f.type = LengthDelimited
  PROVE  /\ f.bytes \in Seq(Bytes8) /\ Fits(Len(f.bytes)) /\ Len(f.bytes) \in Nat
         /\ WritePayload(f) = Groups(Len(f.bytes)) \o f.bytes
  <1>1. f.bytes \in Seq(Bytes8) /\ Fits(Len(f.bytes))
    BY WireAssumption DEF WellFormed, Bytes8
  <1>2. Len(f.bytes) \in Nat
    BY <1>1
  <1>3. WriteVarint(Len(f.bytes)) = Groups(Len(f.bytes))
    <2>1. Word64(Len(f.bytes)) = Len(f.bytes)
      BY <1>2 DEF Word64
    <2> QED
      BY <2>1 DEF WriteVarint
  <1> DEFINE joint == WriteVarint(Len(f.bytes)) \o f.bytes
  <1>4. WritePayload(f) = CASE f.type = Varint -> WriteVarint(f.value)
                            [] f.type \in {Fixed32, Fixed64} -> LittleEndian(f.value, Width(f.type))
                            [] f.type = LengthDelimited -> joint
    BY DEF WritePayload
  <1> HIDE DEF joint
  <1>5. WritePayload(f) = joint
    BY <1>4 DEF Varint, Fixed32, Fixed64, LengthDelimited
  <1> QED
    BY <1>1, <1>2, <1>3, <1>5 DEF joint

LEMMA PayloadTyped ==
  ASSUME NEW f \in Fields
  PROVE  WritePayload(f) \in Seq(Bytes8) /\ Len(WritePayload(f)) \in Nat
  <1>1. WellFormed(f)
    BY WireAssumption
  <1>2. CASE f.type = Varint
    <2>1. Word64(f.value) \in Nat
      BY <1>1, <1>2, WireAssumption DEF WellFormed, Word64
    <2>2. WritePayload(f) = Groups(Word64(f.value))
      BY <1>2 DEF WritePayload, WriteVarint, Varint, Fixed32, Fixed64, LengthDelimited
    <2> QED
      BY <2>1, <2>2, GroupsTyped
  <1>3. CASE f.type \in {Fixed32, Fixed64}
    <2>1. WritePayload(f) = LittleEndian(f.value, Width(f.type))
      BY <1>3 DEF WritePayload, Varint, Fixed32, Fixed64, LengthDelimited
    <2>2. f.value \in Nat /\ Width(f.type) \in Nat
      BY <1>1, <1>3 DEF WellFormed, Width
    <2> QED
      BY <2>1, <2>2, Fixed
  <1>4. CASE f.type = LengthDelimited
    <2>1. /\ f.bytes \in Seq(Bytes8) /\ Len(f.bytes) \in Nat
          /\ WritePayload(f) = Groups(Len(f.bytes)) \o f.bytes
      BY <1>4, BytesWritten
    <2>2. Groups(Len(f.bytes)) \in Seq(Bytes8)
      BY <2>1, GroupsTyped
    <2> DEFINE g == Groups(Len(f.bytes))
               b == f.bytes
    <2> HIDE DEF g, b
    <2>3. g \in Seq(Bytes8) /\ b \in Seq(Bytes8)
      BY <2>1, <2>2 DEF g, b
    <2>4. g \o b \in Seq(Bytes8) /\ Len(g \o b) \in Nat
      BY <2>3
    <2> QED
      BY <2>1, <2>4 DEF g, b
  <1> QED
    BY <1>1, <1>2, <1>3, <1>4 DEF WellFormed

LEMMA PayloadRead ==
  ASSUME buffer \in Seq(Bytes8), NEW pos \in 0..Len(buffer), NEW f \in Fields, Carried(pos, WritePayload(f))
  PROVE  ReadPayload(f.type, pos) = Found(pos, WritePayload(f), Value(f))
  <1>1. WellFormed(f)
    BY WireAssumption
  <1>2. CASE f.type = Varint
    <2> DEFINE w == Word64(f.value)
    <2>1. /\ f.value \in Int /\ -WordSize <= f.value /\ f.value < WordSize
          /\ WordSize \in Nat \ {0} /\ MostGroups \in Nat \ {0} /\ WordSize <= Place(Group)[MostGroups]
          /\ Group \in Nat
      BY <1>1, <1>2, WireAssumption DEF WellFormed
    <2>2. w \in Nat /\ w < WordSize
      BY <2>1 DEF Word64
    <2>3. w = (f.value + WordSize) % WordSize
      <3>1. CASE f.value < 0
        <4>1. w = f.value + WordSize /\ (f.value + WordSize) \in 0..(WordSize - 1)
          BY <2>1, <3>1 DEF Word64
        <4> DEFINE x == f.value + WordSize
        <4>2. x \in 0..(WordSize - 1) /\ w = x
          BY <4>1
        <4> HIDE DEF x, w
        <4>3. x % WordSize = x
          BY <2>1, <4>2
        <4> QED
          BY <4>2, <4>3 DEF x
      <3>2. CASE ~(f.value < 0)
        <4> DEFINE x == f.value
        <4>1. w = x /\ x \in 0..(WordSize - 1)
          BY <2>1, <3>2 DEF Word64
        <4> HIDE DEF x, w
        <4>2. (x + WordSize) % WordSize = x
          BY <2>1, <4>1
        <4> QED
          BY <4>1, <4>2 DEF x
      <3> QED
        BY <3>1, <3>2
    <2>4. Place(Group)[MostGroups] \in Nat
      BY <2>1, PlacesRise
    <2>5. Fits(w)
      <3> HIDE DEF w
      <3> QED
        BY <2>1, <2>2, <2>4 DEF Fits
    <2>6. WritePayload(f) = Groups(w) /\ Value(f) = w /\ ReadPayload(f.type, pos) = ReadVarint(pos)
      BY <1>2, <2>3 DEF WritePayload, WriteVarint, Value, ReadPayload, Varint, Fixed32, Fixed64, LengthDelimited
    <2> HIDE DEF w
    <2>7. Carried(pos, Groups(w))
      BY <2>6
    <2> QED
      BY <2>5, <2>6, <2>7, VarintRead
  <1>3. CASE f.type \in {Fixed32, Fixed64}
    <2> DEFINE width == Width(f.type)
               v == f.value
    <2>1. v \in Nat /\ width \in Nat /\ v < Place(ByteValues)[width]
      BY <1>1, <1>3 DEF WellFormed, Width
    <2>2. WritePayload(f) = LittleEndian(v, width) /\ Value(f) = v /\ ReadPayload(f.type, pos) = ReadFixed(pos, width)
      BY <1>3 DEF WritePayload, Value, ReadPayload, Varint, Fixed32, Fixed64, LengthDelimited
    <2> HIDE DEF width, v
    <2>3. Carried(pos, LittleEndian(v, width))
      BY <2>2
    <2> QED
      BY <2>1, <2>2, <2>3, FixedRead
  <1>4. CASE f.type = LengthDelimited
    <2> DEFINE b == f.bytes
    <2>1. b \in Seq(Bytes8) /\ Fits(Len(b)) /\ WritePayload(f) = Groups(Len(b)) \o b
      BY <1>4, BytesWritten
    <2>2. Value(f) = b /\ ReadPayload(f.type, pos) = ReadBytes(pos)
      BY <1>4 DEF Value, ReadPayload, Varint, Fixed32, Fixed64, LengthDelimited
    <2> HIDE DEF b
    <2>3. Carried(pos, Groups(Len(b)) \o b)
      BY <2>1
    <2> QED
      BY <2>1, <2>2, <2>3, BytesRead
  <1> QED
    BY <1>1, <1>2, <1>3, <1>4 DEF WellFormed

LEMMA FieldTyped ==
  ASSUME NEW f \in Fields
  PROVE  /\ f.no * 8 + f.type \in Nat /\ Fits(f.no * 8 + f.type) /\ f.no * 8 + f.type >= 8
         /\ (f.no * 8 + f.type) % 8 = f.type /\ (f.no * 8 + f.type) \div 8 = f.no
         /\ WriteField(f) = Groups(f.no * 8 + f.type) \o WritePayload(f)
         /\ WriteField(f) \in Seq(Bytes8) /\ Len(WriteField(f)) \in Nat \ {0}
  <1> DEFINE tag == f.no * 8 + f.type
  <1>1. f.no \in Nat \ {0} /\ f.type \in {0, 1, 2, 5} /\ Fits(tag)
    BY WireAssumption DEF WellFormed, Varint, Fixed64, LengthDelimited, Fixed32
  <1>2. tag \in Nat /\ tag >= 8 /\ tag % 8 = f.type /\ tag \div 8 = f.no
    <2> DEFINE no == f.no
               type == f.type
    <2>1. no \in Nat \ {0} /\ type \in {0, 1, 2, 5} /\ tag = no * 8 + type
      BY <1>1
    <2> HIDE DEF no, type, tag
    <2>2. tag \in Nat /\ tag >= 8 /\ tag % 8 = type /\ tag \div 8 = no
      BY <2>1
    <2> QED
      BY <2>2 DEF no, type
  <1> HIDE DEF tag
  <1>3. WriteField(f) = Groups(tag) \o WritePayload(f)
    <2>1. Word64(tag) = tag
      BY <1>2 DEF Word64
    <2>2. WriteTag(f.no, f.type) = Groups(tag)
      BY <2>1 DEF WriteTag, WriteVarint, tag
    <2> QED
      BY <2>2 DEF WriteField
  <1> DEFINE g == Groups(tag)
             p == WritePayload(f)
  <1>4. g \in Seq(Bytes8) /\ Len(g) \in Nat \ {0} /\ p \in Seq(Bytes8)
    BY <1>2, GroupsTyped, PayloadTyped
  <1> HIDE DEF g, p
  <1>5. g \o p \in Seq(Bytes8) /\ Len(g \o p) \in Nat \ {0}
    BY <1>4
  <1> QED
    BY <1>1, <1>2, <1>3, <1>5 DEF g, p, tag

LEMMA EachWritten ==
  ASSUME NEW fs \in Seq(Fields)
  PROVE  [k \in 1..Len(fs) |-> WriteField(fs[k])] \in Seq(Seq(Bytes8))
  <1>1. ASSUME NEW k \in 1..Len(fs) PROVE WriteField(fs[k]) \in Seq(Bytes8)
    <2>1. fs[k] \in Fields
      OBVIOUS
    <2> QED
      BY <2>1, FieldTyped
  <1>2. Len(fs) \in Nat
    OBVIOUS
  <1> QED
    BY <1>1, <1>2

LEMMA FieldsJoined ==
  ASSUME NEW fs \in Seq(Fields), NEW gs \in Seq(Fields)
  PROVE  /\ EncodeFields(fs) \in Seq(Bytes8) /\ EncodeFields(fs \o gs) = EncodeFields(fs) \o EncodeFields(gs)
  <1> DEFINE each(s) == [k \in 1..Len(s) |-> WriteField(s[k])]
  <1>1. each(fs) \in Seq(Seq(Bytes8)) /\ each(gs) \in Seq(Seq(Bytes8))
    BY EachWritten
  <1>2. each(fs \o gs) = each(fs) \o each(gs)
    OBVIOUS
  <1> QED
    BY <1>1, <1>2, FlattenTyped, FlattenJoined DEF EncodeFields

LEMMA FieldAlone ==
  ASSUME NEW f \in Fields
  PROVE  EncodeFields(<<f>>) = WriteField(f)
  <1>1. [k \in 1..Len(<<f>>) |-> WriteField(<<f>>[k])] = <<WriteField(f)>>
    OBVIOUS
  <1>2. WriteField(f) \in Seq(Bytes8)
    BY FieldTyped
  <1> QED
    BY <1>1, <1>2, FlattenSingle DEF EncodeFields

\* A message is what is behind some of its fields, these, and the next one.
SplitsAt(fs, n, rest) ==
  LET head == EncodeFields(SubSeq(fs, 1, n))
  IN /\ head \in Seq(Bytes8)
     /\ n = Len(fs) => EncodeFields(fs) = head
     /\ n < Len(fs) =>
          /\ EncodeFields(SubSeq(fs, 1, n + 1)) = head \o WriteField(fs[n + 1])
          /\ EncodeFields(fs) = (head \o WriteField(fs[n + 1])) \o rest

LEMMA MessageSplit ==
  ASSUME NEW fs \in Seq(Fields), NEW n \in 0..Len(fs)
  PROVE  \E rest \in Seq(Bytes8) : SplitsAt(fs, n, rest)
  <1> DEFINE a == SubSeq(fs, 1, n)
             m == Len(fs)
  <1>1. m \in Nat /\ n \in Nat /\ n <= m
    OBVIOUS
  <1>2. a \in Seq(Fields) /\ EncodeFields(a) \in Seq(Bytes8)
    <2>1. a \in Seq(Fields)
      OBVIOUS
    <2> HIDE DEF a
    <2> QED
      BY <2>1, FieldsJoined
  <1>3. CASE n = m
    <2>1. a = fs
      BY <1>3
    <2>2. <<>> \in Seq(Bytes8) /\ ~(n < Len(fs))
      BY <1>3
    <2> HIDE DEF a
    <2> QED
      BY <1>2, <2>1, <2>2 DEF a, SplitsAt
  <1>4. CASE n < m
    <2> DEFINE f == fs[n + 1]
               c == SubSeq(fs, n + 2, m)
               b == SubSeq(fs, 1, n + 1)
    <2>1. f \in Fields /\ c \in Seq(Fields) /\ b \in Seq(Fields) /\ <<f>> \in Seq(Fields)
      <3>1. n + 1 \in 1..Len(fs)
        BY <1>1, <1>4
      <3>2. f \in Fields
        BY <3>1
      <3>3. c \in Seq(Fields)
        BY <1>1, <1>4
      <3>4. b \in Seq(Fields)
        BY <1>1, <1>4
      <3>5. <<f>> \in Seq(Fields)
        BY <3>2
      <3> QED
        BY <3>2, <3>3, <3>4, <3>5
    <2>2. b = a \o <<f>>
      <3> HIDE DEF f, m
      <3>1. /\ Len(a) = n /\ \A k \in 1..n : a[k] = fs[k]
            /\ Len(b) = n + 1 /\ \A k \in 1..(n + 1) : b[k] = fs[k]
        BY <1>1, <1>4 DEF m
      <3> HIDE DEF a, b
      <3>2. /\ a \o <<f>> \in Seq(Fields) /\ Len(a \o <<f>>) = n + 1
            /\ \A k \in 1..(n + 1) : (a \o <<f>>)[k] = IF k <= n THEN a[k] ELSE f
        BY <1>1, <1>2, <2>1, <3>1
      <3> DEFINE d == a \o <<f>>
      <3> HIDE DEF d
      <3>3. /\ d \in Seq(Fields) /\ Len(d) = Len(b)
            /\ \A k \in 1..Len(b) : b[k] = d[k]
        BY <1>1, <3>1, <3>2 DEF d, f
      <3>4. b = d
        BY <2>1, <3>3, SameSequence
      <3> QED
        BY <3>4 DEF d
    <2>3. fs = b \o c
      <3> HIDE DEF f, m
      <3>1. /\ Len(b) = n + 1 /\ \A k \in 1..(n + 1) : b[k] = fs[k]
            /\ Len(c) = m - (n + 1) /\ \A k \in 1..(m - (n + 1)) : c[k] = fs[k + (n + 1)]
        BY <1>1, <1>4 DEF m
      <3> DEFINE d == b \o c
      <3>2. /\ d \in Seq(Fields) /\ Len(d) = Len(b) + Len(c)
            /\ \A k \in 1..(Len(b) + Len(c)) : d[k] = IF k <= Len(b) THEN b[k] ELSE c[k - Len(b)]
        <4> HIDE DEF b, c
        <4> QED
          BY <2>1, Concatenated
      <3> HIDE DEF b, c, d
      <3>3. Len(d) = Len(fs) /\ \A k \in 1..Len(fs) : fs[k] = d[k]
        <4>1. Len(d) = m
          BY <1>1, <1>4, <3>1, <3>2
        <4>2. ASSUME NEW k \in 1..m PROVE fs[k] = d[k]
          <5>1. CASE k <= n + 1
            <6>1. k \in 1..(n + 1) /\ k \in 1..(Len(b) + Len(c))
              BY <1>1, <1>4, <3>1, <5>1
            <6> QED
              BY <3>1, <3>2, <5>1, <6>1
          <5>2. CASE ~(k <= n + 1)
            <6> DEFINE j == k - (n + 1)
            <6>1. j \in 1..(m - (n + 1)) /\ j + (n + 1) = k /\ k \in 1..(Len(b) + Len(c))
              BY <1>1, <1>4, <3>1, <5>2
            <6>2. d[k] = c[j]
              BY <3>1, <3>2, <5>2, <6>1
            <6>3. c[j] = fs[j + (n + 1)]
              BY <3>1, <6>1
            <6> QED
              BY <6>1, <6>2, <6>3
          <5> QED
            BY <5>1, <5>2
        <4> QED
          BY <4>1, <4>2 DEF m
      <3>4. fs = d
        BY <3>2, <3>3, SameSequence
      <3> QED
        BY <3>4 DEF d
    <2> HIDE DEF a, b, c, f
    <2>4. EncodeFields(b) = EncodeFields(a) \o WriteField(f)
      BY <1>2, <2>1, <2>2, FieldsJoined, FieldAlone
    <2>5. EncodeFields(fs) = EncodeFields(b) \o EncodeFields(c) /\ EncodeFields(c) \in Seq(Bytes8)
      BY <2>1, <2>3, FieldsJoined
    <2>6. n < Len(fs) /\ n # Len(fs)
      BY <1>1, <1>4
    <2>7. EncodeFields(fs) = (EncodeFields(a) \o WriteField(f)) \o EncodeFields(c)
      BY <2>4, <2>5
    <2> DEFINE rest == EncodeFields(c)
    <2>8. rest \in Seq(Bytes8) /\ EncodeFields(fs) = (EncodeFields(a) \o WriteField(f)) \o rest
      BY <2>5, <2>7
    <2> HIDE DEF rest
    <2>9. SplitsAt(fs, n, rest)
      BY <1>2, <2>4, <2>6, <2>8 DEF a, b, f, SplitsAt
    <2> QED
      BY <2>8, <2>9
  <1> QED
    BY <1>1, <1>3, <1>4

LEMMA NextCarried ==
  ASSUME buffer \in Seq(Bytes8), NEW head \in Seq(Bytes8), NEW next \in Seq(Bytes8), NEW rest \in Seq(Bytes8),
         NEW all, all = (head \o next) \o rest, Len(buffer) <= Len(all), \A k \in 1..Len(buffer) : buffer[k] = all[k]
  PROVE  Carried(Len(head), next) /\ Len(head) + Len(next) <= Len(all)
  <1> DEFINE both == head \o next
             n == Len(head)
             m == Len(next)
  <1>1. /\ both \in Seq(Bytes8) /\ Len(both) = n + m /\ n \in Nat /\ m \in Nat
        /\ \A k \in 1..(n + m) : both[k] = IF k <= n THEN head[k] ELSE next[k - n]
    BY Concatenated
  <1> HIDE DEF both
  <1>2. /\ Len(all) = Len(both) + Len(rest) /\ Len(rest) \in Nat
        /\ \A k \in 1..(Len(both) + Len(rest)) : all[k] = IF k <= Len(both) THEN both[k] ELSE rest[k - Len(both)]
    <2> DEFINE whole == both \o rest
    <2>1. all = whole
      BY DEF both
    <2>2. /\ whole \in Seq(Bytes8) /\ Len(whole) = Len(both) + Len(rest) /\ Len(both) \in Nat /\ Len(rest) \in Nat
          /\ \A k \in 1..(Len(both) + Len(rest)) : whole[k] = IF k <= Len(both) THEN both[k] ELSE rest[k - Len(both)]
      <3>1. both \in Seq(Bytes8)
        BY <1>1
      <3> QED
        BY <3>1, Concatenated
    <2> HIDE DEF whole
    <2> QED
      BY <2>1, <2>2
  <1> HIDE DEF n, m
  <1>3. ASSUME NEW k \in 1..m, n + k <= Len(buffer) PROVE buffer[n + k] = next[k]
    <2>1. Len(buffer) \in Nat
      OBVIOUS
    <2>2. /\ n + k \in 1..Len(buffer) /\ n + k \in 1..(n + m) /\ ~(n + k <= n) /\ (n + k) - n = k
          /\ n + k \in 1..(Len(both) + Len(rest)) /\ n + k <= Len(both)
      BY <1>1, <1>2, <1>3, <2>1
    <2>3. buffer[n + k] = all[n + k]
      BY <2>2
    <2>4. all[n + k] = both[n + k]
      BY <1>2, <2>2
    <2>5. both[n + k] = next[k]
      BY <1>1, <2>2
    <2> QED
      BY <2>3, <2>4, <2>5
  <1>4. Carried(n, next)
    BY <1>3 DEF Carried, m
  <1>5. n + m <= Len(all)
    BY <1>1, <1>2
  <1> QED
    BY <1>4, <1>5 DEF n, m

Finds == {AsRead(f) : f \in Fields}

\* The buffer is as much of the message as there is; the reader is behind the
\* fields it has read, which are the first of those written.
WireInv ==
  /\ fieldsWritten \in Seq(Fields)
  /\ buffer \in Seq(Bytes8) /\ Len(buffer) <= Len(Encoded)
  /\ \A k \in 1..Len(buffer) : buffer[k] = Encoded[k]
  /\ fieldsRead \in Seq(Finds) /\ Len(fieldsRead) <= Len(fieldsWritten)
  /\ \A k \in 1..Len(fieldsRead) : fieldsRead[k] = AsRead(fieldsWritten[k])
  /\ offset = Len(EncodeFields(SubSeq(fieldsWritten, 1, Len(fieldsRead)))) /\ offset <= Len(buffer)
  /\ reading = "thrown" => Len(buffer) < Len(Encoded)
  /\ reading = "end" => offset = Len(buffer)

\* Where the reader stands, and what it has before it.
LEMMA Standing ==
  ASSUME WireInv
  PROVE  /\ offset \in 0..Len(buffer) /\ Len(fieldsRead) \in 0..Len(fieldsWritten)
         /\ Len(fieldsRead) = Len(fieldsWritten) => offset = Len(Encoded)
         /\ Len(fieldsRead) < Len(fieldsWritten) =>
              LET f == fieldsWritten[Len(fieldsRead) + 1]
              IN /\ f \in Fields /\ Carried(offset, WriteField(f))
                 /\ offset + Len(WriteField(f)) <= Len(Encoded)
                 /\ Len(EncodeFields(SubSeq(fieldsWritten, 1, Len(fieldsRead) + 1))) = offset + Len(WriteField(f))
  <1> DEFINE n == Len(fieldsRead)
             head == EncodeFields(SubSeq(fieldsWritten, 1, n))
             f == fieldsWritten[n + 1]
  <1>1. /\ fieldsWritten \in Seq(Fields) /\ buffer \in Seq(Bytes8) /\ fieldsRead \in Seq(Finds)
        /\ n <= Len(fieldsWritten) /\ offset = Len(head) /\ offset <= Len(buffer) /\ Len(buffer) <= Len(Encoded)
        /\ \A k \in 1..Len(buffer) : buffer[k] = Encoded[k]
    BY DEF WireInv
  <1>2. n \in 0..Len(fieldsWritten) /\ Len(fieldsWritten) \in Nat /\ Len(buffer) \in Nat
    BY <1>1
  <1>3. PICK rest \in Seq(Bytes8) : SplitsAt(fieldsWritten, n, rest)
    <2> HIDE DEF n
    <2> QED
      BY <1>1, <1>2, MessageSplit
  <1>4. /\ head \in Seq(Bytes8)
        /\ n = Len(fieldsWritten) => Encoded = head
        /\ n < Len(fieldsWritten) =>
             /\ EncodeFields(SubSeq(fieldsWritten, 1, n + 1)) = head \o WriteField(f)
             /\ Encoded = (head \o WriteField(f)) \o rest
    BY <1>3 DEF SplitsAt, Encoded
  <1> HIDE DEF head
  <1>5. offset \in 0..Len(buffer)
    BY <1>1, <1>2, <1>4
  <1>6. ASSUME n < Len(fieldsWritten)
        PROVE  /\ f \in Fields /\ Carried(offset, WriteField(f))
               /\ offset + Len(WriteField(f)) <= Len(Encoded)
               /\ Len(EncodeFields(SubSeq(fieldsWritten, 1, n + 1))) = offset + Len(WriteField(f))
    <2>1. f \in Fields
      <3>1. n + 1 \in 1..Len(fieldsWritten)
        BY <1>2, <1>6
      <3> HIDE DEF n
      <3> QED
        BY <1>1, <3>1
    <2> DEFINE w == WriteField(f)
    <2>2. w \in Seq(Bytes8)
      BY <2>1, FieldTyped
    <2>3. Encoded = (head \o w) \o rest /\ EncodeFields(SubSeq(fieldsWritten, 1, n + 1)) = head \o w
      BY <1>4, <1>6
    <2> HIDE DEF w, n
    <2>4. Carried(Len(head), w) /\ Len(head) + Len(w) <= Len(Encoded)
      BY <1>1, <1>4, <2>2, <2>3, NextCarried
    <2>5. Len(head \o w) = Len(head) + Len(w)
      BY <1>4, <2>2, Concatenated
    <2> QED
      BY <1>1, <2>1, <2>3, <2>4, <2>5 DEF w
  <1> QED
    BY <1>1, <1>2, <1>4, <1>5, <1>6

\* A turn of the reader on a message that goes on.
LEMMA FieldFound ==
  ASSUME buffer \in Seq(Bytes8), NEW f \in Fields, offset \in 0..Len(buffer), Carried(offset, WriteField(f)), ReadField
  PROVE  \/ offset + Len(WriteField(f)) > Len(buffer) /\ ReadFails
         \/ /\ offset + Len(WriteField(f)) <= Len(buffer)
            /\ fieldsRead' = Append(fieldsRead, AsRead(f)) /\ offset' = offset + Len(WriteField(f))
            /\ UNCHANGED <<fieldsWritten, buffer, reading>>
  <1> DEFINE v == f.no * 8 + f.type
             head == Groups(v)
             load == WritePayload(f)
             tag == ReadVarint(offset)
             payload == ReadPayload(tag.value % 8, tag.next)
             n == Len(head)
             m == Len(load)
  <1>1. /\ v \in Nat /\ Fits(v) /\ v >= 8 /\ v % 8 = f.type /\ v \div 8 = f.no
        /\ WriteField(f) = head \o load
    BY FieldTyped
  <1>2. head \in Seq(Bytes8) /\ load \in Seq(Bytes8)
    BY <1>1, GroupsTyped, PayloadTyped
  <1>3. Len(buffer) \in Nat /\ offset \in Nat
    OBVIOUS
  <1>4. /\ Carried(offset, head) /\ Carried(offset + n, load)
        /\ Len(WriteField(f)) = n + m /\ n \in Nat /\ m \in Nat
    <2> HIDE DEF head, load
    <2>1. Carried(offset, head \o load)
      BY <1>1
    <2> QED
      BY <1>1, <1>2, <1>3, <2>1, Apart
  <1>5. tag = Found(offset, head, v)
    BY <1>1, <1>4, VarintRead
  <1>6. IF ~tag.ok \/ (tag.ok /\ tag.value < 8) THEN ReadFails
        ELSE IF ~payload.ok THEN ReadFails
             ELSE /\ fieldsRead' = Append(fieldsRead, [no |-> tag.value \div 8, type |-> tag.value % 8, got |-> payload.value])
                  /\ offset' = payload.next
                  /\ UNCHANGED <<fieldsWritten, buffer, reading>>
    BY DEF ReadField
  <1> HIDE DEF head, load, tag, v
  <1>7. CASE ~(offset + n <= Len(buffer))
    <2>1. ~tag.ok
      BY <1>5, <1>7 DEF Found, Thrown
    <2>2. offset + Len(WriteField(f)) > Len(buffer)
      BY <1>3, <1>4, <1>7
    <2> QED
      BY <1>6, <2>1, <2>2
  <1>8. CASE offset + n <= Len(buffer)
    <2> DEFINE pos == offset + n
    <2>1. tag.ok /\ tag.value = v /\ tag.next = pos
      BY <1>5, <1>8 DEF Found, Result
    <2>2. pos \in 0..Len(buffer)
      BY <1>3, <1>4, <1>8
    <2>3. payload = Found(pos, load, Value(f))
      <3>1. payload = ReadPayload(f.type, pos)
        BY <1>1, <2>1
      <3> HIDE DEF pos, payload
      <3>2. ReadPayload(f.type, pos) = Found(pos, load, Value(f))
        BY <1>4, <2>2, PayloadRead DEF pos, load
      <3> QED
        BY <3>1, <3>2
    <2> HIDE DEF payload
    <2>4. ~(~tag.ok \/ (tag.ok /\ tag.value < 8))
      BY <1>1, <2>1
    <2>5. pos + m = offset + Len(WriteField(f))
      BY <1>3, <1>4
    <2>6. CASE ~(pos + m <= Len(buffer))
      <3>1. ~payload.ok
        BY <2>3, <2>6 DEF Found, Thrown
      <3>2. offset + Len(WriteField(f)) > Len(buffer)
        BY <1>3, <1>4, <2>5, <2>6
      <3> QED
        BY <1>6, <2>4, <3>1, <3>2
    <2>7. CASE pos + m <= Len(buffer)
      <3>1. payload.ok /\ payload.value = Value(f) /\ payload.next = pos + m
        BY <2>3, <2>7 DEF Found, Result
      <3>2. [no |-> tag.value \div 8, type |-> tag.value % 8, got |-> payload.value] = AsRead(f)
        BY <1>1, <2>1, <3>1 DEF AsRead
      <3>3. offset + Len(WriteField(f)) <= Len(buffer)
        BY <2>5, <2>7
      <3> HIDE DEF pos
      <3> QED
        BY <1>6, <2>4, <2>5, <3>1, <3>2, <3>3
    <2> QED
      BY <2>6, <2>7
  <1> QED
    BY <1>7, <1>8


LEMMA ReadsOn ==
  ASSUME WireInv, ReadField
  PROVE  WireInv'
  <1> DEFINE n == Len(fieldsRead)
             f == fieldsWritten[n + 1]
             w == Len(WriteField(f))
  <1>1. /\ fieldsWritten \in Seq(Fields) /\ buffer \in Seq(Bytes8) /\ Len(buffer) <= Len(Encoded)
        /\ \A k \in 1..Len(buffer) : buffer[k] = Encoded[k]
        /\ fieldsRead \in Seq(Finds) /\ \A k \in 1..n : fieldsRead[k] = AsRead(fieldsWritten[k])
        /\ offset <= Len(buffer)
    BY DEF WireInv
  <1>2. /\ offset \in 0..Len(buffer) /\ n \in 0..Len(fieldsWritten)
        /\ n = Len(fieldsWritten) => offset = Len(Encoded)
        /\ n < Len(fieldsWritten) =>
             /\ f \in Fields /\ Carried(offset, WriteField(f)) /\ offset + w <= Len(Encoded)
             /\ Len(EncodeFields(SubSeq(fieldsWritten, 1, n + 1))) = offset + w
    BY Standing
  <1>3. Len(fieldsWritten) \in Nat /\ Len(buffer) \in Nat /\ offset \in Nat
    BY <1>1, <1>2
  <1>4. offset < Len(buffer) /\ reading = "reading"
    BY DEF ReadField
  <1>5. n < Len(fieldsWritten)
    <2>1. CASE n = Len(fieldsWritten)
      <3>1. Len(buffer) <= offset
        BY <1>1, <1>2, <2>1
      <3> QED
        BY <1>3, <1>4, <3>1
    <2> HIDE DEF n
    <2> QED
      BY <1>2, <1>3, <2>1
  <1>6. f \in Fields /\ Carried(offset, WriteField(f)) /\ offset + w <= Len(Encoded) /\ w \in Nat
    <2>1. f \in Fields
      BY <1>2, <1>5
    <2>2. w \in Nat
      BY <2>1, FieldTyped
    <2> QED
      BY <1>2, <1>5, <2>2
  <1>7. \/ offset + w > Len(buffer) /\ ReadFails
        \/ /\ offset + w <= Len(buffer)
           /\ fieldsRead' = Append(fieldsRead, AsRead(f)) /\ offset' = offset + w
           /\ UNCHANGED <<fieldsWritten, buffer, reading>>
    <2> HIDE DEF f
    <2> QED
      BY <1>1, <1>2, <1>6, FieldFound
  <1>8. CASE offset + w > Len(buffer) /\ ReadFails
    <2>1. UNCHANGED <<fieldsWritten, buffer, offset, fieldsRead>> /\ reading' = "thrown"
      BY <1>8 DEF ReadFails
    <2>2. Encoded' = Encoded
      BY <2>1 DEF Encoded
    <2>3. Len(buffer) < Len(Encoded)
      <3>1. Len(Encoded) \in Nat
        <4>1. EncodeFields(fieldsWritten) \in Seq(Bytes8)
          BY <1>1, FieldsJoined
        <4> QED
          BY <4>1 DEF Encoded
      <3> HIDE DEF w
      <3> QED
        BY <1>3, <1>6, <1>8, <3>1
    <2> QED
      BY <2>1, <2>2, <2>3 DEF WireInv
  <1>9. CASE /\ offset + w <= Len(buffer)
             /\ fieldsRead' = Append(fieldsRead, AsRead(f)) /\ offset' = offset + w
             /\ UNCHANGED <<fieldsWritten, buffer, reading>>
    <2>1. Encoded' = Encoded
      BY <1>9 DEF Encoded
    <2> DEFINE found == AsRead(f)
    <2>2. found \in Finds
      BY <1>6 DEF Finds
    <2> HIDE DEF found
    <2>3. /\ Append(fieldsRead, found) \in Seq(Finds) /\ Len(Append(fieldsRead, found)) = n + 1
          /\ \A k \in 1..(n + 1) : Append(fieldsRead, found)[k] = IF k = n + 1 THEN found ELSE fieldsRead[k]
      BY <1>1, <2>2, Appended
    <2>4. fieldsRead' = Append(fieldsRead, found)
      BY <1>9 DEF found
    <2>5. \A k \in 1..(n + 1) : k # n + 1 => k \in 1..n
      BY <1>2
    <2>6. \A k \in 1..(n + 1) : fieldsRead'[k] = AsRead(fieldsWritten[k])
      <3> SUFFICES ASSUME NEW k \in 1..(n + 1) PROVE fieldsRead'[k] = AsRead(fieldsWritten[k])
        OBVIOUS
      <3>1. CASE k = n + 1
        BY <2>3, <2>4, <3>1 DEF found
      <3>2. CASE k # n + 1
        BY <1>1, <2>3, <2>4, <2>5, <3>2
      <3> QED
        BY <3>1, <3>2
    <2>7. fieldsRead' \in Seq(Finds) /\ Len(fieldsRead') = n + 1
      BY <2>3, <2>4
    <2>8. n + 1 <= Len(fieldsWritten)
      BY <1>2, <1>3, <1>5
    <2>9. offset' = Len(EncodeFields(SubSeq(fieldsWritten, 1, n + 1)))
      BY <1>2, <1>5, <1>9
    <2>10. offset' <= Len(buffer)
      BY <1>9
    <2> HIDE DEF n, f, w
    <2>11. fieldsWritten' = fieldsWritten /\ buffer' = buffer /\ reading' = "reading"
      BY <1>4, <1>9
    <2>12. /\ fieldsWritten' \in Seq(Fields) /\ buffer' \in Seq(Bytes8) /\ Len(buffer') <= Len(Encoded')
           /\ \A k \in 1..Len(buffer') : buffer'[k] = Encoded'[k]
      BY <1>1, <2>1, <2>11
    <2>13. /\ fieldsRead' \in Seq(Finds) /\ Len(fieldsRead') <= Len(fieldsWritten')
           /\ \A k \in 1..Len(fieldsRead') : fieldsRead'[k] = AsRead(fieldsWritten'[k])
      BY <2>6, <2>7, <2>8, <2>11
    <2>14. /\ offset' = Len(EncodeFields(SubSeq(fieldsWritten', 1, Len(fieldsRead'))))
           /\ offset' <= Len(buffer')
      BY <2>7, <2>9, <2>10, <2>11
    <2> QED
      BY <2>11, <2>12, <2>13, <2>14 DEF WireInv
  <1> QED
    BY <1>7, <1>8, <1>9

LEMMA WireInvInit == WireInit => WireInv
  <1> SUFFICES ASSUME WireInit PROVE WireInv
    OBVIOUS
  <1>1. /\ fieldsWritten \in Seq(Fields) /\ offset = 0 /\ fieldsRead = <<>> /\ reading = "reading"
    <2>1. PICK m \in 0..FieldLimit : fieldsWritten \in [1..m -> Fields]
      <3>1. fieldsWritten \in BoundedSeq(Fields, FieldLimit)
        BY DEF WireInit
      <3> QED
        BY <3>1 DEF BoundedSeq, SeqOf
    <2>2. m \in Nat
      BY WireAssumption
    <2>3. fieldsWritten \in Seq(Fields)
      BY <2>1, <2>2
    <2> QED
      BY <2>3 DEF WireInit
  <1>2. Encoded \in Seq(Bytes8)
    BY <1>1, FieldsJoined DEF Encoded
  <1>3. PICK there \in 0..Len(Encoded) : buffer = SubSeq(Encoded, 1, there)
    BY DEF WireInit
  <1>4. buffer \in Seq(Bytes8) /\ Len(buffer) <= Len(Encoded) /\ \A k \in 1..Len(buffer) : buffer[k] = Encoded[k]
    <2> DEFINE all == Encoded
    <2> HIDE DEF all
    <2>1. all \in Seq(Bytes8) /\ there \in 0..Len(all) /\ buffer = SubSeq(all, 1, there)
      BY <1>2, <1>3 DEF all
    <2>2. 1 \in 1..(Len(all) + 1) /\ there \in (1 - 1)..Len(all)
      BY <2>1
    <2>3. /\ buffer \in Seq(Bytes8) /\ Len(buffer) = there - 1 + 1
          /\ \A k \in 1..(there - 1 + 1) : buffer[k] = all[1 + k - 1]
      BY <2>1, <2>2, CutOut
    <2>4. there - 1 + 1 = there /\ \A k \in 1..there : 1 + k - 1 = k
      BY <2>1
    <2>5. there <= Len(all) /\ Len(buffer) = there /\ \A k \in 1..there : buffer[k] = all[k]
      BY <2>1, <2>3, <2>4
    <2> QED
      BY <2>3, <2>5 DEF all
  <1>5. Len(EncodeFields(SubSeq(fieldsWritten, 1, Len(fieldsRead)))) = 0
    <2> DEFINE part == SubSeq(fieldsWritten, 1, Len(fieldsRead))
    <2>1. part = <<>>
      BY <1>1
    <2>2. EncodeFields(<<>>) = <<>>
      <3> DEFINE empty == <<>>
                 each == [k \in 1..Len(empty) |-> WriteField(empty[k])]
      <3>1. each = <<>>
        OBVIOUS
      <3> HIDE DEF each
      <3>2. FlattenSeq(each) = <<>>
        BY <3>1, FlattenNothing
      <3> HIDE DEF empty
      <3>3. EncodeFields(empty) = <<>>
        BY <3>2 DEF EncodeFields, each
      <3> QED
        BY <3>3 DEF empty
    <2>3. Len(<<>>) = 0
      OBVIOUS
    <2> HIDE DEF part
    <2>4. Len(EncodeFields(part)) = 0
      BY <2>1, <2>2, <2>3
    <2> QED
      BY <2>4 DEF part
  <1>6. /\ fieldsRead \in Seq(Finds) /\ Len(fieldsRead) = 0 /\ Len(fieldsRead) <= Len(fieldsWritten)
        /\ \A k \in 1..Len(fieldsRead) : fieldsRead[k] = AsRead(fieldsWritten[k])
        /\ offset <= Len(buffer)
    BY <1>1, <1>4
  <1> QED
    BY <1>1, <1>4, <1>5, <1>6 DEF WireInv

LEMMA WireInvStep ==
  ASSUME WireInv, [WireNext]_wireVars
  PROVE  WireInv'
  <1>1. CASE ReadField
    BY <1>1, ReadsOn
  <1>2. CASE ReadEnd
    <2>1. UNCHANGED <<fieldsWritten, buffer, offset, fieldsRead>> /\ reading' = "end" /\ offset = Len(buffer)
      BY <1>2 DEF ReadEnd
    <2>2. Encoded' = Encoded
      BY <2>1 DEF Encoded
    <2> QED
      BY <2>1, <2>2 DEF WireInv
  <1>3. CASE UNCHANGED wireVars
    <2>1. Encoded' = Encoded
      BY <1>3 DEF wireVars, Encoded
    <2> QED
      BY <1>3, <2>1 DEF WireInv, wireVars
  <1> QED
    BY <1>1, <1>2, <1>3 DEF WireNext

\* However a message is cut, the reader stands behind the fields it has read,
\* which are the first of those written, and what it stands before is the next
\* one, as far as it is there (reader.ts, writer.ts, for messages of any length).
THEOREM WireInvariance == WireSpec => []WireInv
<1> QED
  BY WireInvInit, WireInvStep, PTL DEF WireSpec

LEMMA Faithful ==
  ASSUME WireInv
  PROVE  WireFaithful
  <1> DEFINE n == Len(fieldsRead)
             m == Len(fieldsWritten)
             each == [k \in 1..m |-> AsRead(fieldsWritten[k])]
  <1>1. /\ fieldsWritten \in Seq(Fields) /\ buffer \in Seq(Bytes8) /\ Len(buffer) <= Len(Encoded)
        /\ \A k \in 1..Len(buffer) : buffer[k] = Encoded[k]
        /\ fieldsRead \in Seq(Finds) /\ n <= m
        /\ \A k \in 1..n : fieldsRead[k] = AsRead(fieldsWritten[k])
        /\ reading = "thrown" => Len(buffer) < Len(Encoded)
        /\ reading = "end" => offset = Len(buffer)
    BY DEF WireInv
  <1>2. n \in Nat /\ m \in Nat /\ n \in 0..m
    BY <1>1
  <1>3. IsPrefix(fieldsRead, each)
    <2>1. each \in Seq(Finds) /\ Len(each) = m /\ \A k \in 1..m : each[k] = AsRead(fieldsWritten[k])
      <3>1. \A k \in 1..m : AsRead(fieldsWritten[k]) \in Finds
        BY <1>1 DEF Finds
      <3> QED
        BY <1>2, <3>1
    <2> HIDE DEF each, n, m
    <2> DEFINE c == SubSeq(fieldsRead, 1, n)
               d == SubSeq(each, 1, n)
    <2>2. c \in Seq(Finds) /\ Len(c) = n /\ \A k \in 1..n : c[k] = fieldsRead[k]
      BY <1>1, <1>2 DEF n
    <2>3. d \in Seq(Finds) /\ Len(d) = n /\ \A k \in 1..n : d[k] = each[k]
      BY <1>2, <2>1
    <2> HIDE DEF c, d
    <2>4. \A k \in 1..n : k \in 1..m
      BY <1>2
    <2>5. c = d
      <3>1. \A k \in 1..Len(c) : c[k] = d[k]
        BY <1>1, <2>1, <2>2, <2>3, <2>4 DEF n
      <3> QED
        BY <2>2, <2>3, <3>1, SameSequence
    <2> QED
      BY <1>1, <2>1, <2>5 DEF IsPrefix, c, d, n
  <1>4. /\ offset \in 0..Len(buffer)
        /\ n < m => /\ fieldsWritten[n + 1] \in Fields
                    /\ offset + Len(WriteField(fieldsWritten[n + 1])) <= Len(Encoded)
    BY Standing
  <1>5. ASSUME reading = "end", buffer = Encoded PROVE n = m
    <2>1. SUFFICES ASSUME n < m PROVE FALSE
      BY <1>2
    <2>2. Len(WriteField(fieldsWritten[n + 1])) \in Nat \ {0}
      BY <1>4, <2>1, FieldTyped
    <2> DEFINE w == Len(WriteField(fieldsWritten[n + 1]))
    <2>3. w \in Nat \ {0} /\ offset + w <= Len(buffer) /\ offset = Len(buffer) /\ Len(buffer) \in Nat
      BY <1>1, <1>4, <1>5, <2>1, <2>2
    <2> HIDE DEF w
    <2> QED
      BY <2>3
  <1>6. ASSUME reading = "end" PROVE buffer = EncodeFields(SubSeq(fieldsWritten, 1, n))
    <2> DEFINE head == EncodeFields(SubSeq(fieldsWritten, 1, n))
    <2>1. Len(buffer) = Len(head)
      BY <1>6 DEF WireInv
    <2>2. PICK rest \in Seq(Bytes8) : SplitsAt(fieldsWritten, n, rest)
      <3> HIDE DEF n
      <3> QED
        BY <1>1, <1>2, MessageSplit DEF m
    <2>3. head \in Seq(Bytes8) /\ \E tail \in Seq(Bytes8) : Encoded = head \o tail
      <3>1. CASE n = m
        <4>1. Encoded = head /\ head \in Seq(Bytes8)
          BY <2>2, <3>1 DEF SplitsAt, Encoded
        <4> HIDE DEF head
        <4>2. head \o <<>> = head /\ <<>> \in Seq(Bytes8)
          BY <4>1
        <4> QED
          BY <4>1, <4>2
      <3>2. CASE n < m
        <4> DEFINE w == WriteField(fieldsWritten[n + 1])
        <4>1. head \in Seq(Bytes8) /\ Encoded = (head \o w) \o rest
          BY <2>2, <3>2 DEF SplitsAt, Encoded
        <4>2. w \in Seq(Bytes8)
          BY <1>4, <3>2, FieldTyped
        <4> HIDE DEF head, w
        <4>3. (head \o w) \o rest = head \o (w \o rest) /\ w \o rest \in Seq(Bytes8)
          BY <4>1, <4>2, Associative
        <4> DEFINE tail == w \o rest
        <4>4. tail \in Seq(Bytes8) /\ Encoded = head \o tail
          BY <4>1, <4>3
        <4> HIDE DEF tail
        <4> QED
          BY <4>1, <4>4
      <3> HIDE DEF head
      <3>3. n = m \/ n < m
        BY <1>2
      <3> QED
        BY <3>1, <3>2, <3>3
    <2> HIDE DEF head
    <2>4. PICK tail \in Seq(Bytes8) : Encoded = head \o tail
      BY <2>3
    <2>5. \A k \in 1..Len(head) : Encoded[k] = head[k]
      <3>1. /\ Len(head) \in Nat /\ Len(tail) \in Nat
            /\ \A k \in 1..(Len(head) + Len(tail)) : (head \o tail)[k] = IF k <= Len(head) THEN head[k] ELSE tail[k - Len(head)]
        BY <2>3, Concatenated
      <3>2. \A k \in 1..Len(head) : k \in 1..(Len(head) + Len(tail)) /\ k <= Len(head)
        BY <3>1
      <3> QED
        BY <2>4, <3>1, <3>2
    <2>6. \A k \in 1..Len(buffer) : buffer[k] = head[k]
      BY <1>1, <2>1, <2>5
    <2> QED
      BY <1>1, <2>1, <2>3, <2>6, SameSequence DEF head
  <1> QED
    BY <1>1, <1>3, <1>5, <1>6 DEF WireFaithful

\* What is read is what was written, field by field, whatever the fields and
\* however many; a message cut at any byte gives its whole fields or an error
\* (reader.ts, writer.ts).
THEOREM WireIsFaithful == WireSpec => []WireFaithful
  BY WireInvariance, Faithful, PTL

-----------------------------------------------------------------------------
(* Members of a set of numbers, in their order.                             *)

LEMMA OrderUnfolds ==
  ASSUME NEW S
  PROVE  /\ InOrder(S) \in [Nat -> Seq(Nat)] /\ InOrder(S)[0] = <<>>
         /\ \A n \in Nat : InOrder(S)[n + 1] = IF n \in S THEN Append(InOrder(S)[n], n) ELSE InOrder(S)[n]
  <1> DEFINE V == Seq(Nat)
             more(v, n) == IF n \in S THEN Append(v, n) ELSE v
             advance == [i \in Nat |-> [v \in V |-> IF i - 1 \in S /\ i # 0 THEN Append(v, i - 1) ELSE v]]
             Is(f) == f = [n \in Nat |-> IF n = 0 THEN <<>> ELSE more(f[n - 1], n - 1)]
  <1>1. PICK g : Runs(g, V, <<>>, advance)
    <2>1. <<>> \in V
      OBVIOUS
    <2>2. advance \in [Nat -> [V -> V]]
      <3>1. ASSUME NEW i \in Nat, NEW v \in V PROVE (IF i - 1 \in S /\ i # 0 THEN Append(v, i - 1) ELSE v) \in V
        <4>1. CASE i # 0
          <5>1. i - 1 \in Nat
            BY <4>1
          <5>2. Append(v, i - 1) \in V
            BY <5>1, Appended
          <5> QED
            BY <5>2
        <4> QED
          BY <4>1
      <3> HIDE DEF V
      <3> QED
        BY <3>1
    <2> HIDE DEF advance, V
    <2> QED
      BY <2>1, <2>2, RunsOn
  <1>2. g \in [Nat -> V] /\ g[0] = <<>> /\ \A n \in Nat : g[n + 1] = more(g[n], n)
    <2>1. ASSUME NEW n \in Nat, NEW v \in V PROVE advance[n + 1][v] = more(v, n)
      <3>1. n + 1 \in Nat /\ (n + 1) - 1 = n /\ n + 1 # 0
        OBVIOUS
      <3> HIDE DEF V
      <3> QED
        BY <3>1
    <2> HIDE DEF advance, V, more
    <2>2. g \in [Nat -> V] /\ g[0] = <<>> /\ \A i \in Nat : g[i + 1] = advance[i + 1][g[i]] /\ g[i] \in V
      BY <1>1 DEF Runs
    <2> QED
      BY <2>1, <2>2
  <1> HIDE DEF V
  <1>3. Is(g)
    <2> HIDE DEF more
    <2>1. ASSUME NEW k \in Nat PROVE g[k] = IF k = 0 THEN <<>> ELSE more(g[k - 1], k - 1)
      <3>1. CASE k = 0
        BY <1>2, <3>1
      <3>2. CASE k # 0
        <4>1. k - 1 \in Nat /\ (k - 1) + 1 = k
          BY <3>2
        <4>2. g[k] = more(g[k - 1], k - 1)
          BY <1>2, <4>1
        <4> QED
          BY <3>2, <4>2
      <3> QED
        BY <3>1, <3>2
    <2> QED
      BY <1>2, <2>1
  <1> DEFINE below == CHOOSE f : Is(f)
  <1>4. Is(below)
    BY <1>3
  <1>5. InOrder(S) = below
    BY DEF InOrder
  <1> HIDE DEF below, more
  <1>6. below[0] = <<>> /\ \A n \in Nat : below[n + 1] = more(below[n], n)
    <2>1. \A k \in Nat : below[k] = IF k = 0 THEN <<>> ELSE more(below[k - 1], k - 1)
      BY <1>4
    <2>2. \A n \in Nat : n + 1 \in Nat /\ n + 1 # 0 /\ (n + 1) - 1 = n
      OBVIOUS
    <2>3. 0 \in Nat
      OBVIOUS
    <2> HIDE DEF Is
    <2> QED
      BY <2>1, <2>2, <2>3
  <1>7. \A n \in Nat : below[n] \in Seq(Nat)
    <2> DEFINE T == {n \in Nat : below[n] \in Seq(Nat)}
    <2>1. ASSUME NEW n \in T PROVE n + 1 \in T
      <3>1. n \in Nat /\ below[n] \in Seq(Nat)
        OBVIOUS
      <3>2. Append(below[n], n) \in Seq(Nat)
        BY <3>1, Appended
      <3>3. below[n + 1] \in Seq(Nat)
        BY <1>6, <3>1, <3>2 DEF more
      <3> QED
        BY <3>1, <3>3
    <2>2. 0 \in T /\ T \in SUBSET Nat
      <3>1. <<>> \in Seq(Nat)
        OBVIOUS
      <3>2. 0 \in Nat /\ below[0] = <<>>
        BY <1>6
      <3> QED
        BY <3>1, <3>2
    <2> HIDE DEF T
    <2>3. T = Nat
      BY <2>1, <2>2, Inductive
    <2> QED
      BY <2>3 DEF T
  <1>8. below \in [Nat -> Seq(Nat)]
    <2>1. below = [k \in Nat |-> IF k = 0 THEN <<>> ELSE more(below[k - 1], k - 1)]
      BY <1>4
    <2>2. below = [k \in Nat |-> below[k]]
      BY <2>1
    <2> QED
      BY <1>7, <2>2
  <1> QED
    BY <1>5, <1>6, <1>8 DEF more

\* Only the members below a number count.
LEMMA OrderOfSame ==
  ASSUME NEW S, NEW T, NEW n \in Nat, \A k \in Nat : k < n => (k \in S <=> k \in T)
  PROVE  InOrder(S)[n] = InOrder(T)[n]
  <1> DEFINE a == InOrder(S)
             b == InOrder(T)
             same == {m \in Nat : m <= n => a[m] = b[m]}
  <1>1. /\ a[0] = <<>> /\ b[0] = <<>>
        /\ \A m \in Nat : /\ a[m + 1] = IF m \in S THEN Append(a[m], m) ELSE a[m]
                          /\ b[m + 1] = IF m \in T THEN Append(b[m], m) ELSE b[m]
    BY OrderUnfolds
  <1> HIDE DEF a, b
  <1>2. ASSUME NEW m \in Nat, m <= n => a[m] = b[m], m + 1 <= n PROVE a[m + 1] = b[m + 1]
    <2>1. m < n /\ a[m] = b[m] /\ (m \in S <=> m \in T)
      BY <1>2
    <2> QED
      BY <1>1, <2>1
  <1>3. \A m \in same : m + 1 \in same
    BY <1>2
  <1>4. 0 \in same /\ same \in SUBSET Nat
    BY <1>1
  <1> HIDE DEF same
  <1>5. same = Nat
    BY <1>3, <1>4, Inductive
  <1>6. n \in same
    BY <1>5
  <1> QED
    BY <1>6 DEF same, a, b

\* What comes later is put behind.
LEMMA OrderGrows ==
  ASSUME NEW S, NEW m \in Nat, NEW n \in Nat, m <= n
  PROVE  /\ Len(InOrder(S)[m]) <= Len(InOrder(S)[n])
         /\ \A k \in 1..Len(InOrder(S)[m]) : InOrder(S)[n][k] = InOrder(S)[m][k]
         /\ (\A k \in m..(n - 1) : k \notin S) => InOrder(S)[n] = InOrder(S)[m]
  <1> DEFINE a == InOrder(S)
             Grown(j) == /\ Len(a[m]) <= Len(a[j])
                         /\ \A k \in 1..Len(a[m]) : a[j][k] = a[m][k]
                         /\ (\A k \in m..(j - 1) : k \notin S) => a[j] = a[m]
             grown == {d \in Nat : Grown(m + d)}
  <1>1. a \in [Nat -> Seq(Nat)] /\ \A j \in Nat : a[j + 1] = IF j \in S THEN Append(a[j], j) ELSE a[j]
    BY OrderUnfolds
  <1> HIDE DEF a
  <1>2. ASSUME NEW j \in Nat, m <= j, Grown(j) PROVE Grown(j + 1)
    <2>1. a[j] \in Seq(Nat) /\ a[m] \in Seq(Nat) /\ Len(a[m]) \in Nat
      BY <1>1
    <2>2. CASE j \in S
      <3> DEFINE more == Append(a[j], j)
      <3>1. /\ Len(more) = Len(a[j]) + 1 /\ Len(a[j]) \in Nat
            /\ \A k \in 1..Len(a[j]) : more[k] = a[j][k]
        BY <2>1, Appended
      <3>2. a[j + 1] = more
        BY <1>1, <2>2
      <3> HIDE DEF more
      <3>3. Len(a[m]) <= Len(a[j + 1])
        BY <1>2, <2>1, <3>1, <3>2
      <3>4. \A k \in 1..Len(a[m]) : k \in 1..Len(a[j])
        BY <1>2, <2>1, <3>1
      <3>5. \A k \in 1..Len(a[m]) : a[j + 1][k] = a[m][k]
        BY <1>2, <3>1, <3>2, <3>4
      <3>6. j \in m..((j + 1) - 1)
        BY <1>2
      <3> QED
        BY <2>2, <3>3, <3>5, <3>6
    <2>3. CASE j \notin S
      <3>1. a[j + 1] = a[j]
        BY <1>1, <2>3
      <3>2. \A k \in m..(j - 1) : k \in m..((j + 1) - 1)
        OBVIOUS
      <3> QED
        BY <1>2, <3>1, <3>2
    <2> QED
      BY <2>2, <2>3
  <1>3. Grown(m)
    BY <1>1
  <1> HIDE DEF Grown
  <1>4. ASSUME NEW d \in grown PROVE d + 1 \in grown
    <2>1. d \in Nat /\ Grown(m + d) /\ m + d \in Nat /\ m <= m + d
      OBVIOUS
    <2>2. Grown((m + d) + 1)
      BY <1>2, <2>1
    <2>3. (m + d) + 1 = m + (d + 1)
      BY <2>1
    <2> QED
      BY <2>1, <2>2, <2>3
  <1>5. 0 \in grown /\ grown \in SUBSET Nat
    <2>1. m + 0 = m
      OBVIOUS
    <2> QED
      BY <1>3, <2>1
  <1>6. grown = Nat
    <2> HIDE DEF grown
    <2> QED
      BY <1>4, <1>5, Inductive
  <1>7. Grown(m + (n - m))
    <2>1. n - m \in Nat
      OBVIOUS
    <2> QED
      BY <1>6, <2>1
  <1>8. m + (n - m) = n
    OBVIOUS
  <1>9. Grown(n)
    BY <1>7, <1>8
  <1> QED
    BY <1>9 DEF Grown, a

\* A number behind all the members comes last.
LEMMA OrderAdded ==
  ASSUME NEW S, NEW m \in Nat, NEW n \in Nat, m < n, \A k \in S : k \in Nat /\ k < m
  PROVE  InOrder(S \cup {m})[n] = Append(InOrder(S)[n], m)
  <1> DEFINE T == S \cup {m}
  <1>1. m \in T /\ m \notin S /\ \A k \in Nat : k < m => (k \in T <=> k \in S)
    OBVIOUS
  <1>2. (\A k \in (m + 1)..(n - 1) : k \notin T) /\ \A k \in m..(n - 1) : k \notin S
    OBVIOUS
  <1> HIDE DEF T
  <1>3. InOrder(T)[m] = InOrder(S)[m]
    BY <1>1, OrderOfSame
  <1>4. InOrder(T)[m + 1] = Append(InOrder(T)[m], m)
    <2>1. InOrder(T)[m + 1] = IF m \in T THEN Append(InOrder(T)[m], m) ELSE InOrder(T)[m]
      BY OrderUnfolds
    <2> QED
      BY <1>1, <2>1
  <1>5. InOrder(T)[n] = InOrder(T)[m + 1]
    <2>1. m + 1 \in Nat /\ m + 1 <= n
      OBVIOUS
    <2> QED
      BY <1>2, <2>1, OrderGrows
  <1>6. InOrder(S)[n] = InOrder(S)[m]
    BY <1>2, OrderGrows
  <1> QED
    BY <1>3, <1>4, <1>5, <1>6 DEF T

LEMMA OrderOfMembers ==
  ASSUME NEW S, NEW n \in Nat
  PROVE  /\ InOrder(S)[n] \in Seq(Nat)
         /\ \A k \in 1..Len(InOrder(S)[n]) : InOrder(S)[n][k] \in S
  <1> DEFINE a == InOrder(S)
             Members(s) == \A k \in 1..Len(s) : s[k] \in S
             T == {m \in Nat : Members(a[m])}
  <1>1. /\ a \in [Nat -> Seq(Nat)] /\ a[0] = <<>>
        /\ \A j \in Nat : a[j + 1] = IF j \in S THEN Append(a[j], j) ELSE a[j]
    BY OrderUnfolds
  <1> HIDE DEF a
  <1>2. ASSUME NEW m \in T PROVE m + 1 \in T
    <2>1. m \in Nat /\ Members(a[m]) /\ a[m] \in Seq(Nat)
      BY <1>1
    <2>2. CASE m \in S
      <3> DEFINE more == Append(a[m], m)
      <3>1. /\ Len(more) = Len(a[m]) + 1 /\ Len(a[m]) \in Nat
            /\ \A k \in 1..Len(a[m]) : more[k] = a[m][k]
            /\ more[Len(a[m]) + 1] = m
        BY <2>1, Appended
      <3>2. a[m + 1] = more
        BY <1>1, <2>1, <2>2
      <3> HIDE DEF more
      <3>3. ASSUME NEW k \in 1..Len(more) PROVE more[k] \in S
        <4>1. k \in 1..Len(a[m]) \/ k = Len(a[m]) + 1
          BY <3>1
        <4> QED
          BY <2>1, <2>2, <3>1, <4>1
      <3> QED
        BY <2>1, <3>2, <3>3
    <2>3. CASE m \notin S
      <3>1. a[m + 1] = a[m]
        BY <1>1, <2>1, <2>3
      <3>2. Members(a[m + 1])
        BY <2>1, <3>1
      <3> QED
        BY <2>1, <3>2
    <2> QED
      BY <2>2, <2>3
  <1>3. 0 \in T /\ T \in SUBSET Nat
    <2>1. Members(<<>>)
      OBVIOUS
    <2>2. Members(a[0])
      BY <1>1, <2>1
    <2> QED
      BY <2>2
  <1> HIDE DEF T
  <1>4. T = Nat
    BY <1>2, <1>3, Inductive
  <1>5. n \in T /\ a[n] \in Seq(Nat)
    BY <1>1, <1>4
  <1> QED
    BY <1>5 DEF T, a

\* The first members come first.
AreBelow(S, T, m) == \A k \in Nat : k \in S <=> (k \in T /\ k < m)

StartsAs(s, t) == Len(s) <= Len(t) /\ \A k \in 1..Len(s) : t[k] = s[k]

LEMMA OrderOfFirst ==
  ASSUME NEW S, NEW T, NEW m \in Nat, NEW n \in Nat, m <= n, AreBelow(S, T, m)
  PROVE  StartsAs(InOrder(S)[n], InOrder(T)[n])
  <1> DEFINE Agree == \A k \in Nat : k < m => (k \in S <=> k \in T)
  <1>0. Agree /\ \A k \in Nat : k \in S => k < m
    BY DEF AreBelow
  <1>1. InOrder(S)[m] = InOrder(T)[m]
    BY <1>0, OrderOfSame
  <1>2. InOrder(S)[n] = InOrder(S)[m]
    <2>1. ASSUME NEW k \in m..(n - 1) PROVE k \notin S
      <3>1. k \in Nat /\ ~(k < m)
        OBVIOUS
      <3> QED
        BY <1>0, <3>1
    <2>2. (\A k \in m..(n - 1) : k \notin S) => InOrder(S)[n] = InOrder(S)[m]
      BY OrderGrows
    <2> QED
      BY <2>1, <2>2
  <1> DEFINE s == InOrder(S)[n]
             t == InOrder(T)[n]
             u == InOrder(T)[m]
  <1>3. Len(u) <= Len(t) /\ \A k \in 1..Len(u) : t[k] = u[k]
    BY OrderGrows
  <1>4. s = u
    BY <1>1, <1>2
  <1> HIDE DEF s, t, u
  <1>5. Len(s) <= Len(t) /\ \A k \in 1..Len(s) : t[k] = s[k]
    BY <1>3, <1>4
  <1> QED
    BY <1>5 DEF s, t, StartsAs

-----------------------------------------------------------------------------
(* The body of an answer, block by block.                                   *)

Symbols == [end : {"no", "CR", "LF"}, line : Nat]

GivenTyped ==
  /\ given.by \in {"openai", "anthropic", "gemini"}
  /\ given.crlf \in BOOLEAN /\ given.lacks \in 0..2
  /\ given.blocks \in Seq(BlockPayloads)

Span == IF given.crlf THEN 5 ELSE 3
EndLength == IF given.crlf THEN 2 ELSE 1
\* Where a block begins, by how many are before it.
Before(c) == IF given.crlf THEN 5 * c ELSE 3 * c

LEMMA BlockSpans ==
  ASSUME GivenTyped, NEW n \in Nat
  PROVE  /\ Block(n) \in Seq(Symbols) /\ Len(Block(n)) = Span
         /\ Block(n)[1] = Line(n)
         /\ given.crlf => /\ Block(n)[2] = CR /\ Block(n)[3] = LF
                          /\ Block(n)[4] = CR /\ Block(n)[5] = LF
         /\ ~given.crlf => Block(n)[2] = LF /\ Block(n)[3] = LF
  <1>1. Line(n) \in Symbols /\ CR \in Symbols /\ LF \in Symbols
    BY DEF Line, CR, LF, Symbols
  <1> HIDE DEF Line, CR, LF
  <1>2. CASE given.crlf
    <2>1. Block(n) = (<<Line(n)>> \o <<CR, LF>>) \o <<CR, LF>>
      BY <1>2 DEF Block, LineEnd
    <2> DEFINE x == Line(n)
               y == CR
               z == LF
    <2>2. x \in Symbols /\ y \in Symbols /\ z \in Symbols
      BY <1>1
    <2>3. Block(n) = (<<x>> \o <<y, z>>) \o <<y, z>>
      BY <2>1
    <2> HIDE DEF x, y, z
    <2>4. (<<x>> \o <<y, z>>) \o <<y, z>> = <<x, y, z, y, z>>
      <3> DEFINE a == <<x>>
                 b == <<y, z>>
                 ab == <<x, y, z>>
                 abb == <<x, y, z, y, z>>
      <3>1. a \in Seq(Symbols) /\ Len(a) = 1 /\ a[1] = x
        BY <2>2
      <3>2. b \in Seq(Symbols) /\ Len(b) = 2 /\ b[1] = y /\ b[2] = z
        BY <2>2
      <3>3. ab \in Seq(Symbols) /\ Len(ab) = 3 /\ ab[1] = x /\ ab[2] = y /\ ab[3] = z
        BY <2>2
      <3>4. abb \in Seq(Symbols) /\ Len(abb) = 5 /\ abb[1] = x /\ abb[2] = y /\ abb[3] = z /\ abb[4] = y /\ abb[5] = z
        BY <2>2
      <3> HIDE DEF a, b, ab, abb
      <3>5. a \o b = ab
        <4> DEFINE both == a \o b
        <4>1. /\ both \in Seq(Symbols) /\ Len(both) = Len(a) + Len(b)
              /\ \A k \in 1..(Len(a) + Len(b)) : both[k] = IF k <= Len(a) THEN a[k] ELSE b[k - Len(a)]
          BY <3>1, <3>2, <3>3, Concatenated
        <4> HIDE DEF both
        <4>2. both \in Seq(Symbols) /\ Len(both) = 3
          BY <3>1, <3>2, <4>1
        <4>3. \A k \in 1..3 : both[k] = IF k <= 1 THEN a[k] ELSE b[k - 1]
          BY <3>1, <3>2, <4>1
        <4>4. \A k \in 1..3 : both[k] = ab[k]
          BY <3>1, <3>2, <3>3, <4>3
        <4> QED
          BY <3>3, <4>2, <4>4, SameSequence DEF both
      <3>6. ab \o b = abb
        <4> DEFINE both == ab \o b
        <4>1. /\ both \in Seq(Symbols) /\ Len(both) = Len(ab) + Len(b)
              /\ \A k \in 1..(Len(ab) + Len(b)) : both[k] = IF k <= Len(ab) THEN ab[k] ELSE b[k - Len(ab)]
          BY <3>1, <3>2, <3>3, Concatenated
        <4> HIDE DEF both
        <4>2. both \in Seq(Symbols) /\ Len(both) = 5
          BY <3>2, <3>3, <4>1
        <4>3. \A k \in 1..5 : both[k] = IF k <= 3 THEN ab[k] ELSE b[k - 3]
          BY <3>2, <3>3, <4>1
        <4>4. \A k \in 1..5 : both[k] = abb[k]
          BY <3>2, <3>3, <3>4, <4>3
        <4> QED
          BY <3>4, <4>2, <4>4, SameSequence DEF both
      <3> QED
        BY <3>5, <3>6 DEF a, b, ab, abb
    <2>5. /\ Block(n) \in Seq(Symbols) /\ Len(Block(n)) = 5
          /\ Block(n)[1] = x /\ Block(n)[2] = y /\ Block(n)[3] = z /\ Block(n)[4] = y /\ Block(n)[5] = z
      BY <2>2, <2>3, <2>4
    <2> QED
      BY <1>2, <2>5 DEF Span, x, y, z
  <1>3. CASE ~given.crlf
    <2>1. Block(n) = (<<Line(n)>> \o <<LF>>) \o <<LF>>
      BY <1>3 DEF Block, LineEnd
    <2> DEFINE x == Line(n)
               z == LF
    <2>2. x \in Symbols /\ z \in Symbols
      BY <1>1
    <2>3. Block(n) = (<<x>> \o <<z>>) \o <<z>>
      BY <2>1
    <2> HIDE DEF x, z
    <2>4. (<<x>> \o <<z>>) \o <<z>> = <<x, z, z>>
      <3> DEFINE a == <<x>>
                 b == <<z>>
                 ab == <<x, z>>
                 abb == <<x, z, z>>
      <3>1. a \in Seq(Symbols) /\ Len(a) = 1 /\ a[1] = x
        BY <2>2
      <3>2. b \in Seq(Symbols) /\ Len(b) = 1 /\ b[1] = z
        BY <2>2
      <3>3. ab \in Seq(Symbols) /\ Len(ab) = 2 /\ ab[1] = x /\ ab[2] = z
        BY <2>2
      <3>4. abb \in Seq(Symbols) /\ Len(abb) = 3 /\ abb[1] = x /\ abb[2] = z /\ abb[3] = z
        BY <2>2
      <3> HIDE DEF a, b, ab, abb
      <3>5. a \o b = ab
        <4> DEFINE both == a \o b
        <4>1. /\ both \in Seq(Symbols) /\ Len(both) = Len(a) + Len(b)
              /\ \A k \in 1..(Len(a) + Len(b)) : both[k] = IF k <= Len(a) THEN a[k] ELSE b[k - Len(a)]
          BY <3>1, <3>2, <3>3, Concatenated
        <4> HIDE DEF both
        <4>2. both \in Seq(Symbols) /\ Len(both) = 2
          BY <3>1, <3>2, <4>1
        <4>3. \A k \in 1..2 : both[k] = IF k <= 1 THEN a[k] ELSE b[k - 1]
          BY <3>1, <3>2, <4>1
        <4>4. \A k \in 1..2 : both[k] = ab[k]
          BY <3>1, <3>2, <3>3, <4>3
        <4> QED
          BY <3>3, <4>2, <4>4, SameSequence DEF both
      <3>6. ab \o b = abb
        <4> DEFINE both == ab \o b
        <4>1. /\ both \in Seq(Symbols) /\ Len(both) = Len(ab) + Len(b)
              /\ \A k \in 1..(Len(ab) + Len(b)) : both[k] = IF k <= Len(ab) THEN ab[k] ELSE b[k - Len(ab)]
          BY <3>1, <3>2, <3>3, Concatenated
        <4> HIDE DEF both
        <4>2. both \in Seq(Symbols) /\ Len(both) = 3
          BY <3>2, <3>3, <4>1
        <4>3. \A k \in 1..3 : both[k] = IF k <= 2 THEN ab[k] ELSE b[k - 2]
          BY <3>2, <3>3, <4>1
        <4>4. \A k \in 1..3 : both[k] = abb[k]
          BY <3>2, <3>3, <3>4, <4>3
        <4> QED
          BY <3>4, <4>2, <4>4, SameSequence DEF both
      <3> QED
        BY <3>5, <3>6 DEF a, b, ab, abb
    <2>5. /\ Block(n) \in Seq(Symbols) /\ Len(Block(n)) = 3
          /\ Block(n)[1] = x /\ Block(n)[2] = z /\ Block(n)[3] = z
      BY <2>2, <2>3, <2>4
    <2> QED
      BY <1>3, <2>5 DEF Span, x, z
  <1> QED
    BY <1>2, <1>3 DEF GivenTyped

LEMMA PlacesAdd ==
  ASSUME GivenTyped
  PROVE  /\ Span \in {3, 5} /\ EndLength \in {1, 2} /\ Span = 1 + 2 * EndLength
         /\ Before(0) = 0
         /\ \A c \in Nat : Before(c) \in Nat /\ Before(c + 1) = Before(c) + Span
         /\ \A c \in Nat, d \in Nat : c < d => Before(c) + Span <= Before(d)
  <1>1. CASE given.crlf
    BY <1>1 DEF Span, EndLength, Before
  <1>2. CASE ~given.crlf
    BY <1>2 DEF Span, EndLength, Before
  <1> QED
    BY <1>1, <1>2 DEF GivenTyped

\* Where the symbols of each block are.
Laid(bytes, n) ==
  /\ bytes \in Seq(Symbols) /\ Len(bytes) = Before(n)
  /\ \A b \in 1..n, j \in 1..Span : bytes[Before(b - 1) + j] = Block(b)[j]

LEMMA BlocksLaid ==
  ASSUME GivenTyped, NEW n \in Nat
  PROVE  Laid(FlattenSeq([k \in 1..n |-> Block(k)]), n)
  <1> DEFINE each(m) == [k \in 1..m |-> Block(k)]
             T == {m \in Nat : Laid(FlattenSeq(each(m)), m)}
  <1>1. ASSUME NEW m \in Nat PROVE each(m) \in Seq(Seq(Symbols))
    <2>1. \A k \in 1..m : Block(k) \in Seq(Symbols)
      BY BlockSpans
    <2> QED
      BY <2>1
  <1>2. 0 \in T
    <2>1. each(0) = <<>>
      OBVIOUS
    <2> HIDE DEF each
    <2>2. FlattenSeq(each(0)) = <<>>
      BY <2>1, FlattenNothing
    <2>3. Laid(<<>>, 0)
      BY PlacesAdd DEF Laid
    <2> QED
      BY <2>2, <2>3
  <1>3. ASSUME NEW m \in Nat, Laid(FlattenSeq(each(m)), m)
        PROVE  Laid(FlattenSeq(each(m + 1)), m + 1)
    <2> DEFINE a == FlattenSeq(each(m))
               b == Block(m + 1)
    <2>1. each(m + 1) = Append(each(m), b)
      <3>1. Append(each(m), b) \in Seq(Seq(Symbols)) /\ Len(Append(each(m), b)) = m + 1
        <4>1. each(m) \in Seq(Seq(Symbols)) /\ Len(each(m)) = m /\ b \in Seq(Symbols)
          BY <1>1, BlockSpans
        <4> HIDE DEF each, b
        <4> QED
          BY <4>1, Appended
      <3>2. each(m + 1) \in Seq(Seq(Symbols)) /\ Len(each(m + 1)) = m + 1
        BY <1>1
      <3>3. \A k \in 1..(m + 1) : Append(each(m), b)[k] = Block(k)
        <4>1. /\ \A k \in 1..m : Append(each(m), b)[k] = each(m)[k]
              /\ Append(each(m), b)[m + 1] = b
          <5>1. each(m) \in Seq(Seq(Symbols)) /\ Len(each(m)) = m /\ b \in Seq(Symbols)
            BY <1>1, BlockSpans
          <5> HIDE DEF each, b
          <5> QED
            BY <5>1, Appended
        <4>2. \A k \in 1..m : each(m)[k] = Block(k)
          OBVIOUS
        <4> HIDE DEF each
        <4>3. \A k \in 1..(m + 1) : k \in 1..m \/ k = m + 1
          OBVIOUS
        <4> QED
          BY <4>1, <4>2, <4>3
      <3>4. \A k \in 1..(m + 1) : each(m + 1)[k] = Block(k)
        OBVIOUS
      <3> HIDE DEF each, b
      <3> QED
        BY <3>1, <3>2, <3>3, <3>4, SameSequence
    <2>2. b \in Seq(Symbols) /\ Len(b) = Span
      BY BlockSpans
    <2>3. FlattenSeq(each(m + 1)) = a \o b
      BY <1>1, <2>1, <2>2, FlattenOne
    <2>4. a \in Seq(Symbols) /\ Len(a) = Before(m)
      BY <1>3 DEF Laid
    <2>5. \A k \in 1..m, j \in 1..Span : a[Before(k - 1) + j] = Block(k)[j]
      BY <1>3 DEF Laid
    <2> DEFINE both == a \o b
    <2> HIDE DEF a, each
    <2>6. /\ both \in Seq(Symbols) /\ Len(both) = Len(a) + Len(b)
          /\ \A k \in 1..(Len(a) + Len(b)) : both[k] = IF k <= Len(a) THEN a[k] ELSE b[k - Len(a)]
      <3> HIDE DEF b
      <3> QED
        BY <2>2, <2>4, Concatenated
    <2> HIDE DEF both
    <2>7. /\ Span \in Nat /\ Before(m) \in Nat /\ Before(m + 1) = Before(m) + Span
          /\ \A c \in Nat : c < m => Before(c) + Span <= Before(m) /\ Before(c) \in Nat
      BY PlacesAdd
    <2>8. \A k \in 1..(Before(m) + Span) : both[k] = IF k <= Before(m) THEN a[k] ELSE b[k - Before(m)]
      BY <2>2, <2>4, <2>6
    <2>9. ASSUME NEW k \in 1..(m + 1), NEW j \in 1..Span PROVE both[Before(k - 1) + j] = Block(k)[j]
      <3>1. CASE k = m + 1
        <4> DEFINE place == Before(m) + j
        <4>1. place \in 1..(Before(m) + Span) /\ ~(place <= Before(m)) /\ place - Before(m) = j
          BY <2>7
        <4> HIDE DEF place
        <4>2. both[place] = b[j]
          BY <2>8, <4>1
        <4>3. k - 1 = m
          BY <3>1
        <4> QED
          BY <3>1, <4>2, <4>3 DEF place
      <3>2. CASE k # m + 1
        <4>1. k \in 1..m /\ k - 1 \in Nat /\ k - 1 < m
          BY <3>2
        <4> DEFINE place == Before(k - 1) + j
        <4>2. place \in 1..(Before(m) + Span) /\ place <= Before(m)
          <5>1. Before(k - 1) + Span <= Before(m) /\ Before(k - 1) \in Nat
            BY <2>7, <4>1
          <5> QED
            BY <2>7, <5>1
        <4> HIDE DEF place
        <4>3. both[place] = a[place]
          BY <2>8, <4>2
        <4> QED
          BY <2>5, <4>1, <4>3 DEF place
      <3> QED
        BY <3>1, <3>2
    <2>10. Len(both) = Before(m + 1)
      BY <2>2, <2>4, <2>6, <2>7
    <2> HIDE DEF b
    <2> QED
      BY <2>3, <2>6, <2>9, <2>10 DEF Laid, both
  <1>4. T = Nat
    <2>1. \A m \in T : m + 1 \in T
      BY <1>3
    <2>2. T \in SUBSET Nat
      OBVIOUS
    <2> HIDE DEF T
    <2> QED
      BY <1>2, <2>1, <2>2, Inductive
  <1>5. n \in T
    BY <1>4
  <1> QED
    BY <1>5

\* The body has the blocks' symbols in their places, as far as it goes, and goes
\* at least to the last line.
LEMMA BodyLaid ==
  ASSUME GivenTyped
  PROVE  /\ Body \in Seq(Symbols)
         /\ Len(Body) <= Before(Len(given.blocks))
         /\ Len(given.blocks) > 0 => Before(Len(given.blocks) - 1) < Len(Body)
         /\ \A c \in 0..(Len(given.blocks) - 1), j \in 1..Span :
              Before(c) + j <= Len(Body) => Body[Before(c) + j] = Block(c + 1)[j]
  <1> DEFINE n == Len(given.blocks)
             cut == given.lacks * Len(LineEnd)
  <1>1. n \in Nat /\ (given.blocks = <<>> <=> n = 0)
    BY DEF GivenTyped
  <1>2. Len(LineEnd) = EndLength
    BY DEF LineEnd, EndLength, GivenTyped
  <1>3. cut \in 0..(2 * EndLength)
    <2>1. given.lacks \in 0..2 /\ EndLength \in {1, 2}
      BY PlacesAdd DEF GivenTyped
    <2>2. cut = given.lacks * EndLength
      BY <1>2
    <2> HIDE DEF cut
    <2>3. CASE given.lacks = 0
      BY <2>1, <2>2, <2>3
    <2>4. CASE given.lacks = 1
      BY <2>1, <2>2, <2>4
    <2>5. CASE given.lacks = 2
      BY <2>1, <2>2, <2>5
    <2> QED
      BY <2>1, <2>3, <2>4, <2>5
  <1> HIDE DEF cut
  <1>4. CASE n = 0
    BY <1>1, <1>4, PlacesAdd DEF Body
  <1>5. CASE n # 0
    <2>1. Laid(AllBlocks, n)
      BY <1>1, BlocksLaid DEF AllBlocks
    <2>2. /\ AllBlocks \in Seq(Symbols) /\ Len(AllBlocks) = Before(n)
          /\ \A b \in 1..n, j \in 1..Span : AllBlocks[Before(b - 1) + j] = Block(b)[j]
      BY <2>1 DEF Laid
    <2>3. Body = SubSeq(AllBlocks, 1, Before(n) - cut)
      BY <1>1, <1>5, <2>2 DEF Body, cut
    <2>4. /\ n - 1 \in Nat /\ Before(n) = Before(n - 1) + Span /\ Before(n - 1) \in Nat
          /\ Span = 1 + 2 * EndLength /\ EndLength \in Nat
      <3>1. n - 1 \in Nat /\ (n - 1) + 1 = n
        BY <1>1, <1>5
      <3> HIDE DEF n
      <3>2. Before(n - 1) \in Nat /\ Before((n - 1) + 1) = Before(n - 1) + Span
        BY <3>1, PlacesAdd
      <3>3. Span = 1 + 2 * EndLength /\ EndLength \in Nat
        BY PlacesAdd
      <3> QED
        BY <3>1, <3>2, <3>3
    <2> DEFINE all == AllBlocks
               long == Before(n) - cut
    <2>5. long \in Nat /\ long <= Before(n) /\ long > Before(n - 1)
      BY <1>3, <2>4
    <2> HIDE DEF all, long, n
    <2>6. all \in Seq(Symbols) /\ long \in (1 - 1)..Len(all) /\ 1 \in 1..(Len(all) + 1)
      BY <2>2, <2>4, <2>5 DEF all
    <2>7. /\ SubSeq(all, 1, long) \in Seq(Symbols) /\ Len(SubSeq(all, 1, long)) = long - 1 + 1
          /\ \A k \in 1..(long - 1 + 1) : SubSeq(all, 1, long)[k] = all[1 + k - 1]
      BY <2>6, CutOut
    <2>8. Body = SubSeq(all, 1, long)
      BY <2>3 DEF all, long
    <2>9. Body \in Seq(Symbols) /\ Len(Body) = long /\ \A k \in 1..long : Body[k] = all[k]
      <3>1. long - 1 + 1 = long /\ \A k \in 1..long : 1 + k - 1 = k
        BY <2>5
      <3> QED
        BY <2>7, <2>8, <3>1
    <2>10. ASSUME NEW c \in 0..(n - 1), NEW j \in 1..Span, Before(c) + j <= long
           PROVE  Body[Before(c) + j] = Block(c + 1)[j]
      <3>1. c + 1 \in 1..n /\ (c + 1) - 1 = c /\ c \in Nat
        BY <1>1
      <3>2. Before(c) + j \in 1..long
        <4>1. Before(c) \in Nat /\ Span \in Nat /\ j \in Nat /\ j >= 1
          <5>1. Span \in {3, 5} /\ Before(c) \in Nat
            BY <3>1, PlacesAdd
          <5> QED
            BY <5>1
        <4> QED
          BY <2>5, <2>10, <4>1
      <3>3. all[Before((c + 1) - 1) + j] = Block(c + 1)[j]
        BY <2>2, <3>1 DEF all
      <3> QED
        BY <2>9, <3>1, <3>2, <3>3
    <2> QED
      BY <2>5, <2>9, <2>10 DEF n
  <1> QED
    BY <1>4, <1>5

-----------------------------------------------------------------------------
(* The parser, at a block.                                                  *)

\* So many blocks were taken: the buffer holds what came behind them, and after
\* a tail nothing.
Waiting(c) ==
  /\ c \in 0..Len(given.blocks) /\ received \in 0..Len(Body) /\ unparsed \in Seq(Symbols)
  /\ \/ /\ Before(c) <= received /\ Len(unparsed) = received - Before(c)
        /\ \A k \in 1..Len(unparsed) : unparsed[k] = Body[Before(c) + k]
     \/ c = Len(given.blocks) /\ received = Len(Body) /\ unparsed = <<>>

LEMMA HeadSeen ==
  ASSUME GivenTyped, NEW c, Waiting(c)
  PROVE  /\ c \in Nat /\ Len(unparsed) \in Nat
         /\ Len(unparsed) > 0 => c < Len(given.blocks)
         /\ \A j \in 1..Span : j <= Len(unparsed) => unparsed[j] = Block(c + 1)[j]
  <1> DEFINE n == Len(given.blocks)
             long == Len(unparsed)
  <1>1. c \in 0..n /\ n \in Nat /\ c \in Nat /\ long \in Nat /\ received <= Len(Body) /\ received \in Nat
    BY DEF Waiting, GivenTyped
  <1>2. CASE long = 0
    <2>1. ASSUME NEW j \in 1..Span PROVE ~(j <= long)
      <3>1. j >= 1 /\ j \in Int
        OBVIOUS
      <3> QED
        BY <1>2, <3>1
    <2> QED
      BY <1>1, <1>2, <2>1
  <1>3. CASE long # 0
    <2>1. unparsed # <<>>
      BY <1>3
    <2>2. /\ Before(c) <= received /\ long = received - Before(c)
          /\ \A k \in 1..long : unparsed[k] = Body[Before(c) + k]
      BY <2>1 DEF Waiting
    <2>3. Before(c) \in Nat /\ Len(Body) \in Nat /\ Len(Body) <= Before(n)
      BY <1>1, PlacesAdd, BodyLaid
    <2>4. c # n
      BY <1>1, <1>3, <2>2, <2>3
    <2>5. c \in 0..(n - 1)
      BY <1>1, <2>4
    <2>6. ASSUME NEW j \in 1..Span, j <= long PROVE unparsed[j] = Block(c + 1)[j]
      <3>1. j \in 1..long /\ j \in Nat
        BY <1>1, <2>6
      <3>2. unparsed[j] = Body[Before(c) + j]
        BY <2>2, <3>1
      <3>3. Before(c) + j <= Len(Body)
        BY <1>1, <2>2, <2>3, <2>6, <3>1
      <3>4. Body[Before(c) + j] = Block(c + 1)[j]
        BY <2>5, <3>3, BodyLaid
      <3> QED
        BY <3>2, <3>4
    <2> QED
      BY <1>1, <2>5, <2>6
  <1> QED
    BY <1>2, <1>3

LEMMA EndsTold ==
  /\ CR # LF
  /\ \A n \in Nat : Line(n) # CR /\ Line(n) # LF /\ Line(n).line = n
  <1>1. CR.end = "CR" /\ LF.end = "LF" /\ \A n \in Nat : Line(n).end = "no" /\ Line(n).line = n
    BY DEF CR, LF, Line
  <1> QED
    BY <1>1

\* The first blank line is that of the first block, and is seen when it is there.
LEMMA BoundaryFound ==
  ASSUME GivenTyped, NEW c, Waiting(c)
  PROVE  IF Len(unparsed) < Span THEN Boundaries = {}
         ELSE Boundaries # {} /\ FindBoundary = 2 /\ BoundaryLength(2) = 2 * EndLength
  <1> DEFINE long == Len(unparsed)
             b == Block(c + 1)
  <1>1. /\ c \in Nat /\ long \in Nat /\ c + 1 \in Nat
        /\ \A j \in 1..Span : j <= long => unparsed[j] = b[j]
    BY HeadSeen
  <1>2. DOMAIN unparsed = 1..long
    BY DEF Waiting
  <1>3. /\ b[1] = Line(c + 1)
        /\ given.crlf => b[2] = CR /\ b[3] = LF /\ b[4] = CR /\ b[5] = LF
        /\ ~given.crlf => b[2] = LF /\ b[3] = LF
    BY <1>1, BlockSpans
  <1> DEFINE x == Line(c + 1)
  <1>4. CR # LF /\ x # CR /\ x # LF
    BY <1>1, EndsTold
  <1>5. Boundaries = {i \in 1..long : LFLF(i) \/ CRLFCRLF(i)}
    BY <1>2 DEF Boundaries
  <1> HIDE DEF b, x, long
  <1>6. CASE given.crlf
    <2>1. Span = 5 /\ EndLength = 2
      BY <1>6 DEF Span, EndLength
    <2>2. /\ 1 <= long => unparsed[1] = x
          /\ 2 <= long => unparsed[2] = CR
          /\ 3 <= long => unparsed[3] = LF
          /\ 4 <= long => unparsed[4] = CR
          /\ 5 <= long => unparsed[5] = LF
      BY <1>1, <1>3, <1>6, <2>1 DEF x
    <2>3. \A i \in 1..long : i < 2 => ~LFLF(i) /\ ~CRLFCRLF(i)
      BY <1>1, <1>4, <2>2 DEF LFLF, CRLFCRLF, long
    <2>4. CASE long < 5
      <3>1. ASSUME NEW i \in 1..long PROVE ~LFLF(i) /\ ~CRLFCRLF(i)
        <4>1. i = 1 \/ i = 2 \/ i = 3 \/ i = 4
          BY <1>1, <2>4
        <4>2. CASE i = 1
          BY <2>3, <4>2
        <4>3. CASE i = 2
          BY <1>1, <1>4, <2>2, <2>4, <4>3 DEF LFLF, CRLFCRLF, long
        <4>4. CASE i = 3
          BY <1>1, <1>4, <2>2, <2>4, <4>4 DEF LFLF, CRLFCRLF, long
        <4>5. CASE i = 4
          BY <1>1, <1>4, <2>2, <2>4, <4>5 DEF LFLF, CRLFCRLF, long
        <4> QED
          BY <4>1, <4>2, <4>3, <4>4, <4>5
      <3> QED
        BY <1>5, <2>1, <2>4, <3>1 DEF long
    <2>5. CASE ~(long < 5)
      <3>1. CRLFCRLF(2)
        BY <1>1, <2>2, <2>5 DEF CRLFCRLF, long
      <3>2. 2 \in Boundaries /\ \A j \in Boundaries : 2 <= j
        <4>1. 2 \in 1..long
          BY <1>1, <2>5
        <4>2. \A j \in 1..long : j < 2 \/ 2 <= j
          OBVIOUS
        <4> QED
          BY <1>5, <2>3, <3>1, <4>1, <4>2
      <3>3. FindBoundary = 2
        <4>1. \A i \in Boundaries : i \in Int
          BY <1>5
        <4>2. \A i \in Boundaries : (\A j \in Boundaries : i <= j) => i = 2
          BY <3>2, <4>1
        <4> HIDE DEF Boundaries
        <4> QED
          BY <3>2, <4>2 DEF FindBoundary
      <3> QED
        BY <2>1, <2>5, <3>1, <3>2, <3>3 DEF BoundaryLength, long
    <2> QED
      BY <2>4, <2>5
  <1>7. CASE ~given.crlf
    <2>1. Span = 3 /\ EndLength = 1
      BY <1>7 DEF Span, EndLength
    <2>2. /\ 1 <= long => unparsed[1] = x
          /\ 2 <= long => unparsed[2] = LF
          /\ 3 <= long => unparsed[3] = LF
      BY <1>1, <1>3, <1>7, <2>1 DEF x
    <2>3. \A i \in 1..long : i < 2 => ~LFLF(i) /\ ~CRLFCRLF(i)
      BY <1>1, <1>4, <2>2 DEF LFLF, CRLFCRLF, long
    <2>4. CASE long < 3
      <3>1. ASSUME NEW i \in 1..long PROVE ~LFLF(i) /\ ~CRLFCRLF(i)
        <4>1. i = 1 \/ i = 2
          BY <1>1, <2>4
        <4>2. CASE i = 1
          BY <2>3, <4>2
        <4>3. CASE i = 2
          BY <1>1, <1>4, <2>2, <2>4, <4>3 DEF LFLF, CRLFCRLF, long
        <4> QED
          BY <4>1, <4>2, <4>3
      <3> QED
        BY <1>5, <2>1, <2>4, <3>1 DEF long
    <2>5. CASE ~(long < 3)
      <3>1. LFLF(2) /\ ~CRLFCRLF(2)
        BY <1>1, <1>4, <2>2, <2>5 DEF LFLF, CRLFCRLF, long
      <3>2. 2 \in Boundaries /\ \A j \in Boundaries : 2 <= j
        <4>1. 2 \in 1..long
          BY <1>1, <2>5
        <4>2. \A j \in 1..long : j < 2 \/ 2 <= j
          OBVIOUS
        <4> QED
          BY <1>5, <2>3, <3>1, <4>1, <4>2
      <3>3. FindBoundary = 2
        <4>1. \A i \in Boundaries : i \in Int
          BY <1>5
        <4>2. \A i \in Boundaries : (\A j \in Boundaries : i <= j) => i = 2
          BY <3>2, <4>1
        <4> HIDE DEF Boundaries
        <4> QED
          BY <3>2, <4>2 DEF FindBoundary
      <3> QED
        BY <2>1, <2>5, <3>1, <3>2, <3>3 DEF BoundaryLength, long
    <2> QED
      BY <2>4, <2>5
  <1> QED
    BY <1>6, <1>7

\* A line alone, with or without what ends it, is a payload.
LEMMA LineParsed ==
  ASSUME GivenTyped, NEW raw \in Seq(Symbols), Len(raw) >= 1, NEW n \in Nat, raw[1] = Line(n),
         \A k \in 2..Len(raw) : raw[k] \in {CR, LF}
  PROVE  ParsedPayload(raw) = given.blocks[n] /\ Number(raw) = n
  <1>1. ParseBlock(raw) = {1}
    <2>1. 1 \in DOMAIN raw /\ raw[1] \notin {CR, LF}
      BY EndsTold
    <2>2. \A k \in DOMAIN raw : k = 1 \/ k \in 2..Len(raw)
      OBVIOUS
    <2> QED
      BY <2>1, <2>2 DEF ParseBlock
  <1>2. (CHOOSE k \in ParseBlock(raw) : TRUE) = 1
    BY <1>1
  <1>3. Number(raw) = n
    BY <1>2, EndsTold DEF Number
  <1> QED
    BY <1>1, <1>3 DEF ParsedPayload

LEMMA GivenKept ==
  ASSUME given' = given
  PROVE  /\ Body' = Body /\ \A c : Before(c)' = Before(c)
         /\ (GivenTyped)' = GivenTyped
  BY DEF Body, AllBlocks, Block, LineEnd, Before, Line, CR, LF, GivenTyped

LEMMA Received ==
  ASSUME GivenTyped, NEW c, Waiting(c), Receive
  PROVE  Waiting(c)'
  <1> DEFINE body == Body
  <1>1. PICK upTo \in (received + 1)..Len(body) :
          unparsed' = unparsed \o SubSeq(body, received + 1, upTo) /\ received' = upTo /\ given' = given
    BY DEF Receive
  <1>2. /\ c \in 0..Len(given.blocks) /\ received \in 0..Len(body) /\ unparsed \in Seq(Symbols)
        /\ body \in Seq(Symbols) /\ Before(c) \in Nat
    BY BodyLaid, PlacesAdd DEF Waiting, GivenTyped
  <1>3. received \in Nat /\ Len(body) \in Nat /\ received < Len(body) /\ upTo \in Nat /\ upTo > received /\ upTo <= Len(body)
    <2> HIDE DEF body
    <2> QED
      BY <1>1, <1>2
  <1>4. /\ Before(c) <= received /\ Len(unparsed) = received - Before(c)
        /\ \A k \in 1..Len(unparsed) : unparsed[k] = body[Before(c) + k]
    BY <1>3 DEF Waiting
  <1> DEFINE came == SubSeq(body, received + 1, upTo)
             long == upTo - Before(c)
             old == received - Before(c)
  <1> HIDE DEF body
  <1>5. came \in Seq(Symbols) /\ Len(came) = upTo - received
        /\ \A k \in 1..(upTo - received) : came[k] = body[received + k]
    <2>1. received + 1 \in 1..(Len(body) + 1) /\ upTo \in ((received + 1) - 1)..Len(body)
      BY <1>3
    <2>2. /\ came \in Seq(Symbols) /\ Len(came) = upTo - (received + 1) + 1
          /\ \A k \in 1..(upTo - (received + 1) + 1) : came[k] = body[(received + 1) + k - 1]
      BY <1>2, <2>1, CutOut
    <2> HIDE DEF came
    <2>3. upTo - (received + 1) + 1 = upTo - received
      BY <1>3
    <2>4. \A k \in 1..(upTo - received) : (received + 1) + k - 1 = received + k
      BY <1>3
    <2> QED
      BY <2>2, <2>3, <2>4
  <1> DEFINE now == unparsed \o came
  <1> HIDE DEF came
  <1>6. /\ now \in Seq(Symbols) /\ Len(now) = Len(unparsed) + Len(came)
        /\ \A k \in 1..(Len(unparsed) + Len(came)) :
             now[k] = IF k <= Len(unparsed) THEN unparsed[k] ELSE came[k - Len(unparsed)]
    BY <1>2, <1>5, Concatenated
  <1>7. unparsed' = now
    BY <1>1 DEF came
  <1> HIDE DEF now
  <1>8. Len(unparsed) = old /\ old \in Nat /\ old + Len(came) = long /\ long \in Nat /\ Before(c) + old = received
    <2> DEFINE place == Before(c)
    <2>1. place \in Nat /\ place <= received
      BY <1>2, <1>4
    <2>2. Len(unparsed) = received - place
      BY <1>4
    <2>3. Len(came) = upTo - received
      BY <1>5
    <2> HIDE DEF place
    <2>4. received - place \in Nat /\ received - place + (upTo - received) = upTo - place /\ upTo - place \in Nat
          /\ place + (received - place) = received
      BY <1>3, <2>1
    <2> QED
      BY <2>2, <2>3, <2>4 DEF place
  <1>9. Len(now) = long /\ \A k \in 1..long : now[k] = IF k <= old THEN unparsed[k] ELSE came[k - old]
    BY <1>6, <1>8
  <1>10. ASSUME NEW k \in 1..long PROVE now[k] = body[Before(c) + k]
    <2>1. CASE k <= old
      <3>1. k \in 1..old
        BY <1>8, <2>1
      <3> QED
        BY <1>4, <1>8, <1>9, <2>1, <3>1
    <2>2. CASE ~(k <= old)
      <3>1. k - old \in 1..(upTo - received) /\ received + (k - old) = Before(c) + k
        <4>1. Before(c) \in Nat /\ received \in Nat /\ upTo \in Nat /\ k \in Nat /\ k <= upTo - Before(c)
          BY <1>2, <1>3, <1>8
        <4>2. ~(k <= received - Before(c))
          BY <2>2
        <4> QED
          BY <4>1, <4>2
      <3> HIDE DEF long, old
      <3>2. came[k - old] = body[received + (k - old)]
        BY <1>5, <3>1
      <3> QED
        BY <1>9, <2>2, <3>1, <3>2
    <2> QED
      BY <2>1, <2>2
  <1>11. /\ Body' = body /\ Before(c)' = Before(c)
    BY <1>1, GivenKept DEF body
  <1>12. /\ received' \in 0..Len(body) /\ Before(c) <= received' /\ long = received' - Before(c)
    BY <1>1, <1>2, <1>3, <1>4
  <1> HIDE DEF long, old
  <1> QED
    BY <1>1, <1>2, <1>6, <1>7, <1>9, <1>10, <1>11, <1>12 DEF Waiting

\* A block that is taken is the next one, and leaves the parser behind it.
LEMMA BlockTaken ==
  ASSUME GivenTyped, NEW c, Waiting(c), TakeBlock
  PROVE  /\ c + 1 \in 1..Len(given.blocks) /\ Waiting(c + 1)'
         /\ Consume(given.blocks[c + 1], c + 1)
  <1> DEFINE n == Len(given.blocks)
             raw == SubSeq(unparsed, 1, FindBoundary - 1)
             rest == SubSeq(unparsed, FindBoundary + BoundaryLength(FindBoundary), Len(unparsed))
             body == Body
             long == Len(unparsed)
  <1>1. /\ Boundaries # {} /\ given' = given /\ received' = received
        /\ unparsed' = rest /\ Consume(ParsedPayload(raw), Number(raw))
    BY DEF TakeBlock
  <1>2. long >= Span /\ FindBoundary = 2 /\ BoundaryLength(2) = 2 * EndLength
    <2>1. long \in Nat /\ Span \in {3, 5}
      BY HeadSeen, PlacesAdd
    <2> HIDE DEF long
    <2> QED
      BY <1>1, <2>1, BoundaryFound DEF long
  <1>3. /\ c \in 0..n /\ received \in 0..Len(body) /\ unparsed \in Seq(Symbols) /\ long \in Nat
        /\ n \in Nat /\ Before(c) \in Nat /\ Before(c + 1) = Before(c) + Span
        /\ Span \in {3, 5} /\ Span = 1 + 2 * EndLength /\ EndLength \in {1, 2}
    <2>1. c \in 0..n /\ received \in 0..Len(body) /\ unparsed \in Seq(Symbols) /\ long \in Nat /\ n \in Nat
      BY DEF Waiting, GivenTyped
    <2>2. c \in Nat
      BY <2>1
    <2>3. Before(c) \in Nat /\ Before(c + 1) = Before(c) + Span
      BY <2>2, PlacesAdd
    <2>4. Span \in {3, 5} /\ Span = 1 + 2 * EndLength /\ EndLength \in {1, 2}
      BY PlacesAdd
    <2> QED
      BY <2>1, <2>3, <2>4
  <1>4. c < n /\ unparsed[1] = Line(c + 1)
    <2>1. /\ long > 0 => c < n
          /\ \A j \in 1..Span : j <= long => unparsed[j] = Block(c + 1)[j]
      BY HeadSeen
    <2>2. Block(c + 1)[1] = Line(c + 1)
      BY <1>3, BlockSpans
    <2>3. long > 0 /\ 1 \in 1..Span /\ 1 <= long
      BY <1>2, <1>3
    <2> QED
      BY <2>1, <2>2, <2>3
  <1>5. /\ Before(c) <= received /\ long = received - Before(c)
        /\ \A k \in 1..long : unparsed[k] = body[Before(c) + k]
    <2>1. unparsed # <<>>
      BY <1>2, <1>3
    <2> QED
      BY <2>1 DEF Waiting
  <1>6. Consume(given.blocks[c + 1], c + 1)
    <2> DEFINE head == SubSeq(unparsed, 1, 1)
    <2>1. raw = head
      <3>1. FindBoundary - 1 = 1
        BY <1>2
      <3> QED
        BY <3>1
    <2>2. head \in Seq(Symbols) /\ Len(head) = 1 /\ head[1] = unparsed[1]
      <3>1. 1 \in 1..(Len(unparsed) + 1) /\ 1 \in (1 - 1)..Len(unparsed)
        BY <1>2, <1>3
      <3>2. /\ head \in Seq(Symbols) /\ Len(head) = 1 - 1 + 1
            /\ \A k \in 1..(1 - 1 + 1) : head[k] = unparsed[1 + k - 1]
        BY <1>3, <3>1, CutOut
      <3> HIDE DEF head
      <3> QED
        BY <3>2
    <2> HIDE DEF head, raw
    <2>3. Len(head) >= 1 /\ head[1] = Line(c + 1) /\ c + 1 \in Nat /\ \A k \in 2..Len(head) : head[k] \in {CR, LF}
      BY <1>3, <1>4, <2>2
    <2>4. ParsedPayload(head) = given.blocks[c + 1] /\ Number(head) = c + 1
      BY <2>2, <2>3, LineParsed
    <2> QED
      BY <1>1, <2>1, <2>4
  <1>7. rest \in Seq(Symbols) /\ Len(rest) = long - Span /\ \A k \in 1..(long - Span) : rest[k] = unparsed[Span + k]
    <2> DEFINE first == Span + 1
    <2>1. FindBoundary + BoundaryLength(FindBoundary) = first
      BY <1>2, <1>3
    <2>2. first \in 1..(Len(unparsed) + 1) /\ Len(unparsed) \in (first - 1)..Len(unparsed)
      BY <1>2, <1>3
    <2>3. rest = SubSeq(unparsed, first, long)
      BY <2>1
    <2>4. /\ SubSeq(unparsed, first, long) \in Seq(Symbols) /\ Len(SubSeq(unparsed, first, long)) = long - first + 1
          /\ \A k \in 1..(long - first + 1) : SubSeq(unparsed, first, long)[k] = unparsed[first + k - 1]
      <3>1. unparsed \in Seq(Symbols)
        BY <1>3
      <3> HIDE DEF first
      <3> QED
        BY <2>2, <3>1, CutOut
    <2> HIDE DEF rest
    <2>5. /\ rest \in Seq(Symbols) /\ Len(rest) = long - first + 1
          /\ \A k \in 1..(long - first + 1) : rest[k] = unparsed[first + k - 1]
      BY <2>3, <2>4
    <2> HIDE DEF long
    <2>6. long - first + 1 = long - Span /\ \A k \in 1..(long - Span) : first + k - 1 = Span + k
      BY <1>3
    <2> HIDE DEF first
    <2> QED
      BY <2>5, <2>6
  <1>8. Body' = body /\ Before(c + 1)' = Before(c + 1) /\ given' = given
    BY <1>1, GivenKept
  <1> HIDE DEF rest, body, long
  <1>9. /\ c + 1 \in 0..n /\ received' \in 0..Len(body)
        /\ Before(c + 1) <= received' /\ Len(rest) = received' - Before(c + 1)
    <2>1. Len(rest) = long - Span /\ long >= Span /\ long = received - Before(c) /\ received' = received
      BY <1>1, <1>2, <1>5, <1>7
    <2>2. received \in 0..Len(body) /\ received \in Nat /\ Span \in Nat
      BY <1>3
    <2>3. c + 1 \in 0..n
      BY <1>3, <1>4
    <2>4. Before(c) \in Nat /\ Before(c + 1) = Before(c) + Span
      BY <1>3
    <2>5. Before(c + 1) <= received /\ Len(rest) = received - Before(c + 1)
      BY <2>1, <2>2, <2>4
    <2> QED
      BY <2>1, <2>2, <2>3, <2>5
  <1>10. ASSUME NEW k \in 1..Len(rest) PROVE rest[k] = body[Before(c + 1) + k]
    <2>1. Span + k \in 1..long /\ k \in 1..(long - Span) /\ Before(c) + (Span + k) = Before(c + 1) + k
      BY <1>2, <1>3, <1>7
    <2>2. unparsed[Span + k] = body[Before(c) + (Span + k)]
      BY <1>5, <2>1
    <2> QED
      BY <1>7, <2>1, <2>2
  <1>11. Waiting(c + 1)'
    BY <1>1, <1>7, <1>8, <1>9, <1>10 DEF Waiting
  <1> QED
    BY <1>3, <1>4, <1>6, <1>11

\* What is left when the stream ended is the last block.
LEMMA TailTaken ==
  ASSUME GivenTyped, NEW c, Waiting(c), TakeTail
  PROVE  /\ c + 1 = Len(given.blocks) /\ c \in Nat /\ Waiting(c + 1)'
         /\ Consume(given.blocks[c + 1], c + 1)
  <1> DEFINE n == Len(given.blocks)
             long == Len(unparsed)
             body == Len(Body)
  <1>1. /\ received = body /\ unparsed # <<>> /\ Boundaries = {} /\ unparsed' = <<>>
        /\ Consume(ParsedPayload(unparsed), Number(unparsed)) /\ given' = given /\ received' = received
    BY DEF TakeTail
  <1>2. /\ c \in 0..n /\ n \in Nat /\ unparsed \in Seq(Symbols) /\ long \in Nat /\ received \in 0..body
        /\ Before(c) \in Nat /\ Before(c + 1) = Before(c) + Span
        /\ Span \in {3, 5} /\ Span = 1 + 2 * EndLength
    <2>1. c \in 0..n /\ n \in Nat /\ unparsed \in Seq(Symbols) /\ long \in Nat /\ received \in 0..body
      BY DEF Waiting, GivenTyped
    <2>2. c \in Nat
      BY <2>1
    <2>3. Before(c) \in Nat /\ Before(c + 1) = Before(c) + Span
      BY <2>2, PlacesAdd
    <2>4. Span \in {3, 5} /\ Span = 1 + 2 * EndLength
      BY PlacesAdd
    <2> QED
      BY <2>1, <2>3, <2>4
  <1>3. long < Span /\ long > 0
    <2>1. long # 0
      BY <1>1, <1>2
    <2> HIDE DEF long
    <2> QED
      BY <1>1, <1>2, <2>1, BoundaryFound DEF long
  <1>4. /\ c < n /\ \A j \in 1..Span : j <= long => unparsed[j] = Block(c + 1)[j]
    <2>1. /\ long > 0 => c < n
          /\ \A j \in 1..Span : j <= long => unparsed[j] = Block(c + 1)[j]
      BY HeadSeen
    <2> QED
      BY <1>3, <2>1
  <1>5. long = received - Before(c)
    BY <1>1 DEF Waiting
  <1>6. c + 1 = n
    <2>1. body > Before(n - 1)
      <3>1. n > 0
        BY <1>2, <1>4
      <3> QED
        BY <3>1, BodyLaid
    <2>2. body < Before(c + 1)
      <3> HIDE DEF long, body
      <3> QED
        BY <1>1, <1>2, <1>3, <1>5
    <2>3. ASSUME c + 1 < n PROVE FALSE
      <3>1. n - 1 \in Nat /\ (c + 1 = n - 1 \/ c + 1 < n - 1) /\ c + 1 \in Nat
        BY <1>2, <2>3
      <3>2. Before(c + 1) <= Before(n - 1) /\ Before(c + 1) \in Nat /\ Before(n - 1) \in Nat
        <4>1. Span \in {3, 5} /\ Before(c + 1) \in Nat /\ Before(n - 1) \in Nat
          BY <3>1, PlacesAdd
        <4>2. c + 1 < n - 1 => Before(c + 1) + Span <= Before(n - 1)
          BY <3>1, PlacesAdd
        <4> HIDE DEF n
        <4> QED
          BY <3>1, <4>1, <4>2
      <3>3. body \in Nat
        BY <1>2
      <3> HIDE DEF body
      <3> QED
        BY <2>1, <2>2, <3>2, <3>3
    <2> QED
      BY <1>2, <1>4, <2>3
  <1>7. Consume(given.blocks[c + 1], c + 1)
    <2>1. unparsed[1] = Line(c + 1) /\ \A k \in 2..long : unparsed[k] \in {CR, LF}
      <3> DEFINE b == Block(c + 1)
      <3>1. /\ b[1] = Line(c + 1)
            /\ given.crlf => b[2] = CR /\ b[3] = LF /\ b[4] = CR /\ b[5] = LF
            /\ ~given.crlf => b[2] = LF /\ b[3] = LF
        BY <1>2, BlockSpans
      <3>2. \A j \in 1..long : j \in 1..Span /\ j <= long
        <4> HIDE DEF long
        <4> QED
          BY <1>2, <1>3
      <3>3. \A j \in 1..long : unparsed[j] = b[j]
        BY <1>4, <3>2
      <3>4. \A k \in 2..Span : b[k] \in {CR, LF}
        <4>1. CASE given.crlf
          <5>1. \A k \in 2..Span : k = 2 \/ k = 3 \/ k = 4 \/ k = 5
            BY <4>1 DEF Span
          <5> HIDE DEF b
          <5> QED
            BY <3>1, <4>1, <5>1
        <4>2. CASE ~given.crlf
          <5>1. \A k \in 2..Span : k = 2 \/ k = 3
            BY <4>2 DEF Span
          <5> HIDE DEF b
          <5> QED
            BY <3>1, <4>2, <5>1
        <4> QED
          BY <4>1, <4>2
      <3>5. 1 \in 1..long /\ \A k \in 2..long : k \in 1..long /\ k \in 2..Span
        <4> HIDE DEF long
        <4> QED
          BY <1>2, <1>3
      <3> HIDE DEF b, long
      <3> QED
        BY <3>1, <3>3, <3>4, <3>5
    <2>2. ParsedPayload(unparsed) = given.blocks[c + 1] /\ Number(unparsed) = c + 1
      <3>1. Len(unparsed) >= 1 /\ c + 1 \in Nat
        BY <1>2, <1>3
      <3> QED
        BY <1>2, <2>1, <3>1, LineParsed
    <2> QED
      BY <1>1, <2>2
  <1>8. Waiting(c + 1)'
    <2>1. Body' = Body
      BY <1>1, GivenKept
    <2>2. <<>> \in Seq(Symbols) /\ c + 1 \in 0..n
      BY <1>2, <1>4
    <2> QED
      BY <1>1, <1>2, <1>6, <2>1, <2>2 DEF Waiting
  <1> QED
    BY <1>2, <1>6, <1>7, <1>8

\* When nothing is left, all blocks were taken.
LEMMA AllTaken ==
  ASSUME GivenTyped, NEW c, Waiting(c), received = Len(Body), unparsed = <<>>
  PROVE  c = Len(given.blocks)
  <1> DEFINE n == Len(given.blocks)
             body == Len(Body)
  <1>1. c \in 0..n /\ n \in Nat /\ received \in 0..body /\ body \in Nat
    BY BodyLaid DEF Waiting, GivenTyped
  <1>2. SUFFICES ASSUME c # n PROVE FALSE
    OBVIOUS
  <1>3. Len(unparsed) = received - Before(c) /\ Len(unparsed) = 0
    BY <1>2 DEF Waiting
  <1>4. n - 1 \in Nat /\ n > 0 /\ (c = n - 1 \/ c < n - 1) /\ c \in Nat
    BY <1>1, <1>2
  <1>5. Before(n - 1) < body
    BY <1>4, BodyLaid
  <1>6. Before(c) <= Before(n - 1) /\ Before(c) \in Nat /\ Before(n - 1) \in Nat
    <2>1. Span \in {3, 5} /\ Before(c) \in Nat /\ Before(n - 1) \in Nat
      BY <1>4, PlacesAdd
    <2>2. c < n - 1 => Before(c) + Span <= Before(n - 1)
      BY <1>4, PlacesAdd
    <2> HIDE DEF n
    <2> QED
      BY <1>4, <2>1, <2>2
  <1> HIDE DEF body, n
  <1> QED
    BY <1>1, <1>3, <1>5, <1>6 DEF body

-----------------------------------------------------------------------------
(* What was said by the first blocks.                                       *)

Slot == [opened : BOOLEAN, args : Seq(Nat), used : BOOLEAN]
Saying == [type : {"text", "reasoning", "usage", "call"}, of : Seq(Nat)]

\* What the turn was given and what is put together is what the first blocks
\* say; none of them ends the stream.
Gathers(c, s) ==
  /\ s \in [Indices -> Slot]
  /\ \A i \in Indices : s[i].used <=> Begun(1..c, i)
  /\ given.by # "gemini" => \A i \in Indices : s[i].args = Numbers(Parts(1..c, i))
Told(c) ==
  /\ \A m \in 1..c : ~Ends(given.blocks[m])
  /\ yielded = Events(Straight(1..c))
  /\ Gathers(c, slots)

LEMMA NumbersFollow ==
  ASSUME GivenTyped, NEW S
  PROVE  /\ Numbers(S) \in Seq(Nat) /\ \A k \in 1..Len(Numbers(S)) : Numbers(S)[k] \in S
         /\ S = {} => Numbers(S) = <<>>
         /\ \A c \in Nat : c + 1 <= Len(given.blocks) /\ S \subseteq 1..c =>
              Numbers(S \cup {c + 1}) = Append(Numbers(S), c + 1)
  <1> DEFINE n == Len(given.blocks) + 1
  <1>1. n \in Nat
    BY DEF GivenTyped
  <1>2. Numbers(S) \in Seq(Nat) /\ \A k \in 1..Len(Numbers(S)) : Numbers(S)[k] \in S
    BY <1>1, OrderOfMembers DEF Numbers
  <1>3. ASSUME S = {} PROVE Numbers(S) = <<>>
    <2>1. \A k \in 0..(n - 1) : k \notin S
      BY <1>3
    <2>2. 0 \in Nat /\ 0 <= n
      BY <1>1
    <2> HIDE DEF n
    <2>3. (\A k \in 0..(n - 1) : k \notin S) => InOrder(S)[n] = InOrder(S)[0]
      BY <1>1, <2>2, OrderGrows
    <2>4. InOrder(S)[0] = <<>>
      BY OrderUnfolds
    <2> QED
      BY <2>1, <2>3, <2>4 DEF Numbers, n
  <1>4. ASSUME NEW c \in Nat, c + 1 <= Len(given.blocks), S \subseteq 1..c
        PROVE  Numbers(S \cup {c + 1}) = Append(Numbers(S), c + 1)
    <2>1. c + 1 \in Nat /\ c + 1 < n /\ \A k \in S : k \in Nat /\ k < c + 1
      BY <1>1, <1>4
    <2> HIDE DEF n
    <2>2. InOrder(S \cup {c + 1})[n] = Append(InOrder(S)[n], c + 1)
      BY <1>1, <2>1, OrderAdded
    <2> QED
      BY <2>2 DEF Numbers, n
  <1> QED
    BY <1>2, <1>3, <1>4

LEMMA EventsFollow ==
  ASSUME GivenTyped, NEW ns \in Seq(Nat), \A k \in 1..Len(ns) : given.blocks[ns[k]].is \in PassedOn
  PROVE  /\ Events(ns) \in Seq(Saying) /\ Len(Events(ns)) = Len(ns)
         /\ \A k \in 1..Len(ns) : Events(ns)[k] = Event(given.blocks[ns[k]].is, ns[k])
  <1>1. \A n \in Nat, t \in PassedOn : Event(t, n) \in Saying
    <2> SUFFICES ASSUME NEW n \in Nat, NEW t \in PassedOn PROVE Event(t, n) \in Saying
      OBVIOUS
    <2>1. <<n>> \in Seq(Nat) /\ t \in {"text", "reasoning", "usage", "call"}
      BY DEF PassedOn
    <2> QED
      BY <2>1 DEF Event, Saying
  <1>2. Len(ns) \in Nat /\ \A k \in 1..Len(ns) : ns[k] \in Nat
    OBVIOUS
  <1>3. \A k \in 1..Len(ns) : Event(given.blocks[ns[k]].is, ns[k]) \in Saying
    BY <1>1, <1>2
  <1> HIDE DEF Event
  <1>4. Events(ns) \in [1..Len(ns) -> Saying]
    BY <1>3 DEF Events
  <1> QED
    BY <1>2, <1>4 DEF Events

LEMMA EventAdded ==
  ASSUME GivenTyped, NEW ns \in Seq(Nat), \A k \in 1..Len(ns) : given.blocks[ns[k]].is \in PassedOn,
         NEW n \in Nat, given.blocks[n].is \in PassedOn
  PROVE  Events(Append(ns, n)) = Append(Events(ns), Event(given.blocks[n].is, n))
  <1> DEFINE more == Append(ns, n)
             said == Events(ns)
             one == Event(given.blocks[n].is, n)
             told == Append(said, one)
             long == Len(ns)
  <1>1. /\ more \in Seq(Nat) /\ Len(more) = long + 1 /\ long \in Nat
        /\ \A k \in 1..long : more[k] = ns[k]
        /\ more[long + 1] = n
    BY Appended
  <1>2. said \in Seq(Saying) /\ Len(said) = long /\ \A k \in 1..long : said[k] = Event(given.blocks[ns[k]].is, ns[k])
    BY EventsFollow
  <1> HIDE DEF more, said, Event
  <1>3. \A k \in 1..(long + 1) : k \in 1..long \/ k = long + 1
    BY <1>1
  <1>4. ASSUME NEW k \in 1..Len(more) PROVE given.blocks[more[k]].is \in PassedOn
    <2>1. k \in 1..long \/ k = long + 1
      BY <1>1, <1>3
    <2> QED
      BY <1>1, <2>1
  <1>5. /\ Events(more) \in Seq(Saying) /\ Len(Events(more)) = long + 1
        /\ \A k \in 1..(long + 1) : Events(more)[k] = Event(given.blocks[more[k]].is, more[k])
    BY <1>1, <1>4, EventsFollow
  <1>6. one \in Saying
    <2>1. long + 1 \in 1..(long + 1) /\ long + 1 \in 1..Len(Events(more))
      BY <1>1, <1>5
    <2>2. Events(more)[long + 1] = one
      BY <1>1, <1>5, <2>1
    <2>3. Events(more)[long + 1] \in Saying
      BY <1>5, <2>1
    <2> QED
      BY <2>2, <2>3
  <1> HIDE DEF one
  <1>7. /\ told \in Seq(Saying) /\ Len(told) = long + 1
        /\ \A k \in 1..long : told[k] = said[k]
        /\ told[long + 1] = one
    BY <1>2, <1>6, Appended
  <1> HIDE DEF told
  <1>8. ASSUME NEW k \in 1..(long + 1) PROVE Events(more)[k] = told[k]
    <2>1. CASE k \in 1..long
      BY <1>1, <1>2, <1>5, <1>7, <2>1
    <2>2. CASE k = long + 1
      BY <1>1, <1>5, <1>7, <2>2 DEF one
    <2> QED
      BY <1>3, <2>1, <2>2
  <1>9. Events(more) = told
    BY <1>5, <1>7, <1>8, SameSequence
  <1> QED
    BY <1>9 DEF more, told, said, one

\* What one more block adds.
LEMMA OneMore ==
  ASSUME GivenTyped, NEW c \in Nat, c + 1 <= Len(given.blocks)
  PROVE  LET p == given.blocks[c + 1]
         IN /\ Straight(1..(c + 1)) =
                 IF p.is \in PassedOn THEN Append(Straight(1..c), c + 1) ELSE Straight(1..c)
            /\ Events(Straight(1..(c + 1))) =
                 IF p.is \in PassedOn THEN Append(Events(Straight(1..c)), Event(p.is, c + 1))
                 ELSE Events(Straight(1..c))
            /\ Straight(1..c) \in Seq(Nat)
            /\ \A k \in 1..Len(Straight(1..c)) : given.blocks[Straight(1..c)[k]].is \in PassedOn
  <1> DEFINE p == given.blocks[c + 1]
             S == {n \in 1..c : given.blocks[n].is \in PassedOn}
             T == {n \in 1..(c + 1) : given.blocks[n].is \in PassedOn}
             ns == Straight(1..c)
  <1>1. \A n \in 1..(c + 1) : n \in 1..c \/ n = c + 1
    OBVIOUS
  <1>2. \A n \in 1..c : n \in 1..(c + 1)
    OBVIOUS
  <1>3. T = IF p.is \in PassedOn THEN S \cup {c + 1} ELSE S
    BY <1>1, <1>2
  <1>4. ns = Numbers(S) /\ Straight(1..(c + 1)) = Numbers(T)
    BY DEF Straight
  <1>5. S \subseteq 1..c
    OBVIOUS
  <1>6. ns \in Seq(Nat) /\ \A k \in 1..Len(ns) : ns[k] \in S
    <2> HIDE DEF S
    <2> QED
      BY <1>4, NumbersFollow
  <1>7. \A k \in 1..Len(ns) : given.blocks[ns[k]].is \in PassedOn
    BY <1>6
  <1>8. Numbers(S \cup {c + 1}) = Append(Numbers(S), c + 1)
    <2> HIDE DEF S
    <2> QED
      BY <1>5, NumbersFollow
  <1> HIDE DEF S, T
  <1>9. Straight(1..(c + 1)) = IF p.is \in PassedOn THEN Append(ns, c + 1) ELSE ns
    BY <1>3, <1>4, <1>8
  <1> HIDE DEF ns
  <1>10. p.is \in PassedOn => Events(Append(ns, c + 1)) = Append(Events(ns), Event(p.is, c + 1))
    <2>1. c + 1 \in Nat
      OBVIOUS
    <2> QED
      BY <1>6, <1>7, <2>1, EventAdded
  <1>11. Events(Straight(1..(c + 1))) = IF p.is \in PassedOn THEN Append(Events(ns), Event(p.is, c + 1)) ELSE Events(ns)
    BY <1>9, <1>10
  <1> QED
    BY <1>6, <1>7, <1>9, <1>11 DEF ns

LEMMA OneMorePart ==
  ASSUME GivenTyped, NEW c \in Nat, c + 1 <= Len(given.blocks), NEW i
  PROVE  LET p == given.blocks[c + 1]
             mine == p.is = "call" /\ p.index = i
             before == Numbers(Parts(1..c, i))
             after == Numbers(Parts(1..(c + 1), i))
         IN /\ ~mine => after = before /\ (Begun(1..(c + 1), i) <=> Begun(1..c, i))
            /\ mine /\ given.by = "openai" => after = Append(before, c + 1) /\ Begun(1..(c + 1), i)
            /\ mine /\ given.by = "anthropic" /\ p.opens => after = <<>> /\ Begun(1..(c + 1), i)
            /\ mine /\ given.by = "anthropic" /\ ~p.opens =>
                 /\ Begun(1..(c + 1), i) <=> Begun(1..c, i)
                 /\ after = IF Begun(1..c, i) THEN Append(before, c + 1) ELSE before
            /\ before \in Seq(Nat) /\ after \in Seq(Nat)
  <1> DEFINE p == given.blocks[c + 1]
             mine == p.is = "call" /\ p.index = i
             F == Fragments(1..c, i)
             G == Fragments(1..(c + 1), i)
             Q == Parts(1..c, i)
             R == Parts(1..(c + 1), i)
             O == Opens(1..c, i)
             U == Opens(1..(c + 1), i)
  <1>1. \A n \in 1..(c + 1) : n \in 1..c \/ n = c + 1
    OBVIOUS
  <1>2. (\A n \in 1..c : n \in 1..(c + 1)) /\ c + 1 \in 1..(c + 1) /\ c + 1 \notin 1..c
    OBVIOUS
  <1>3. /\ F = {n \in 1..c : given.blocks[n].is = "call" /\ given.blocks[n].index = i}
        /\ G = {n \in 1..(c + 1) : given.blocks[n].is = "call" /\ given.blocks[n].index = i}
        /\ O = {n \in F : given.blocks[n].opens} /\ U = {n \in G : given.blocks[n].opens}
    BY DEF Fragments, Opens
  <1>4. /\ Q = {n \in F : given.by = "anthropic" => O # {} /\ \A m \in O : m < n}
        /\ R = {n \in G : given.by = "anthropic" => U # {} /\ \A m \in U : m < n}
    BY DEF Parts
  <1>5. /\ Begun(1..c, i) <=> (given.by = "openai" /\ Q # {}) \/ (given.by = "anthropic" /\ O # {})
        /\ Begun(1..(c + 1), i) <=> (given.by = "openai" /\ R # {}) \/ (given.by = "anthropic" /\ U # {})
    BY DEF Begun
  <1> HIDE DEF F, G, Q, R, O, U
  <1>6. G = IF mine THEN F \cup {c + 1} ELSE F
    BY <1>1, <1>2, <1>3
  <1>7. U = IF mine /\ p.opens THEN O \cup {c + 1} ELSE O
    BY <1>3, <1>6
  <1>8. F \subseteq 1..c /\ O \subseteq F /\ Q \subseteq F /\ c + 1 \notin F
    BY <1>2, <1>3, <1>4
  <1>9. /\ Q \subseteq 1..c /\ \A m \in F : m < c + 1 /\ ~(c + 1 < m)
    BY <1>8
  <1>10. Numbers(Q \cup {c + 1}) = Append(Numbers(Q), c + 1) /\ Numbers(Q) \in Seq(Nat) /\ Numbers(R) \in Seq(Nat)
    BY <1>9, NumbersFollow
  <1>11. ~mine => R = Q /\ U = O
    BY <1>4, <1>6, <1>7
  <1>12. mine /\ given.by = "openai" => R = Q \cup {c + 1}
    <2> SUFFICES ASSUME mine, given.by = "openai" PROVE R = Q \cup {c + 1}
      OBVIOUS
    <2>1. Q = F /\ R = G
      BY <1>4
    <2> QED
      BY <1>6, <2>1
  <1>13. mine /\ given.by = "anthropic" /\ p.opens => R = {} /\ U # {}
    <2> SUFFICES ASSUME mine, given.by = "anthropic", p.opens PROVE R = {} /\ U # {}
      OBVIOUS
    <2>1. c + 1 \in U
      BY <1>7
    <2>2. \A n \in G : ~(c + 1 < n)
      BY <1>6, <1>9
    <2> QED
      BY <1>4, <2>1, <2>2
  <1>14. mine /\ given.by = "anthropic" /\ ~p.opens => U = O /\ R = IF O # {} THEN Q \cup {c + 1} ELSE Q
    <2> SUFFICES ASSUME mine, given.by = "anthropic", ~p.opens
                 PROVE  U = O /\ R = IF O # {} THEN Q \cup {c + 1} ELSE Q
      OBVIOUS
    <2>1. U = O /\ G = F \cup {c + 1}
      BY <1>6, <1>7
    <2>2. CASE O = {}
      BY <1>4, <2>1, <2>2
    <2>3. CASE O # {}
      <3>1. \A m \in O : m < c + 1
        BY <1>8, <1>9
      <3> QED
        BY <1>4, <2>1, <2>3, <3>1
    <2> QED
      BY <2>1, <2>2, <2>3
  <1>15. R = {} => Numbers(R) = <<>>
    BY NumbersFollow
  <1> QED
    BY <1>5, <1>10, <1>11, <1>12, <1>13, <1>14, <1>15 DEF Q, R

LEMMA SayingKept ==
  ASSUME given' = given
  PROVE  \A c : /\ Told(c)' <=> /\ \A m \in 1..c : ~Ends(given.blocks[m])
                                /\ yielded' = Events(Straight(1..c))
                                /\ Gathers(c, slots')
  BY DEF Told, Gathers, Ends, Events, Event, Straight, Numbers, PassedOn, Begun, Parts, Opens, Fragments, InOrder

\* A step of the adapter: the stream goes on and what was told is that of one more
\* block, or it is over.
LEMMA Consumed ==
  ASSUME GivenTyped, NEW c \in Nat, c + 1 <= Len(given.blocks), Told(c),
         Consume(given.blocks[c + 1], c + 1), given' = given, streaming = "reading"
  PROVE  LET p == given.blocks[c + 1]
         IN \/ streaming' = "reading" /\ Told(c + 1)'
            \/ streaming' = "failed" /\ p.is = "error" /\ yielded' = yielded
            \/ /\ streaming' = "over" /\ p.is = "done" /\ given.by = "openai"
               /\ yielded' = yielded \o Calls \o <<[type |-> "done", reason |-> DoneReason]>>
  <1> DEFINE p == given.blocks[c + 1]
             On == /\ ~Ends(p)
                   /\ yielded' = Events(Straight(1..(c + 1)))
                   /\ Gathers(c + 1, slots')
  <1>1. /\ \A m \in 1..c : ~Ends(given.blocks[m])
        /\ yielded = Events(Straight(1..c))
        /\ Gathers(c, slots)
    BY DEF Told
  <1>2. ASSUME On PROVE Told(c + 1)'
    <2>1. \A m \in 1..(c + 1) : m \in 1..c \/ m = c + 1
      OBVIOUS
    <2>2. \A m \in 1..(c + 1) : ~Ends(given.blocks[m])
      BY <1>1, <1>2, <2>1
    <2> QED
      BY <1>2, <2>2, SayingKept
  <1>3. p \in BlockPayloads
    BY DEF GivenTyped
  <1>4. p.is = "call" => p.index \in Indices /\ p.opens \in BOOLEAN
    BY <1>3, StreamAssumption
  <1>5. /\ p.is \notin PassedOn => Events(Straight(1..(c + 1))) = Events(Straight(1..c))
        /\ p.is \in PassedOn => Events(Straight(1..(c + 1))) = Append(Events(Straight(1..c)), Event(p.is, c + 1))
    BY OneMore
  <1>6. ASSUME p.is # "call" \/ given.by = "gemini", slots' = slots PROVE Gathers(c + 1, slots')
    <2>1. CASE given.by = "gemini"
      <3>1. \A d, i : ~Begun(1..d, i)
        BY <2>1 DEF Begun
      <3> QED
        BY <1>1, <1>6, <2>1, <3>1 DEF Gathers
    <2>2. CASE p.is # "call"
      <3>1. \A i : /\ Numbers(Parts(1..(c + 1), i)) = Numbers(Parts(1..c, i))
                   /\ Begun(1..(c + 1), i) <=> Begun(1..c, i)
        BY <2>2, OneMorePart
      <3> QED
        BY <1>1, <1>6, <3>1 DEF Gathers
    <2> QED
      BY <1>6, <2>1, <2>2
  <1> HIDE DEF p
  <1>7. Consume(p, c + 1)
    BY DEF p
  <1>8. CASE PassOn(p, c + 1)
    <2>1. /\ p.is \in {"text", "reasoning", "usage"} /\ yielded' = Append(yielded, Event(p.is, c + 1))
          /\ slots' = slots /\ streaming' = streaming
      BY <1>8 DEF PassOn, Yield
    <2>2. p.is \in PassedOn /\ ~Ends(p) /\ p.is # "call"
      BY <2>1 DEF PassedOn, Ends
    <2>3. On
      BY <1>1, <1>5, <1>6, <2>1, <2>2
    <2> QED
      BY <1>2, <2>1, <2>3
  <1>9. CASE Fragment(p, c + 1)
    <2> DEFINE i == p.index
               next == CASE given.by = "openai" ->
                              [opened |-> slots[i].opened \/ p.opens, args |-> Append(slots[i].args, c + 1), used |-> TRUE]
                         [] given.by = "anthropic" /\ p.opens -> [opened |-> TRUE, args |-> <<>>, used |-> TRUE]
                         [] given.by = "anthropic" /\ ~p.opens ->
                              IF slots[i].used THEN [slots[i] EXCEPT !.args = Append(slots[i].args, c + 1)] ELSE slots[i]
    <2>1. /\ p.is = "call" /\ given.by # "gemini" /\ yielded' = yielded /\ streaming' = streaming
          /\ slots' = [slots EXCEPT ![i] = next]
      BY <1>9 DEF Fragment
    <2>2. p.is \notin PassedOn /\ ~Ends(p) /\ i \in Indices /\ p.opens \in BOOLEAN
      BY <1>4, <2>1 DEF PassedOn, Ends
    <2>3. /\ slots \in [Indices -> Slot]
          /\ \A j \in Indices : slots[j].used <=> Begun(1..c, j)
          /\ \A j \in Indices : slots[j].args = Numbers(Parts(1..c, j))
      BY <1>1, <2>1 DEF Gathers
    <2>4. slots[i] \in Slot /\ slots[i].args \in Seq(Nat) /\ slots[i].opened \in BOOLEAN /\ slots[i].used \in BOOLEAN
      BY <2>2, <2>3 DEF Slot
    <2> DEFINE longer == Append(slots[i].args, c + 1)
    <2>5. longer \in Seq(Nat)
      BY <2>4, Appended
    <2> DEFINE before == Numbers(Parts(1..c, i))
               after == Numbers(Parts(1..(c + 1), i))
    <2>6. /\ given.by = "openai" => after = Append(before, c + 1) /\ Begun(1..(c + 1), i)
          /\ given.by = "anthropic" /\ p.opens => after = <<>> /\ Begun(1..(c + 1), i)
          /\ given.by = "anthropic" /\ ~p.opens =>
               /\ Begun(1..(c + 1), i) <=> Begun(1..c, i)
               /\ after = IF Begun(1..c, i) THEN Append(before, c + 1) ELSE before
      BY <2>1, OneMorePart DEF p
    <2>7. \A j \in Indices : j # i => /\ Numbers(Parts(1..(c + 1), j)) = Numbers(Parts(1..c, j))
                                      /\ Begun(1..(c + 1), j) <=> Begun(1..c, j)
      BY OneMorePart DEF p
    <2>8. slots[i].args = before /\ (slots[i].used <=> Begun(1..c, i))
      BY <2>2, <2>3
    <2> HIDE DEF after, before, i
    <2>9. next \in Slot /\ next.args = after /\ (next.used <=> Begun(1..(c + 1), i))
      <3>1. CASE given.by = "openai"
        <4>1. next = [opened |-> slots[i].opened \/ p.opens, args |-> longer, used |-> TRUE]
          BY <3>1
        <4>2. after = longer
          BY <2>6, <2>8, <3>1
        <4> HIDE DEF longer, next
        <4> QED
          BY <2>2, <2>4, <2>5, <2>6, <3>1, <4>1, <4>2 DEF Slot
      <3>2. CASE given.by = "anthropic" /\ p.opens
        <4>1. next = [opened |-> TRUE, args |-> <<>>, used |-> TRUE]
          BY <3>2
        <4>2. <<>> \in Seq(Nat)
          OBVIOUS
        <4> HIDE DEF next
        <4> QED
          BY <2>6, <3>2, <4>1, <4>2 DEF Slot
      <3>3. CASE given.by = "anthropic" /\ ~p.opens
        <4>1. next = IF slots[i].used THEN [slots[i] EXCEPT !.args = longer] ELSE slots[i]
          BY <3>3
        <4>2. after = IF slots[i].used THEN longer ELSE slots[i].args
          BY <2>6, <2>8, <3>3
        <4>3. Begun(1..(c + 1), i) <=> slots[i].used
          BY <2>6, <2>8, <3>3
        <4> HIDE DEF longer, next
        <4> QED
          BY <2>4, <2>5, <4>1, <4>2, <4>3 DEF Slot
      <3> QED
        BY <2>1, <2>2, <3>1, <3>2, <3>3 DEF GivenTyped
    <2> HIDE DEF next
    <2>10. slots' \in [Indices -> Slot] /\ slots'[i] = next /\ \A j \in Indices : j # i => slots'[j] = slots[j]
      BY <2>1, <2>2, <2>3, <2>9
    <2>11. Gathers(c + 1, slots')
      <3>1. ASSUME NEW j \in Indices
            PROVE  (slots'[j].used <=> Begun(1..(c + 1), j)) /\ slots'[j].args = Numbers(Parts(1..(c + 1), j))
        <4>1. CASE j = i
          BY <2>9, <2>10, <4>1 DEF after
        <4>2. CASE j # i
          BY <2>3, <2>7, <2>10, <4>2
        <4> QED
          BY <4>1, <4>2
      <3> QED
        BY <2>10, <3>1 DEF Gathers
    <2>12. On
      BY <1>1, <1>5, <2>1, <2>2, <2>11
    <2> QED
      BY <1>2, <2>1, <2>12
  <1>10. CASE WholeCall(p, c + 1)
    <2>1. /\ p.is = "call" /\ given.by = "gemini" /\ yielded' = Append(yielded, Event(p.is, c + 1))
          /\ slots' = slots /\ streaming' = streaming
      BY <1>10 DEF WholeCall, Yield
    <2>2. p.is \in PassedOn /\ ~Ends(p)
      BY <2>1 DEF PassedOn, Ends
    <2>3. On
      BY <1>1, <1>5, <1>6, <2>1, <2>2
    <2> QED
      BY <1>2, <2>1, <2>3
  <1>11. CASE FinishReason(p) \/ Skip(p)
    <2>1. /\ p.is \in {"finish", "garbled", "done"} /\ ~Ends(p)
          /\ yielded' = yielded /\ slots' = slots /\ streaming' = streaming
      BY <1>11 DEF FinishReason, Skip, Ends
    <2>2. p.is \notin PassedOn /\ p.is # "call"
      BY <2>1 DEF PassedOn
    <2>3. On
      BY <1>1, <1>5, <1>6, <2>1, <2>2
    <2> QED
      BY <1>2, <2>1, <2>3
  <1>12. CASE ErrorFrame(p)
    BY <1>12 DEF ErrorFrame, p
  <1>13. CASE EndMarker(p)
    BY <1>13 DEF EndMarker, FinishStream, p
  <1> QED
    BY <1>7, <1>8, <1>9, <1>10, <1>11, <1>12, <1>13 DEF Consume

-----------------------------------------------------------------------------
(* The end of an answer.                                                    *)

LEMMA PrefixTold ==
  ASSUME NEW P, NEW c \in Seq(P), NEW d \in Seq(P), Len(c) <= Len(d), \A k \in 1..Len(c) : d[k] = c[k]
  PROVE  IsPrefix(c, d)
  <1> DEFINE n == Len(c)
             few == SubSeq(c, 1, n)
             first == SubSeq(d, 1, n)
  <1>1. n \in Nat /\ Len(d) \in Nat /\ n <= Len(d) /\ 1 \in 1..(n + 1) /\ 1 \in 1..(Len(d) + 1)
        /\ n \in (1 - 1)..n /\ n \in (1 - 1)..Len(d)
    OBVIOUS
  <1>2. few \in Seq(P) /\ Len(few) = n - 1 + 1 /\ \A k \in 1..(n - 1 + 1) : few[k] = c[1 + k - 1]
    BY <1>1, CutOut
  <1>3. first \in Seq(P) /\ Len(first) = n - 1 + 1 /\ \A k \in 1..(n - 1 + 1) : first[k] = d[1 + k - 1]
    BY <1>1, CutOut
  <1>4. \A k \in 1..n : d[k] = c[k]
    OBVIOUS
  <1> HIDE DEF few, first, n
  <1>5. n - 1 + 1 = n /\ \A k \in 1..n : 1 + k - 1 = k
    BY <1>1
  <1>6. \A k \in 1..Len(few) : few[k] = first[k]
    BY <1>2, <1>3, <1>4, <1>5
  <1>7. few = first
    BY <1>2, <1>3, <1>6, SameSequence
  <1> QED
    BY <1>1, <1>7 DEF IsPrefix, few, first, n

LEMMA ReadUpTo ==
  ASSUME GivenTyped, NEW c \in Nat, c <= Len(given.blocks), \A m \in 1..c : ~Ends(given.blocks[m])
  PROVE  /\ 1..c \subseteq Read /\ Read \subseteq 1..Len(given.blocks)
         /\ c = Len(given.blocks) => Read = 1..c /\ ~Fails
         /\ c + 1 <= Len(given.blocks) /\ Ends(given.blocks[c + 1]) =>
              Read = 1..c /\ (Fails <=> given.blocks[c + 1].is = "error")
  <1> DEFINE n == Len(given.blocks)
             Is(m) == Ends(given.blocks[m])
             Wrong(m) == given.blocks[m].is = "error"
  <1>1. n \in Nat /\ DOMAIN given.blocks = 1..n
    BY DEF GivenTyped
  <1>2. Read = {m \in 1..n : \A k \in 1..m : ~Is(k)}
    BY <1>1 DEF Read
  <1>3. Fails <=> \E m \in 1..n : Wrong(m) /\ \A k \in 1..(m - 1) : ~Is(k)
    BY <1>1 DEF Fails
  <1>4. \A m : Wrong(m) => Is(m)
    BY DEF Ends
  <1>5. \A m \in 1..c : ~Is(m)
    OBVIOUS
  <1> HIDE DEF Is, Wrong
  <1>6. \A m \in 1..c : m \in 1..n /\ \A k \in 1..m : k \in 1..c
    BY <1>1
  <1>7. 1..c \subseteq Read /\ Read \subseteq 1..n
    BY <1>2, <1>5, <1>6
  <1>8. ASSUME c = n PROVE Read = 1..c /\ ~Fails
    BY <1>3, <1>4, <1>5, <1>7, <1>8
  <1>9. ASSUME c + 1 <= n, Is(c + 1) PROVE Read = 1..c /\ (Fails <=> Wrong(c + 1))
    <2>1. \A m \in 1..n : m \in 1..c \/ c + 1 \in 1..m
      BY <1>1, <1>9
    <2>2. Read = 1..c
      BY <1>2, <1>7, <1>9, <2>1
    <2>3. c + 1 \in 1..n /\ \A k \in 1..((c + 1) - 1) : k \in 1..c
      BY <1>1, <1>9
    <2>4. Wrong(c + 1) => Fails
      BY <1>3, <1>5, <2>3
    <2>5. \A m \in 1..n : m \in 1..c \/ m = c + 1 \/ c + 1 \in 1..(m - 1)
      BY <1>1, <1>9
    <2>6. Fails => Wrong(c + 1)
      BY <1>3, <1>4, <1>5, <1>9, <2>5
    <2> QED
      BY <2>2, <2>4, <2>6
  <1> QED
    BY <1>7, <1>8, <1>9 DEF Is, Wrong

\* The calls put together are those that were meant.
LEMMA CallsMeant ==
  ASSUME GivenTyped, NEW c \in Nat, Told(c)
  PROVE  Calls = WholeCalls(1..c) /\ WholeCalls(1..c) \in Seq(Saying)
  <1> DEFINE U == {i \in Indices : slots[i].used}
             B == {i \in Indices : Begun(1..c, i)}
             order == InOrder(B)[ParallelCalls]
  <1>1. /\ \A i \in Indices : slots[i].used <=> Begun(1..c, i)
        /\ given.by # "gemini" => \A i \in Indices : slots[i].args = Numbers(Parts(1..c, i))
    BY DEF Told, Gathers
  <1>2. U = B
    BY <1>1
  <1>3. Pending = order /\ Gathered(1..c) = order
    BY <1>2 DEF Pending, Gathered
  <1>4. order \in Seq(Nat) /\ \A k \in 1..Len(order) : order[k] \in B
    <2>1. ParallelCalls \in Nat
      BY StreamAssumption
    <2> HIDE DEF B
    <2> QED
      BY <2>1, OrderOfMembers
  <1>5. \A i \in B : i \in Indices /\ given.by # "gemini"
    BY DEF Begun, GivenTyped
  <1>6. \A i \in B : slots[i].args = Numbers(Parts(1..c, i))
    BY <1>1, <1>5
  <1>7. \A i : Numbers(Parts(1..c, i)) \in Seq(Nat)
    BY NumbersFollow
  <1> HIDE DEF order, B
  <1> DEFINE whole == [k \in 1..Len(order) |-> [type |-> "call", of |-> Numbers(Parts(1..c, order[k]))]]
  <1>8. WholeCalls(1..c) = whole
    BY <1>3 DEF WholeCalls
  <1>9. Calls = [k \in 1..Len(order) |-> [type |-> "call", of |-> slots[order[k]].args]]
    BY <1>3 DEF Calls
  <1>10. \A k \in 1..Len(order) : slots[order[k]].args = Numbers(Parts(1..c, order[k]))
    BY <1>4, <1>6
  <1>11. Calls = whole
    BY <1>9, <1>10
  <1>12. whole \in Seq(Saying)
    <2>1. \A k \in 1..Len(order) : [type |-> "call", of |-> Numbers(Parts(1..c, order[k]))] \in Saying
      BY <1>7 DEF Saying
    <2>2. Len(order) \in Nat
      BY <1>4
    <2> QED
      BY <2>1, <2>2
  <1> QED
    BY <1>8, <1>11, <1>12

LEMMA ToldTyped ==
  ASSUME GivenTyped, NEW S, S \subseteq Nat
  PROVE  /\ Straight(S) \in Seq(Nat) /\ Events(Straight(S)) \in Seq(Saying)
         /\ Len(Events(Straight(S))) = Len(Straight(S))
         /\ \A k \in 1..Len(Straight(S)) :
              Events(Straight(S))[k] = Event(given.blocks[Straight(S)[k]].is, Straight(S)[k])
  <1> DEFINE T == {n \in S : given.blocks[n].is \in PassedOn}
             ns == Straight(S)
  <1>1. ns = Numbers(T)
    BY DEF Straight
  <1>2. ns \in Seq(Nat) /\ \A k \in 1..Len(ns) : ns[k] \in T
    <2> HIDE DEF T
    <2> QED
      BY <1>1, NumbersFollow
  <1>3. \A k \in 1..Len(ns) : given.blocks[ns[k]].is \in PassedOn
    BY <1>2
  <1> HIDE DEF ns, T
  <1> QED
    BY <1>2, <1>3, EventsFollow DEF ns

\* What was told so far is the first of what is meant.
LEMMA ToldFirst ==
  ASSUME GivenTyped, NEW c \in Nat, c <= Len(given.blocks), Told(c)
  PROVE  IsPrefix(yielded, Meant)
  <1> DEFINE n == Len(given.blocks)
             S == {m \in 1..c : given.blocks[m].is \in PassedOn}
             T == {m \in Read : given.blocks[m].is \in PassedOn}
             few == Straight(1..c)
             many == Straight(Read)
  <1>1. n \in Nat /\ 1..c \subseteq Read /\ Read \subseteq 1..n
    BY ReadUpTo DEF Told, GivenTyped
  <1>2. few = InOrder(S)[n + 1] /\ many = InOrder(T)[n + 1]
    BY DEF Straight, Numbers
  <1>3. \A k \in Nat : k \in S <=> (k \in T /\ k < c + 1)
    <2>1. \A k \in Read : k \in Nat /\ k >= 1
      BY <1>1
    <2>2. \A k \in Nat : k >= 1 /\ k < c + 1 <=> k \in 1..c
      OBVIOUS
    <2> QED
      BY <1>1, <2>1, <2>2
  <1>4. Len(few) <= Len(many) /\ \A k \in 1..Len(few) : many[k] = few[k]
    <2>1. c + 1 \in Nat /\ n + 1 \in Nat /\ c + 1 <= n + 1
      BY <1>1
    <2> HIDE DEF S, T, n, few, many
    <2> DEFINE d == n + 1
               m == c + 1
    <2>2. d \in Nat /\ m \in Nat /\ m <= d
      BY <2>1
    <2>3. AreBelow(S, T, m)
      BY <1>3 DEF AreBelow
    <2>4. few = InOrder(S)[d] /\ many = InOrder(T)[d]
      BY <1>2
    <2> HIDE DEF d, m
    <2>5. StartsAs(InOrder(S)[d], InOrder(T)[d])
      BY <2>2, <2>3, OrderOfFirst
    <2> QED
      BY <2>4, <2>5 DEF StartsAs
  <1>5. 1..c \subseteq Nat /\ Read \subseteq Nat
    BY <1>1
  <1> DEFINE said == Events(few)
             saidAll == Events(many)
             calls == WholeCalls(Read)
             ought == saidAll \o calls
  <1>6. few \in Seq(Nat) /\ many \in Seq(Nat)
    BY <1>5, ToldTyped
  <1>7. /\ said \in Seq(Saying) /\ Len(said) = Len(few)
        /\ \A k \in 1..Len(few) : said[k] = Event(given.blocks[few[k]].is, few[k])
        /\ saidAll \in Seq(Saying) /\ Len(saidAll) = Len(many)
        /\ \A k \in 1..Len(many) : saidAll[k] = Event(given.blocks[many[k]].is, many[k])
    BY <1>5, ToldTyped
  <1>8. calls \in Seq(Saying)
    <2> DEFINE order == Gathered(Read)
    <2>1. order \in Seq(Nat)
      <3>1. ParallelCalls \in Nat
        BY StreamAssumption
      <3> QED
        BY <3>1, OrderOfMembers DEF Gathered
    <2> DEFINE one(k) == [type |-> "call", of |-> Numbers(Parts(Read, order[k]))]
    <2>2. \A k \in 1..Len(order) : one(k) \in Saying
      BY NumbersFollow DEF Saying
    <2>3. calls = [k \in 1..Len(order) |-> one(k)]
      BY DEF WholeCalls
    <2> DEFINE long == Len(order)
    <2>4. long \in Nat
      BY <2>1
    <2> HIDE DEF order, calls, one
    <2>5. (\A k \in 1..long : one(k) \in Saying) /\ calls = [k \in 1..long |-> one(k)]
      BY <2>2, <2>3
    <2> HIDE DEF long
    <2>6. calls \in [1..long -> Saying]
      BY <2>5
    <2> QED
      BY <2>4, <2>6
  <1> HIDE DEF few, many, said, saidAll, calls, Event
  <1>9. /\ ought \in Seq(Saying) /\ Len(ought) = Len(saidAll) + Len(calls) /\ Len(calls) \in Nat /\ Len(saidAll) \in Nat
        /\ \A k \in 1..(Len(saidAll) + Len(calls)) :
             ought[k] = IF k <= Len(saidAll) THEN saidAll[k] ELSE calls[k - Len(saidAll)]
    <2>1. saidAll \in Seq(Saying) /\ calls \in Seq(Saying)
      BY <1>7, <1>8
    <2> QED
      BY <2>1, Concatenated
  <1> HIDE DEF ought
  <1>10. Len(few) \in Nat /\ Len(many) \in Nat
    BY <1>6
  <1>11. Len(said) <= Len(ought) /\ Len(said) \in Nat
    BY <1>4, <1>7, <1>9, <1>10
  <1>12. \A k \in 1..Len(said) : k \in 1..Len(many) /\ k \in 1..Len(few) /\ k <= Len(saidAll)
                                 /\ k \in 1..(Len(saidAll) + Len(calls))
    BY <1>4, <1>7, <1>9, <1>10
  <1>13. \A k \in 1..Len(said) : ought[k] = said[k]
    BY <1>4, <1>7, <1>9, <1>12
  <1>14. IsPrefix(said, ought)
    BY <1>7, <1>9, <1>11, <1>13, PrefixTold
  <1>15. said = yielded /\ ought = Meant
    BY DEF Told, said, few, ought, saidAll, many, calls, Meant
  <1> QED
    BY <1>14, <1>15

\* The end: the calls are put behind what was told, and the end behind them.
LEMMA Finished ==
  ASSUME GivenTyped, NEW c \in Nat, Told(c), Read = 1..c, NEW last,
         NEW said, said = yielded \o Calls \o <<last>>
  PROVE  Front(said) = Meant /\ Last(said) = last
  <1> DEFINE P == Saying \cup {last}
             ought == yielded \o Calls
             n == Len(ought)
             one == <<last>>
             front == SubSeq(said, 1, n)
  <1>1. yielded \in Seq(Saying) /\ yielded = Events(Straight(1..c))
    <2>1. 1..c \in SUBSET Nat
      OBVIOUS
    <2> QED
      BY <2>1, ToldTyped DEF Told
  <1>2. Calls \in Seq(Saying) /\ Calls = WholeCalls(1..c)
    BY CallsMeant
  <1>3. ought = Meant
    BY <1>1, <1>2 DEF Meant
  <1>4. ought \in Seq(Saying)
    BY <1>1, <1>2, Concatenated
  <1> DEFINE whole == ought \o one
  <1>5. said = whole
    OBVIOUS
  <1>6. one \in Seq(P) /\ Len(one) = 1 /\ one[1] = last
    <2>1. last \in P
      OBVIOUS
    <2> HIDE DEF P
    <2> QED
      BY <2>1
  <1>7. Saying \in SUBSET P
    OBVIOUS
  <1> HIDE DEF P, ought, one
  <1>8. ought \in Seq(P)
    BY <1>4, <1>7, SeqWidened
  <1>9. /\ said \in Seq(P) /\ Len(said) = n + 1 /\ n \in Nat
        /\ \A k \in 1..(n + 1) : said[k] = IF k <= n THEN ought[k] ELSE one[k - n]
    <2>1. /\ whole \in Seq(P) /\ Len(whole) = Len(ought) + Len(one) /\ Len(ought) \in Nat
          /\ \A k \in 1..(Len(ought) + Len(one)) : whole[k] = IF k <= Len(ought) THEN ought[k] ELSE one[k - Len(ought)]
      BY <1>6, <1>8, Concatenated
    <2> HIDE DEF whole
    <2>2. Len(ought) + Len(one) = n + 1
      BY <1>6
    <2> QED
      BY <1>5, <2>1, <2>2
  <1>10. Last(said) = last
    <2>1. n + 1 \in 1..(n + 1) /\ ~(n + 1 <= n) /\ (n + 1) - n = 1
      BY <1>9
    <2>2. said[n + 1] = last
      BY <1>6, <1>9, <2>1
    <2> QED
      BY <1>9, <2>2 DEF Last
  <1>11. front = Front(said)
    BY <1>9 DEF Front
  <1>12. front = ought
    <2>1. 1 \in 1..(Len(said) + 1) /\ n \in (1 - 1)..Len(said)
      BY <1>9
    <2>2. front \in Seq(P) /\ Len(front) = n - 1 + 1 /\ \A k \in 1..(n - 1 + 1) : front[k] = said[1 + k - 1]
      BY <1>9, <2>1, CutOut
    <2> HIDE DEF front
    <2>3. n - 1 + 1 = n /\ \A k \in 1..n : 1 + k - 1 = k /\ k <= n /\ k \in 1..(n + 1)
      BY <1>9
    <2>4. \A k \in 1..Len(front) : front[k] = ought[k]
      BY <1>9, <2>2, <2>3
    <2> QED
      BY <1>8, <2>2, <2>3, <2>4, SameSequence DEF n
  <1> QED
    BY <1>3, <1>10, <1>11, <1>12

LEMMA MeaningKept ==
  ASSUME given' = given
  PROVE  /\ Meant' = Meant /\ (Fails' <=> Fails)
         /\ Events(Straight(Read))' = Events(Straight(Read))
  <1>1. Read' = Read /\ (Fails' <=> Fails)
    BY DEF Read, Fails, Ends
  <1>2. Events(Straight(Read))' = Events(Straight(Read))
    BY <1>1 DEF Events, Event, Straight, Numbers, PassedOn, InOrder
  <1>3. WholeCalls(Read)' = WholeCalls(Read)
    BY <1>1 DEF WholeCalls, Gathered, Begun, Parts, Opens, Fragments, Numbers, InOrder
  <1> QED
    BY <1>1, <1>2, <1>3 DEF Meant

\* While the answer is read, the parser is at a block, and the turn was told
\* what the blocks before it say.
AnswerInv ==
  /\ GivenTyped
  /\ streaming \in {"reading", "over", "failed"}
  /\ streaming = "reading" => \E c \in Nat : Waiting(c) /\ Told(c)
  /\ streaming # "reading" => AnswerFaithful

LEMMA AnswerInvInit == StreamInit => AnswerInv
  <1> SUFFICES ASSUME StreamInit PROVE AnswerInv
    OBVIOUS
  <1>1. GivenTyped
    <2>1. /\ given.by \in Adapters /\ given.crlf \in BOOLEAN /\ given.lacks \in 0..2
          /\ given.blocks \in BoundedSeq(BlockPayloads, BlockLimit)
      BY DEF StreamInit
    <2>2. PICK m \in 0..BlockLimit : given.blocks \in [1..m -> BlockPayloads]
      BY <2>1 DEF BoundedSeq, SeqOf
    <2>3. m \in Nat
      BY StreamAssumption
    <2>4. given.blocks \in Seq(BlockPayloads)
      BY <2>2, <2>3
    <2>5. Adapters \subseteq {"openai", "anthropic", "gemini"}
      BY StreamAssumption
    <2> QED
      BY <2>1, <2>4, <2>5 DEF GivenTyped
  <1>2. Waiting(0)
    <2>1. Body \in Seq(Symbols) /\ Len(given.blocks) \in Nat /\ Before(0) = 0
      <3>1. Body \in Seq(Symbols)
        BY <1>1, BodyLaid
      <3>2. Len(given.blocks) \in Nat
        BY <1>1 DEF GivenTyped
      <3> QED
        BY <1>1, <3>1, <3>2, PlacesAdd
    <2>2. received = 0 /\ unparsed = <<>>
      BY DEF StreamInit
    <2>3. unparsed \in Seq(Symbols) /\ Len(unparsed) = 0
      BY <2>2
    <2> DEFINE body == Body
    <2>4. Len(body) \in Nat
      BY <2>1
    <2> HIDE DEF body
    <2>5. 0 \in 0..Len(given.blocks) /\ received \in 0..Len(body) /\ 0 <= received /\ Len(unparsed) = received - 0
      BY <2>1, <2>2, <2>3, <2>4
    <2> QED
      BY <2>1, <2>3, <2>5 DEF Waiting, body
  <1>3. Told(0)
    <2>1. 1..0 = {}
      OBVIOUS
    <2> DEFINE none == 1..0
    <2>2. none = {}
      BY <2>1
    <2> HIDE DEF none
    <2>3. Straight(none) = <<>>
      <3>1. {n \in none : given.blocks[n].is \in PassedOn} = {}
        BY <2>2
      <3> QED
        BY <1>1, <3>1, NumbersFollow DEF Straight
    <2>4. Events(<<>>) = <<>>
      BY DEF Events
    <2>5. \A i : Fragments(none, i) = {} /\ Opens(none, i) = {} /\ Parts(none, i) = {} /\ ~Begun(none, i)
      BY <2>2 DEF Fragments, Opens, Parts, Begun
    <2>6. \A i : Numbers(Parts(none, i)) = <<>>
      BY <1>1, <2>5, NumbersFollow
    <2>7. slots = [i \in Indices |-> NoSlot] /\ yielded = <<>>
      BY DEF StreamInit
    <2>8. NoSlot \in Slot /\ NoSlot.args = <<>> /\ ~NoSlot.used
      <3>1. <<>> \in Seq(Nat)
        OBVIOUS
      <3> QED
        BY <3>1 DEF NoSlot, Slot
    <2>9. /\ slots \in [Indices -> Slot]
          /\ \A i \in Indices : slots[i].args = <<>> /\ ~slots[i].used
      BY <2>7, <2>8
    <2>10. Gathers(0, slots)
      BY <2>5, <2>6, <2>9 DEF Gathers, none
    <2>11. yielded = Events(Straight(1..0))
      BY <2>3, <2>4, <2>7 DEF none
    <2>12. \A m \in 1..0 : ~Ends(given.blocks[m])
      OBVIOUS
    <2> QED
      BY <2>10, <2>11, <2>12 DEF Told
  <1>4. streaming = "reading" /\ 0 \in Nat
    BY DEF StreamInit
  <1> QED
    BY <1>1, <1>2, <1>3, <1>4 DEF AnswerInv

\* A block was taken at which the answer so far was told.
LEMMA AnswerAdvances ==
  ASSUME GivenTyped, NEW c \in Nat, Told(c), c + 1 \in 1..Len(given.blocks), Waiting(c + 1)',
         Consume(given.blocks[c + 1], c + 1), given' = given, streaming = "reading"
  PROVE  AnswerInv'
  <1> DEFINE p == given.blocks[c + 1]
             last == [type |-> "done", reason |-> DoneReason]
  <1>1. c + 1 \in Nat /\ c + 1 <= Len(given.blocks) /\ c <= Len(given.blocks) /\ Len(given.blocks) \in Nat
    BY DEF GivenTyped
  <1>2. \/ streaming' = "reading" /\ Told(c + 1)'
        \/ streaming' = "failed" /\ p.is = "error" /\ yielded' = yielded
        \/ /\ streaming' = "over" /\ p.is = "done" /\ given.by = "openai"
           /\ yielded' = yielded \o Calls \o <<last>>
    BY <1>1, Consumed
  <1>3. GivenTyped'
    BY GivenKept
  <1>4. CASE streaming' = "reading" /\ Told(c + 1)'
    BY <1>1, <1>3, <1>4 DEF AnswerInv
  <1>5. ASSUME Ends(p) PROVE Read = 1..c /\ (Fails <=> p.is = "error")
    BY <1>1, <1>5, ReadUpTo DEF Told
  <1>6. /\ Meant' = Meant /\ (Fails' <=> Fails)
        /\ Events(Straight(Read))' = Events(Straight(Read))
    BY MeaningKept
  <1>7. CASE streaming' = "failed" /\ p.is = "error" /\ yielded' = yielded
    <2>1. Read = 1..c /\ Fails
      BY <1>5, <1>7 DEF Ends
    <2>2. yielded' = Events(Straight(Read)) /\ Fails
      BY <1>7, <2>1 DEF Told
    <2>3. AnswerFaithful'
      BY <1>6, <1>7, <2>2 DEF AnswerFaithful
    <2> QED
      BY <1>3, <1>7, <2>3 DEF AnswerInv
  <1>8. CASE /\ streaming' = "over" /\ p.is = "done" /\ given.by = "openai"
             /\ yielded' = yielded \o Calls \o <<last>>
    <2>1. Read = 1..c /\ ~Fails
      BY <1>5, <1>8 DEF Ends
    <2> HIDE DEF last
    <2>2. Front(yielded') = Meant /\ Last(yielded') = last
      BY <1>8, <2>1, Finished
    <2>3. last.type = "done"
      BY DEF last
    <2>4. AnswerFaithful'
      BY <1>6, <1>8, <2>1, <2>2, <2>3 DEF AnswerFaithful
    <2> QED
      BY <1>3, <1>8, <2>4 DEF AnswerInv
  <1> QED
    BY <1>2, <1>4, <1>7, <1>8

LEMMA AnswerInvStep == AnswerInv /\ [StreamNext]_streamVars => AnswerInv'
  <1> SUFFICES ASSUME AnswerInv, [StreamNext]_streamVars PROVE AnswerInv'
    OBVIOUS
  <1>1. GivenTyped
    BY DEF AnswerInv
  <1>2. ASSUME streaming = "reading" PROVE \E c \in Nat : Waiting(c) /\ Told(c)
    BY <1>2 DEF AnswerInv
  <1>3. CASE Receive
    <2>1. PICK c \in Nat : Waiting(c) /\ Told(c)
      BY <1>2, <1>3 DEF Receive
    <2>2. Waiting(c)'
      BY <1>1, <1>3, <2>1, Received
    <2>3. Told(c)'
      BY <1>3, <2>1, SayingKept DEF Receive, Told
    <2> QED
      BY <1>1, <1>3, <2>2, <2>3, GivenKept DEF AnswerInv, Receive
  <1>4. CASE TakeBlock
    <2>1. PICK c \in Nat : Waiting(c) /\ Told(c)
      BY <1>2, <1>4 DEF TakeBlock
    <2>2. c + 1 \in 1..Len(given.blocks) /\ Waiting(c + 1)' /\ Consume(given.blocks[c + 1], c + 1)
      BY <1>1, <1>4, <2>1, BlockTaken
    <2> QED
      BY <1>1, <1>4, <2>1, <2>2, AnswerAdvances DEF TakeBlock
  <1>5. CASE TakeTail
    <2>1. PICK c \in Nat : Waiting(c) /\ Told(c)
      BY <1>2, <1>5 DEF TakeTail
    <2>2. c + 1 = Len(given.blocks) /\ Waiting(c + 1)' /\ Consume(given.blocks[c + 1], c + 1)
      BY <1>1, <1>5, <2>1, TailTaken
    <2>3. c + 1 \in 1..Len(given.blocks)
      BY <2>2
    <2> QED
      BY <1>1, <1>5, <2>1, <2>2, <2>3, AnswerAdvances DEF TakeTail
  <1>6. CASE StreamDone
    <2>1. PICK c \in Nat : Waiting(c) /\ Told(c)
      BY <1>2, <1>6 DEF StreamDone
    <2>2. c = Len(given.blocks)
      BY <1>1, <1>6, <2>1, AllTaken DEF StreamDone
    <2>3. Read = 1..c /\ ~Fails
      BY <1>1, <2>1, <2>2, ReadUpTo DEF Told
    <2> DEFINE last == [type |-> "done", reason |-> DoneReason]
    <2>4. given' = given /\ streaming' = "over" /\ yielded' = yielded \o Calls \o <<last>>
      BY <1>6 DEF StreamDone, FinishStream
    <2> HIDE DEF last
    <2>5. Front(yielded') = Meant /\ Last(yielded') = last
      BY <1>1, <2>1, <2>3, <2>4, Finished
    <2>6. last.type = "done"
      BY DEF last
    <2>7. Meant' = Meant /\ (Fails' <=> Fails)
      BY <2>4, MeaningKept
    <2>8. AnswerFaithful'
      BY <2>3, <2>4, <2>5, <2>6, <2>7 DEF AnswerFaithful
    <2> QED
      BY <1>1, <2>4, <2>8, GivenKept DEF AnswerInv
  <1>7. CASE UNCHANGED streamVars
    <2>1. /\ given' = given /\ received' = received /\ unparsed' = unparsed /\ slots' = slots
          /\ yielded' = yielded /\ streaming' = streaming
      BY <1>7 DEF streamVars
    <2>2. CASE streaming = "reading"
      <3>1. PICK c \in Nat : Waiting(c) /\ Told(c)
        BY <1>2, <2>2
      <3>2. Told(c)'
        BY <2>1, <3>1, SayingKept DEF Told
      <3>3. Waiting(c)'
        BY <2>1, <3>1, GivenKept DEF Waiting
      <3> QED
        BY <1>1, <2>1, <2>2, <3>2, <3>3, GivenKept DEF AnswerInv
    <2>3. CASE streaming # "reading"
      <3>1. AnswerFaithful
        BY <2>3 DEF AnswerInv
      <3>2. /\ Meant' = Meant /\ (Fails' <=> Fails)
            /\ Events(Straight(Read))' = Events(Straight(Read))
        BY <2>1, MeaningKept
      <3>3. AnswerFaithful'
        BY <2>1, <2>3, <3>1, <3>2 DEF AnswerFaithful
      <3> QED
        BY <1>1, <2>1, <2>3, <3>3, GivenKept DEF AnswerInv
    <2> QED
      BY <2>2, <2>3
  <1> QED
    BY <1>3, <1>4, <1>5, <1>6, <1>7 DEF StreamNext

\* While a provider's answer is read (transport/sse.ts), the parser is at the
\* beginning of a block, whatever chunks came, and the turn was told what the
\* blocks before it say.
THEOREM AnswerInvariance == StreamSpec => []AnswerInv
  BY AnswerInvInit, AnswerInvStep, PTL DEF StreamSpec

\* However the bytes of a provider's answer are cut (transport/sse.ts), the
\* adapters (adapters/openai.ts, anthropic.ts, gemini.ts) give the turn what the
\* provider said: each text in order and once, each call whole and behind the
\* text, the end last, and after an error what came before it.
THEOREM AnswerIsFaithful == StreamSpec => []AnswerFaithful
  <1>1. AnswerInv => AnswerFaithful
    <2> SUFFICES ASSUME AnswerInv, streaming = "reading" PROVE AnswerFaithful
      BY DEF AnswerInv
    <2>1. PICK c \in Nat : Waiting(c) /\ Told(c)
      BY DEF AnswerInv
    <2>2. GivenTyped /\ c <= Len(given.blocks)
      BY <2>1 DEF AnswerInv, Waiting, GivenTyped
    <2>3. IsPrefix(yielded, Meant)
      BY <2>1, <2>2, ToldFirst
    <2> QED
      BY <2>3 DEF AnswerFaithful
  <1> QED
    BY <1>1, AnswerInvariance, PTL
=============================================================================
