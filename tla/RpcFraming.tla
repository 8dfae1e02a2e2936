----------------------------- MODULE RpcFraming -----------------------------
(***************************************************************************)
(* One call in one of the four RPC protocols Cursor's clients speak: how    *)
(* the request's content type is read (packages/protocol/src/connect/       *)
(* content-type.ts), how messages, ends and errors are put into the body    *)
(* (response.ts, error.ts), the five-byte envelope and the incremental      *)
(* decoder that finds it again in chunks cut anywhere (envelope.ts), and    *)
(* what the handlers read of the request                                   *)
(* (packages/server/src/rpc/handlers/agent-run.ts).                        *)
(*                                                                         *)
(* Bodies are sequences of bytes, scaled down: a byte has Base values and   *)
(* the length of a frame takes two of them.  The JSON and header texts that *)
(* carry a status are one byte, the status: 0 for success.                  *)
(***************************************************************************)
EXTENDS Naturals, Sequences, SequencesExt

CONSTANTS
  Base,        \* values of a byte
  Protocols,   \* the protocols considered
  Payload,     \* messages, as bytes
  Codes,       \* gRPC status numbers of errors
  AnswerLimit  \* bound: messages of a streamed answer

ASSUME FramingAssumption ==
  /\ Base \in Nat \ {0, 1}
  /\ Protocols \subseteq {"connect-unary", "connect-stream", "grpc", "grpc-web"}
  /\ \A p \in Payload : p \in Seq(0..(Base - 1)) /\ Len(p) < Base * Base
                        /\ (p # <<>> => p[1] # 0)   \* no field has the number 0
  /\ Codes \subseteq 1..(Base - 1)
  /\ AnswerLimit \in Nat

VARIABLES
  rpc,      \* the call: its protocol, its request, whether that is enveloped
  rpcStep,  \* "sent", "handling", "streaming", "answered" or "forwarded"
  heard,    \* the message the handler read of the request
  meant,    \* what the handlers answered: messages, and how it ended
  wire,     \* the response: status line, body bytes so far, whether it ended
  taken,    \* bytes of the body the client has taken in
  held,     \* bytes of which no whole frame came yet
  frames    \* frames the client decoded

rpcVars == <<rpc, rpcStep, heard, meant, wire, taken, held, frames>>

Open == Base            \* no end yet: not a status
Unheard == <<Base>>     \* not a message

EndStreamFlag == 2          \* FLAG_END_STREAM
TrailerFlag == 3            \* FLAG_TRAILER, which is 128

-----------------------------------------------------------------------------
(* Envelopes.                                                              *)

Enveloped == rpc.protocol # "connect-unary"

\* A flag byte, the length from its high byte to its low, the payload.
Envelope(payload, flags) ==
  <<flags, (Len(payload) \div Base) % Base, Len(payload) % Base>> \o payload

Header == 3
FrameLength(bytes) == Header + bytes[2] * Base + bytes[3]
Whole(bytes) == Len(bytes) >= Header /\ Len(bytes) >= FrameLength(bytes)

\* The loop of push: the frame at the head of some bytes is taken off them, if
\* it is there whole; a frame has a byte at least.
Frame(bytes) == [flags |-> bytes[1], payload |-> SubSeq(bytes, Header + 1, FrameLength(bytes))]
Rest(bytes) == SubSeq(bytes, FrameLength(bytes) + 1, Len(bytes))
TakeFrame(got) ==
  IF Whole(got.rest)
  THEN [frames |-> Append(got.frames, Frame(got.rest)), rest |-> Rest(got.rest)]
  ELSE got
Drained(bytes) ==
  LET drained[n \in 0..Len(bytes)] ==
        IF n = 0 THEN [frames |-> <<>>, rest |-> bytes] ELSE TakeFrame(drained[n - 1])
  IN drained[Len(bytes)]

-----------------------------------------------------------------------------
(* The request.                                                            *)

\* A client of an enveloping protocol sends its request in a frame; the
\* repository's own tests send it bare.
RpcInit ==
  /\ rpc \in [protocol : Protocols, request : Payload, framed : BOOLEAN]
  /\ rpc.framed => Enveloped
  /\ rpcStep = "sent"
  /\ heard = Unheard
  /\ meant = [messages |-> <<>>, end |-> Open]
  /\ wire = [status |-> Open, body |-> <<>>, ended |-> FALSE]
  /\ taken = 0
  /\ held = <<>>
  /\ frames = <<>>

RequestBody == IF rpc.framed THEN Envelope(rpc.request, 0) ELSE rpc.request

\* The handlers decode the body as it is.  A frame is no message: its flag
\* byte is the tag of a field without a number.
Understood == RequestBody = <<>> \/ RequestBody[1] # 0

HandleRequest ==
  /\ rpcStep = "sent"
  /\ heard' = IF Understood THEN RequestBody ELSE Unheard
  /\ rpcStep' = IF Understood THEN "handling" ELSE "forwarded"
  /\ UNCHANGED <<rpc, meant, wire, taken, held, frames>>

-----------------------------------------------------------------------------
(* The response.                                                           *)

\* The frame that ends a stream; gRPC has none.
StreamEnd(status) ==
  CASE rpc.protocol = "connect-stream" -> Envelope(<<status>>, EndStreamFlag)
    [] rpc.protocol = "grpc-web" -> Envelope(<<status>>, TrailerFlag)
    [] OTHER -> <<>>

FrameMessage(message) == IF Enveloped THEN Envelope(message, 0) ELSE message

\* Trailers cannot be sent before the stream is ready for them, so over gRPC a
\* response sent in one piece breaks off with its head out.
Answered(status, body, messages, end) ==
  /\ wire' = [status |-> status, ended |-> TRUE,
              body |-> IF rpc.protocol = "grpc" THEN <<>> ELSE body]
  /\ meant' = [messages |-> messages, end |-> end]
  /\ rpcStep' = "answered"
  /\ UNCHANGED <<rpc, heard, taken, held, frames>>

UnaryResponse(message) ==
  /\ rpcStep = "handling"
  /\ Answered(0, FrameMessage(message) \o StreamEnd(0), <<message>>, 0)

\* A handler that throws before it answered; only unary Connect has a status
\* for it, and the body carries the code.
ErrorResponse(code) ==
  /\ rpcStep = "handling"
  /\ Answered(IF Enveloped THEN 0 ELSE code,
              IF Enveloped THEN StreamEnd(code) ELSE <<code>>, <<>>, code)

\* A stream is written as it comes; over unary Connect its messages are bare.
StreamMessage(message) ==
  /\ rpcStep \in {"handling", "streaming"}
  /\ Len(meant.messages) < AnswerLimit
  /\ wire' = [wire EXCEPT !.status = 0, !.body = @ \o FrameMessage(message)]
  /\ meant' = [meant EXCEPT !.messages = Append(@, message)]
  /\ rpcStep' = "streaming"
  /\ UNCHANGED <<rpc, heard, taken, held, frames>>

\* The stream's end says how it went; the writer sends no trailers with it.
CloseStream(status) ==
  /\ rpcStep = "streaming"
  /\ wire' = [wire EXCEPT !.body = @ \o StreamEnd(status), !.ended = TRUE]
  /\ meant' = [meant EXCEPT !.end = status]
  /\ rpcStep' = "answered"
  /\ UNCHANGED <<rpc, heard, taken, held, frames>>

-----------------------------------------------------------------------------
(* The client.                                                             *)

\* Faulty: what is left of a chunk is forgotten with it.
TakeChunkAlone ==
  /\ Enveloped
  /\ \E upTo \in (taken + 1)..Len(wire.body) :
       LET bytes == SubSeq(wire.body, taken + 1, upTo)
       IN /\ taken' = upTo
          /\ frames' = frames \o Drained(bytes).frames
          /\ held' = Drained(bytes).rest
  /\ UNCHANGED <<rpc, rpcStep, heard, meant, wire>>

TakeChunk ==
  /\ Enveloped
  /\ \E upTo \in (taken + 1)..Len(wire.body) :
       LET bytes == held \o SubSeq(wire.body, taken + 1, upTo)
       IN /\ taken' = upTo
          /\ frames' = frames \o Drained(bytes).frames
          /\ held' = Drained(bytes).rest
  /\ UNCHANGED <<rpc, rpcStep, heard, meant, wire>>

RpcNext ==
  \/ HandleRequest
  \/ \E message \in Payload : UnaryResponse(message) \/ StreamMessage(message)
  \/ \E code \in Codes : ErrorResponse(code)
  \/ \E status \in {0} \cup Codes : CloseStream(status)
  \/ TakeChunk

RpcSpec == RpcInit /\ [][RpcNext]_rpcVars

-----------------------------------------------------------------------------
(* Properties.                                                             *)

\* What the client makes of the response when it has all of it: the messages,
\* and the status it ended with or Open if it never learned one.
Payloads(fs) == FlattenSeq([k \in 1..Len(fs) |-> IF fs[k].flags = 0 THEN <<fs[k].payload>> ELSE <<>>])
Statuses(fs) == FlattenSeq([k \in 1..Len(fs) |-> IF fs[k].flags = 0 THEN <<>> ELSE <<fs[k].payload[1]>>])
Learned ==
  IF Enveloped
  THEN [messages |-> Payloads(frames), end |-> IF Statuses(frames) = <<>> THEN Open ELSE Statuses(frames)[1]]
  ELSE IF wire.status = 0 THEN [messages |-> <<wire.body>>, end |-> 0]
       ELSE [messages |-> <<>>, end |-> wire.status]

\* A stream over unary Connect has no frames: two messages of it, or one and a
\* failure, cannot be told apart.
Blurred ==
  ~Enveloped /\ \/ Len(meant.messages) > 1
                \/ Len(meant.messages) = 1 /\ meant.end # 0

\* However the body is cut, the client takes the messages for what they are
\* and in order, never more than were written; nothing of it is left over; and
\* it learns how the call ended, except of a blurred stream, and over gRPC, where
\* it learns nothing rather than a success that was none.
AnswerUnderstood ==
  /\ Enveloped => IsPrefix(Learned.messages, meant.messages)
  /\ wire.ended /\ (Enveloped => taken = Len(wire.body)) =>
       /\ held = <<>>
       /\ rpc.protocol # "grpc" /\ ~Blurred => Learned = meant
       /\ rpc.protocol = "grpc" => Learned.end = Open
=============================================================================
