-------------------------- MODULE RequestPathProofs --------------------------
(***************************************************************************)
(* Proofs about a request on its way.  RequestPath, for answers of any     *)
(* number of parts: what the response is at every stage, how often the     *)
(* official API is asked, and that the response is an honest answer.       *)
(* ModelCatalogue: a turn goes to the provider the list named.             *)
(* RequestRouting, for rules, paths and tables of any length: each decision*)
(* is the one the configuration in force calls for, the most specific rule *)
(* that claims the path first.                                             *)
(* MessageCodec, for any schema, messages of any number of fields and      *)
(* nested to any depth: what is decoded, edited in one field and encoded   *)
(* again says what it said.                                                *)
(***************************************************************************)
EXTENDS
  RequestPath, RequestRouting, ModelCatalogue, MessageCodec,
  WellFoundedInduction, FiniteSetTheorems, TLAPS

Blank == [phase |-> "none", from |-> "server", sent |-> 0]

\* Nothing is written before the stage that writes, and what is relayed is
\* what upstream gave so far.
Written ==
  /\ stage \in Stages \ {"streams", "relays", "finished"} => answer = Blank
  /\ stage = "streams" => answer.phase = "open" /\ answer.from = "server"
  /\ stage = "relays" =>
       \/ upstream = "asked" /\ answer = Blank /\ given = 0
       \/ upstream = "answering" /\ answer.phase = "open" /\ answer.from = "upstream"
  /\ stage = "finished" /\ answer.phase = "open" => answer.from = "server"
  /\ answer.from = "upstream" => answer.sent = given

\* Before it asks, a handler has asked for nothing; the proxy asks after a
\* handler did only where fetch brought nothing.
Counted ==
  /\ stage \in {"arrived", "reads", "waits", "streams", "fetches"} =>
       asked = 0 /\ fetched = "unasked"
  /\ asked = 0 => upstream = "idle"
  /\ stage \in {"fetches", "asks"} => request.path = "models"
  /\ stage = "asks" => asked = 1 /\ (fetched = "answer" => upstream = "complete")
  /\ stage = "forwards" =>
       asked = 0 \/ (asked = 1 /\ request.path = "models" /\ fetched = "nothing")
  /\ AskedOnce

IInv == TypeOK /\ Written /\ Counted
-----------------------------------------------------------------------------
(* The ways to write a response that was not begun *)

Over(p) == [phase |-> p, from |-> "server", sent |-> 0]

LEMMA SentOnce ==
  ASSUME answer = Blank, SendJson \/ SendAnswer \/ SendJsonOrDestroy
  PROVE  answer' \in {Over("whole"), Over("cut")}
  <1>1. ASSUME NEW p \in {"whole", "cut"} PROVE [Blank EXCEPT !.phase = p] = Over(p)
    BY DEF Blank, Over
  <1>2. Blank.phase = "none"
    BY DEF Blank
  <1> QED
    BY <1>1, <1>2 DEF SendJson, SendAnswer, SendJsonOrDestroy

LEMMA Thrown ==
  ASSUME answer = Blank, Throws
  PROVE  answer' \in {Over("whole"), Over("cut")} /\ stage' = "finished"
  BY SentOnce DEF Throws

LEMMA Forwarded ==
  ASSUME answer = Blank, Forward
  PROVE  \/ answer' = Blank /\ stage' = "forwards"
         \/ answer' \in {Over("whole"), Over("cut")} /\ stage' = "finished"
  BY SentOnce DEF Forward

LEMMA StreamBegun ==
  ASSUME answer = Blank, NEW writer, BeginStream(writer)
  PROVE  answer' = [phase |-> "open", from |-> writer, sent |-> 0]
  BY DEF BeginStream, Blank

LEMMA PartWritten ==
  ASSUME TypeOK, WritePart
  PROVE  /\ answer.phase = "open"
         /\ answer.sent + 1 \in 0..MaxParts
         /\ answer' = [phase |-> "open", from |-> answer.from, sent |-> answer.sent + 1]
  BY PartsAssumption DEF TypeOK, WritePart

LEMMA StreamEnded ==
  ASSUME TypeOK, EndStream
  PROVE  \/ answer.phase # "open" /\ answer' = answer
         \/ /\ answer.phase = "open"
            /\ answer' = [phase |-> "whole", from |-> answer.from, sent |-> answer.sent]
  BY DEF TypeOK, EndStream
-----------------------------------------------------------------------------
(* The invariant is inductive *)

LEMMA InitInv == ASSUME Init PROVE IInv
  <1>1. TypeOK
    <2>1. answer \in [phase : {"none", "open", "whole", "cut"},
                      from : {"server", "upstream"}, sent : 0..MaxParts]
      BY PartsAssumption DEF Init
    <2>2. given \in 0..MaxParts /\ asked \in 0..2
      BY PartsAssumption DEF Init
    <2> QED
      BY <2>1, <2>2 DEF Init, TypeOK, Stages, Upstreams
  <1>2. Written
    BY DEF Init, Written, Blank
  <1>3. Counted
    BY DEF Init, Counted, AskedOnce
  <1> QED
    BY <1>1, <1>2, <1>3 DEF IInv

\* A response written in one piece ends the exchange.
LEMMA Finishing ==
  ASSUME IInv, answer' \in {Over("whole"), Over("cut")}, stage' = "finished",
         UNCHANGED <<client, source>>
  PROVE  IInv'
  <1>1. /\ answer'.from = "server"
        /\ answer'.phase \in {"whole", "cut"}
        /\ answer'.sent = 0
        /\ answer' \in [phase : {"none", "open", "whole", "cut"},
                        from : {"server", "upstream"}, sent : 0..MaxParts]
    BY PartsAssumption DEF Over
  <1>2. TypeOK'
    BY <1>1 DEF IInv, TypeOK, client, source, Stages
  <1>3. Written'
    BY <1>1 DEF Written, Stages
  <1>4. Counted'
    BY DEF IInv, Counted, AskedOnce, client, source
  <1> QED
    BY <1>2, <1>3, <1>4 DEF IInv

LEMMA Forwarding ==
  ASSUME IInv, answer = Blank, Forward, UNCHANGED <<client, source>>,
         asked = 0 \/ (asked = 1 /\ request.path = "models" /\ fetched = "nothing")
  PROVE  IInv'
  <1>1. CASE answer' = Blank /\ stage' = "forwards"
    <2>1. TypeOK' /\ Counted'
      BY <1>1 DEF IInv, TypeOK, Counted, AskedOnce, client, source, Stages
    <2>2. Written'
      BY <1>1 DEF Written, Blank, Stages
    <2> QED
      BY <2>1, <2>2 DEF IInv
  <1> QED
    BY <1>1, Forwarded, Finishing

\* The stages before a response, and between them, write nothing.
LEMMA NothingBegun ==
  ASSUME IInv, stage \in Stages \ {"streams", "relays", "finished"}
  PROVE  answer = Blank
  BY DEF IInv, Written

LEMMA VerdictKeeps == ASSUME IInv, Verdict PROVE IInv'
  <1>1. /\ stage = "arrived" /\ answer = Blank /\ asked = 0
        /\ UNCHANGED <<client, source>>
    BY NothingBegun DEF IInv, Counted, Verdict, RefuseHandshake, Control, Subscribe, RefuseUpgrade,
         AnswerAtOnce, ForwardUnclaimed, CallHandler, NotRead, CallModels, Passed, Arrived, Stages
  <1>2. CASE (SendJson \/ SendAnswer) /\ stage' = "finished"
    BY <1>1, <1>2, SentOnce, Finishing
  <1>3. CASE Forward
    BY <1>1, <1>3, Forwarding
  <1>4. CASE Subscribe
    <2>1. answer' = [phase |-> "open", from |-> "server", sent |-> 0] /\ stage' = "finished"
      BY <1>1, <1>4, StreamBegun DEF Subscribe
    <2>2. TypeOK'
      BY <1>1, <2>1, PartsAssumption DEF IInv, TypeOK, client, source, Stages
    <2>3. Written' /\ Counted'
      BY <1>1, <2>1 DEF IInv, Written, Counted, AskedOnce, client, source, Stages
    <2> QED
      BY <2>2, <2>3 DEF IInv
  <1>5. CASE stage' = "reads" /\ answer' = answer
    <2>1. TypeOK' /\ Counted'
      BY <1>1, <1>5 DEF IInv, TypeOK, Counted, AskedOnce, client, source, Stages
    <2>2. Written'
      BY <1>1, <1>5 DEF Written, Blank, Stages
    <2> QED
      BY <2>1, <2>2 DEF IInv
  <1>6. CASE CallModels
    <2>1. TypeOK' /\ Counted'
      BY <1>1, <1>6 DEF CallModels, IInv, TypeOK, Counted, AskedOnce, client, source, Stages
    <2>2. Written'
      BY <1>1, <1>6 DEF CallModels, Written, Blank, Stages
    <2> QED
      BY <2>1, <2>2 DEF IInv
  <1> QED
    BY <1>2, <1>3, <1>4, <1>5, <1>6 DEF Verdict, RefuseHandshake, Control, RefuseUpgrade,
         AnswerAtOnce, ForwardUnclaimed, CallHandler, NotRead

LEMMA HandlerKeeps == ASSUME IInv, Handler PROVE IInv'
  <1> DEFINE Sends == (SendJson \/ SendAnswer \/ Throws) /\ stage' = "finished"
  <1>1. ASSUME answer = Blank, Sends, UNCHANGED <<client, source>> PROVE IInv'
    BY <1>1, SentOnce, Thrown, Finishing
  <1>2. CASE HandlerReads
    <2>1. stage = "reads" /\ answer = Blank /\ asked = 0 /\ UNCHANGED <<client, source>>
      BY <1>2, NothingBegun DEF HandlerReads, IInv, Counted, Stages
    <2>2. CASE stage' = "waits" /\ UNCHANGED answer
      <3>1. TypeOK' /\ Counted'
        BY <2>1, <2>2 DEF IInv, TypeOK, Counted, AskedOnce, client, source, Stages
      <3>2. Written'
        BY <2>1, <2>2 DEF Written, Blank, Stages
      <3> QED
        BY <3>1, <3>2 DEF IInv
    <2> QED
      BY <1>1, <1>2, <2>1, <2>2, Forwarding DEF HandlerReads, Throws
  <1>3. CASE BodyFails
    <2>1. answer = Blank /\ UNCHANGED <<client, source>>
      BY <1>3, NothingBegun DEF BodyFails, Stages
    <2> QED
      BY <1>1, <1>3, <2>1 DEF BodyFails, Throws
  <1>4. CASE TurnBegins
    <2>1. stage = "waits" /\ answer = Blank /\ asked = 0 /\ UNCHANGED <<client, source>>
      BY <1>4, NothingBegun DEF TurnBegins, IInv, Counted, Stages
    <2>2. CASE BeginStream("server") /\ stage' = "streams"
      <3>1. answer' = [phase |-> "open", from |-> "server", sent |-> 0]
        BY <2>1, <2>2, StreamBegun
      <3>2. TypeOK'
        BY <2>1, <2>2, <3>1, PartsAssumption DEF IInv, TypeOK, client, source, Stages
      <3>3. Written' /\ Counted'
        BY <2>1, <2>2, <3>1 DEF IInv, Written, Counted, AskedOnce, client, source, Stages
      <3> QED
        BY <3>2, <3>3 DEF IInv
    <2> QED
      BY <1>1, <1>4, <2>1, <2>2, Forwarding DEF TurnBegins, Throws
  <1>5. CASE TurnWrites
    <2>1. /\ stage = "streams" /\ stage' = "streams" /\ answer.from = "server"
          /\ UNCHANGED <<client, source>>
      BY <1>5 DEF TurnWrites, IInv, Written
    <2>2. /\ answer.sent + 1 \in 0..MaxParts
          /\ answer' = [phase |-> "open", from |-> "server", sent |-> answer.sent + 1]
      BY <1>5, <2>1, PartWritten DEF TurnWrites, IInv
    <2>3. TypeOK'
      BY <2>1, <2>2 DEF IInv, TypeOK, client, source
    <2>4. Written' /\ Counted'
      BY <2>1, <2>2 DEF IInv, Written, Counted, AskedOnce, client, source, Stages
    <2> QED
      BY <2>3, <2>4 DEF IInv
  <1>6. CASE TurnEnds
    <2>1. /\ stage' = "finished" /\ answer.phase = "open" /\ answer.from = "server"
          /\ answer.sent \in 0..MaxParts /\ UNCHANGED <<client, source>>
      BY <1>6 DEF TurnEnds, IInv, Written, TypeOK
    <2>2. answer' = [phase |-> "whole", from |-> "server", sent |-> answer.sent]
      BY <1>6, <2>1, StreamEnded DEF TurnEnds, IInv
    <2>3. TypeOK'
      BY <2>1, <2>2 DEF IInv, TypeOK, client, source, Stages
    <2>4. Written' /\ Counted'
      BY <2>1, <2>2 DEF IInv, Written, Counted, AskedOnce, client, source, Stages
    <2> QED
      BY <2>3, <2>4 DEF IInv
  <1>7. CASE ServeModels
    <2>1. /\ stage = "asks" /\ answer = Blank /\ asked = 1 /\ request.path = "models"
          /\ UNCHANGED <<client, source>>
      BY <1>7, NothingBegun DEF ServeModels, IInv, Counted, Stages
    <2>2. CASE /\ answer' = [phase |-> "whole", from |-> "upstream", sent |-> given]
               /\ stage' = "finished"
      <3>1. TypeOK'
        BY <2>1, <2>2 DEF IInv, TypeOK, client, source, Stages
      <3>2. Written' /\ Counted'
        BY <2>1, <2>2 DEF IInv, Written, Counted, AskedOnce, client, source, Stages
      <3> QED
        BY <3>1, <3>2 DEF IInv
    <2> QED
      BY <1>1, <1>7, <2>1, <2>2, Forwarding DEF ServeModels, Throws
  <1>8. CASE FetchAsks
    <2>1. /\ stage' = "asks" /\ answer = Blank /\ answer' = answer /\ asked = 0 /\ asked' = 1
          /\ body = "whole" /\ request.path = "models" /\ upstream' = "asked" /\ given' = 0
          /\ UNCHANGED <<client, fetched>>
      BY <1>8, NothingBegun DEF FetchAsks, Ask, IInv, Counted, Stages
    <2>2. fetched = "unasked"
      BY <1>8 DEF FetchAsks, IInv, Counted
    <2>3. TypeOK'
      BY <2>1, PartsAssumption DEF IInv, TypeOK, client, Stages, Upstreams
    <2>4. Written'
      BY <2>1 DEF Written, Blank, Stages
    <2>5. Counted'
      BY <2>1, <2>2 DEF Counted, AskedOnce, client
    <2> QED
      BY <2>3, <2>4, <2>5 DEF IInv
  <1>9. CASE ForwardAsks
    <2>1. /\ stage' = "relays" /\ answer = Blank /\ answer' = answer /\ body = "whole"
          /\ upstream' = "asked" /\ given' = 0 /\ asked' = asked + 1
          /\ asked = 0 \/ (asked = 1 /\ request.path = "models" /\ fetched = "nothing")
          /\ UNCHANGED <<client, fetched>>
      BY <1>9, NothingBegun DEF ForwardAsks, Ask, IInv, Counted, Stages
    <2>2. TypeOK'
      BY <2>1, PartsAssumption DEF IInv, TypeOK, client, Stages, Upstreams
    <2>3. Written'
      BY <2>1 DEF Written, Blank, Stages
    <2>4. Counted'
      BY <2>1 DEF Counted, AskedOnce, client
    <2> QED
      BY <2>2, <2>3, <2>4 DEF IInv
  <1> QED
    BY <1>2, <1>3, <1>4, <1>5, <1>6, <1>7, <1>8, <1>9 DEF Handler

LEMMA ApiKeeps == ASSUME IInv, OfficialApi PROVE IInv'
  <1>1. CASE Asking /\ UNCHANGED <<client, stage, answer>> /\ asked' = asked
             /\ upstream' \in Upstreams /\ given' \in 0..MaxParts
             /\ fetched' \in {"unasked", "nothing", "answer"}
             /\ (fetched' = "answer" => upstream' = "complete")
    <2>1. stage = "asks" /\ answer = Blank /\ asked = 1 /\ request.path = "models"
      BY <1>1, NothingBegun DEF Asking, IInv, Counted, Stages
    <2>2. TypeOK'
      BY <1>1 DEF IInv, TypeOK, client
    <2>3. Written'
      BY <1>1, <2>1 DEF Written, Blank, Stages
    <2>4. Counted'
      BY <1>1, <2>1 DEF IInv, Counted, AskedOnce, client
    <2> QED
      BY <2>2, <2>3, <2>4 DEF IInv
  <1>2. CASE HeadArrives /\ Relaying
    <2>1. /\ stage' = "relays" /\ answer = Blank /\ given = 0
          /\ upstream = "asked" /\ upstream' = "answering"
          /\ UNCHANGED <<client, given, asked, fetched>>
      BY <1>2 DEF HeadArrives, Relaying, IInv, Written
    <2>2. answer' = [phase |-> "open", from |-> "upstream", sent |-> 0]
      BY <1>2, <2>1, StreamBegun DEF HeadArrives, Asking, Relaying
    <2>3. TypeOK'
      BY <2>1, <2>2, PartsAssumption DEF IInv, TypeOK, client, Stages, Upstreams
    <2>4. Written' /\ Counted'
      BY <2>1, <2>2 DEF IInv, Written, Counted, AskedOnce, client, Stages
    <2> QED
      BY <2>3, <2>4 DEF IInv
  <1>3. CASE Part /\ Relaying
    <2>1. /\ stage = "relays" /\ stage' = "relays" /\ answer.from = "upstream"
          /\ answer.sent = given /\ upstream = "answering" /\ upstream' = upstream
          /\ given' = given + 1 /\ UNCHANGED <<client, asked, fetched>>
      BY <1>3 DEF Part, Relaying, IInv, Written
    <2>2. /\ given' \in 0..MaxParts
          /\ answer' = [phase |-> "open", from |-> "upstream", sent |-> given']
      BY <1>3, <2>1, PartWritten DEF Part, Asking, Relaying, IInv
    <2>3. TypeOK'
      BY <2>1, <2>2 DEF IInv, TypeOK, client
    <2>4. Written' /\ Counted'
      BY <2>1, <2>2 DEF IInv, Written, Counted, AskedOnce, client, Stages
    <2> QED
      BY <2>3, <2>4 DEF IInv
  <1>4. ASSUME stage = "relays", stage' = "finished", UNCHANGED <<client, given, asked, fetched>>,
               upstream' \in Upstreams,
               NEW p \in {"whole", "cut"}, answer' = [answer EXCEPT !.phase = p]
        PROVE  IInv'
    <2>1. answer' = [phase |-> p, from |-> answer.from, sent |-> answer.sent]
      BY <1>4 DEF IInv, TypeOK
    <2>2. TypeOK'
      BY <1>4, <2>1 DEF IInv, TypeOK, client, Stages
    <2>3. Written' /\ Counted'
      BY <1>4, <2>1 DEF IInv, Written, Counted, AskedOnce, client, Stages
    <2> QED
      BY <2>2, <2>3 DEF IInv
  <1>5. CASE (AnswerComplete \/ AnswerClosed) /\ Relayed
    <2>1. answer.phase = "open"
      BY <1>5 DEF AnswerComplete, AnswerClosed, Relayed, Relaying, IInv, Written
    <2>2. answer' = [answer EXCEPT !.phase = "whole"]
      BY <1>5, <2>1 DEF AnswerComplete, AnswerClosed, Relayed, Relaying, Fetched, Asking, EndStream
    <2> QED
      BY <1>4, <1>5, <2>2 DEF AnswerComplete, AnswerClosed, Relayed, Relaying, Upstreams
  <1>6. CASE (NoAnswer \/ AnswerBreaks) /\ Relayed
    <2>1. \E p \in {"whole", "cut"} : answer' = [answer EXCEPT !.phase = p]
      BY <1>6 DEF NoAnswer, AnswerBreaks, Relayed, Relaying, Fetched, Asking,
           SendJsonOrDestroy, SendJson
    <2> QED
      BY <1>4, <1>6, <2>1 DEF NoAnswer, AnswerBreaks, Relayed, Relaying, Upstreams
  <1>7. CASE AnswerAborted
    <2>1. /\ stage # "relays" /\ upstream = "broken" /\ upstream' = "aborted"
          /\ UNCHANGED <<client, stage, given, asked, fetched>>
      BY <1>7 DEF AnswerAborted, IInv, Written
    <2>2. \/ answer' = answer
          \/ /\ answer.phase = "open"
             /\ answer' = [phase |-> "whole", from |-> answer.from, sent |-> answer.sent]
      BY <1>7, StreamEnded DEF AnswerAborted, IInv
    <2>3. CASE answer' = answer
      <3>1. TypeOK' /\ Counted'
        BY <2>1, <2>3 DEF IInv, TypeOK, Counted, AskedOnce, client, Upstreams
      <3>2. Written'
        BY <2>1, <2>3 DEF IInv, Written, Blank
      <3> QED
        BY <3>1, <3>2 DEF IInv
    <2>4. CASE /\ answer.phase = "open"
               /\ answer' = [phase |-> "whole", from |-> answer.from, sent |-> answer.sent]
      \* A turn streams, and no turn was asked of upstream.
      <3>1. stage # "streams"
        BY <2>1 DEF IInv, Counted
      <3>2. TypeOK'
        BY <2>1, <2>4 DEF IInv, TypeOK, client, Upstreams
      <3>3. Counted'
        BY <2>1 DEF IInv, Counted, AskedOnce, client
      <3>4. stage = "finished"
        BY <2>1, <2>4, <3>1, NothingBegun DEF IInv, TypeOK, Blank
      <3>5. Written'
        BY <2>1, <2>4, <3>4 DEF IInv, Written, Stages
      <3> QED
        BY <3>2, <3>3, <3>5 DEF IInv
    <2> QED
      BY <2>2, <2>3, <2>4
  <1>8. CASE Asking /\ (HeadArrives \/ Part)
    <2>1. UNCHANGED <<client, stage, answer, asked, fetched>> /\ fetched = "unasked"
      BY <1>8 DEF HeadArrives, Part, Asking, Relaying
    <2>2. upstream' \in Upstreams /\ given' \in 0..MaxParts
      BY <1>8, PartsAssumption DEF HeadArrives, Part, IInv, TypeOK, Upstreams
    <2> QED
      BY <1>1, <1>8, <2>1, <2>2
  <1>9. CASE Asking /\ (AnswerComplete \/ AnswerClosed \/ NoAnswer \/ AnswerBreaks)
    <2>1. /\ UNCHANGED <<client, stage, answer, asked, given>>
          /\ fetched' \in {"nothing", "answer"}
          /\ fetched' = "answer" => upstream' = "complete"
          /\ upstream' \in Upstreams
      BY <1>9 DEF AnswerComplete, AnswerClosed, NoAnswer, AnswerBreaks, Fetched, Relayed,
           Asking, Relaying, Upstreams
    <2>2. given' \in 0..MaxParts
      BY <2>1 DEF IInv, TypeOK
    <2> QED
      BY <1>1, <1>9, <2>1, <2>2
  <1>10. OfficialApi => AnswerAborted \/ Asking \/ Relaying
    BY DEF OfficialApi, HeadArrives, Part, AnswerComplete, AnswerClosed, NoAnswer, AnswerBreaks,
         Fetched, Relayed
  <1>11. Relaying => ~Asking
    BY DEF Relaying, Asking
  <1>12. Relaying /\ (AnswerComplete \/ AnswerClosed \/ NoAnswer \/ AnswerBreaks) => Relayed
    BY <1>11 DEF AnswerComplete, AnswerClosed, NoAnswer, AnswerBreaks, Fetched
  <1> QED
    BY <1>2, <1>3, <1>5, <1>6, <1>7, <1>8, <1>9, <1>10, <1>12 DEF OfficialApi

LEMMA ClientKeeps == ASSUME IInv, BodyArrives \/ ClientLeaves PROVE IInv'
  <1>1. /\ UNCHANGED <<request, stage, answer, source>>
        /\ body = "whole" => body' = "whole"
        /\ body' \in {"whole", "broken"} /\ gone' \in BOOLEAN
    BY DEF BodyArrives, ClientLeaves, IInv, TypeOK
  <1>2. TypeOK'
    BY <1>1 DEF IInv, TypeOK, source
  <1>3. Written' /\ Counted'
    BY <1>1 DEF IInv, Written, Counted, AskedOnce, source, Blank
  <1> QED
    BY <1>2, <1>3 DEF IInv

LEMMA StepKeeps == ASSUME IInv, [Next]_vars PROVE IInv'
  <1>1. CASE UNCHANGED vars
    <2>1. TypeOK' /\ Counted'
      BY <1>1 DEF vars, IInv, TypeOK, Counted, AskedOnce
    <2>2. Written'
      BY <1>1 DEF vars, IInv, Written, Blank
    <2> QED
      BY <2>1, <2>2 DEF IInv
  <1> QED
    BY <1>1, VerdictKeeps, HandlerKeeps, ApiKeeps, ClientKeeps DEF Next

THEOREM Invariance == Spec => []IInv
  <1> QED
    BY InitInv, StepKeeps, PTL DEF Spec

\* The response, the counts and every other variable keep their types, however
\* many parts an answer has.
THEOREM TypeCorrect == Spec => []TypeOK
  <1>1. IInv => TypeOK
    BY DEF IInv
  <1> QED
    BY <1>1, Invariance, PTL

\* The official API gets whole requests, and a second one only for a model list
\* that could not be fetched.
THEOREM NeverAskedAgain == Spec => []AskedOnce
  <1>1. IInv => AskedOnce
    BY DEF IInv, Counted
  <1> QED
    BY <1>1, Invariance, PTL
-----------------------------------------------------------------------------
(* The response is an honest answer *)

LEMMA InputStep == ASSUME IInv' PROVE Answer!Input
  <1>1. given' \in Nat /\ (answer'.from = "upstream" => answer'.sent <= given')
    BY PartsAssumption DEF IInv, TypeOK, Written
  <1>2. upstream' \in Upstreams
    BY DEF IInv, TypeOK
  <1> QED
    BY <1>1, <1>2 DEF Answer!Input, Answer!Finished, Upstreams

LEMMA WaitStep ==
  ASSUME Answer!Input, answer' = answer
  PROVE  Answer!Next
  BY DEF Answer!Next, Answer!Wait

LEMMA OverStep ==
  ASSUME Answer!Input, answer = Blank, answer' \in {Over("whole"), Over("cut")}
  PROVE  Answer!Next
  BY DEF Answer!Next, Answer!Finish, Answer!Cut, Blank, Over

LEMMA BeginStep ==
  ASSUME Answer!Input, answer = Blank, NEW writer \in {"server", "upstream"},
         BeginStream(writer)
  PROVE  Answer!Next
  <1>1. answer' = [phase |-> "open", from |-> writer, sent |-> 0]
    BY StreamBegun
  <1> QED
    BY <1>1 DEF Answer!Next, Answer!Begin, Blank

LEMMA ForwardStep ==
  ASSUME Answer!Input, answer = Blank, Forward
  PROVE  Answer!Next
  BY Forwarded, WaitStep, OverStep

LEMMA GrowStep ==
  ASSUME Answer!Input, TypeOK, WritePart
  PROVE  Answer!Next
  BY PartWritten DEF Answer!Next, Answer!Grow

LEMMA VerdictStep == ASSUME IInv, Answer!Input, Verdict PROVE Answer!Next
  <1>1. answer = Blank
    BY NothingBegun DEF Verdict, RefuseHandshake, Control, Subscribe, RefuseUpgrade,
         AnswerAtOnce, ForwardUnclaimed, CallHandler, NotRead, CallModels, Passed, Arrived, Stages
  <1>2. CASE SendJson \/ SendAnswer
    BY <1>1, <1>2, SentOnce, OverStep
  <1> QED
    BY <1>1, <1>2, ForwardStep, BeginStep, WaitStep DEF Verdict, RefuseHandshake, Control,
         Subscribe, RefuseUpgrade, AnswerAtOnce, ForwardUnclaimed, CallHandler, NotRead, CallModels

LEMMA HandlerStep == ASSUME IInv, Answer!Input, Handler PROVE Answer!Next
  <1>1. ASSUME answer = Blank, SendJson \/ SendAnswer \/ Throws PROVE Answer!Next
    BY <1>1, SentOnce, Thrown, OverStep
  <1>2. CASE HandlerReads \/ BodyFails
    <2>1. answer = Blank
      BY <1>2, NothingBegun DEF HandlerReads, BodyFails, Stages
    <2> QED
      BY <1>1, <1>2, <2>1, ForwardStep, WaitStep DEF HandlerReads, BodyFails
  <1>3. CASE TurnBegins
    <2>1. answer = Blank
      BY <1>3, NothingBegun DEF TurnBegins, Stages
    <2> QED
      BY <1>1, <1>3, <2>1, ForwardStep, BeginStep DEF TurnBegins
  <1>4. CASE TurnWrites
    BY <1>4, GrowStep DEF TurnWrites, IInv
  <1>5. CASE TurnEnds
    <2>1. answer.phase = "open" /\ answer.from = "server"
      BY <1>5 DEF TurnEnds, IInv, Written
    <2>2. answer' = [phase |-> "whole", from |-> "server", sent |-> answer.sent]
      BY <1>5, <2>1, StreamEnded DEF TurnEnds, IInv
    <2> QED
      BY <2>1, <2>2 DEF Answer!Next, Answer!Finish
  <1>6. CASE ServeModels
    <2>1. stage = "asks" /\ answer = Blank /\ UNCHANGED <<upstream, given>>
      BY <1>6, NothingBegun DEF ServeModels, source, Stages
    <2>2. CASE /\ fetched = "answer"
               /\ answer' = [phase |-> "whole", from |-> "upstream", sent |-> given]
      <3>1. upstream' = "complete"
        BY <2>1, <2>2 DEF IInv, Counted
      <3> QED
        BY <2>1, <2>2, <3>1 DEF Answer!Next, Answer!Finish, Answer!Finished, Blank
    <2> QED
      BY <1>1, <1>6, <2>1, <2>2, ForwardStep DEF ServeModels
  <1>7. CASE FetchAsks \/ ForwardAsks
    BY <1>7, WaitStep DEF FetchAsks, ForwardAsks
  <1> QED
    BY <1>2, <1>3, <1>4, <1>5, <1>6, <1>7 DEF Handler

LEMMA ApiStep == ASSUME IInv, Answer!Input, OfficialApi PROVE Answer!Next
  <1>1. CASE HeadArrives
    <2>1. Relaying => answer = Blank
      BY <1>1 DEF HeadArrives, Relaying, IInv, Written
    <2> QED
      BY <1>1, <2>1, WaitStep, BeginStep DEF HeadArrives
  <1>2. CASE Part
    BY <1>2, WaitStep, GrowStep DEF Part, IInv
  <1>3. CASE UNCHANGED answer
    BY <1>3, WaitStep
  <1>4. CASE (AnswerComplete \/ AnswerClosed) /\ Relayed /\ EndStream
    <2>1. /\ answer.phase = "open" /\ answer.from = "upstream" /\ answer.sent = given
          /\ given' = given /\ upstream' \in {"complete", "closed"}
      BY <1>4 DEF AnswerComplete, AnswerClosed, Relayed, Relaying, IInv, Written
    <2>2. answer' = [phase |-> "whole", from |-> answer.from, sent |-> answer.sent]
      BY <1>4, <2>1, StreamEnded DEF IInv
    <2> QED
      BY <2>1, <2>2 DEF Answer!Next, Answer!Finish, Answer!Finished
  <1>5. CASE NoAnswer /\ Relayed /\ SendJsonOrDestroy
    <2>1. answer = Blank
      BY <1>5 DEF NoAnswer, Relayed, Relaying, IInv, Written
    <2> QED
      BY <1>5, <2>1, SentOnce, OverStep
  <1>6. CASE AnswerBreaks /\ Relayed /\ SendJsonOrDestroy
    <2>1. answer.phase = "open"
      BY <1>6 DEF AnswerBreaks, Relayed, Relaying, IInv, Written
    <2>2. answer' = [phase |-> "cut", from |-> answer.from, sent |-> answer.sent]
      BY <1>6, <2>1 DEF SendJsonOrDestroy, SendJson, IInv, TypeOK
    <2> QED
      BY <2>1, <2>2 DEF Answer!Next, Answer!Cut
  <1>7. CASE AnswerAborted /\ answer.phase = "open"
    <2>1. answer.from = "server"
      BY <1>7, NothingBegun DEF AnswerAborted, IInv, Written, TypeOK, Blank
    <2>2. answer' = [phase |-> "whole", from |-> answer.from, sent |-> answer.sent]
      BY <1>7, StreamEnded DEF AnswerAborted, IInv
    <2> QED
      BY <1>7, <2>1, <2>2 DEF Answer!Next, Answer!Finish
  <1> QED
    BY <1>1, <1>2, <1>3, <1>4, <1>5, <1>6, <1>7 DEF OfficialApi, AnswerComplete, AnswerClosed,
         NoAnswer, AnswerBreaks, AnswerAborted, Fetched, EndStream

LEMMA HonestStep == ASSUME IInv, IInv', [Next]_vars PROVE [Answer!Next]_Answer!vars
  <1>1. CASE UNCHANGED vars
    BY <1>1 DEF vars, Answer!vars
  <1>2. CASE BodyArrives \/ ClientLeaves
    BY <1>2, InputStep, WaitStep DEF BodyArrives, ClientLeaves
  <1> QED
    BY <1>1, <1>2, InputStep, VerdictStep, HandlerStep, ApiStep DEF Next

\* The client gets one head, what upstream gave in order, and an end only when
\* upstream is done or has closed; anything that broke is cut.
THEOREM ResponseIsHonest == Spec => ImplementsHonestAnswer
  <1>1. Init => Answer!Init
    BY DEF Init, Answer!Init
  <1> QED
    BY <1>1, Invariance, HonestStep, PTL DEF Spec, ImplementsHonestAnswer, Answer!Spec
-----------------------------------------------------------------------------
(* Least and greatest positions.                                           *)

LEMMA LeastOf ==
  ASSUME NEW S \in SUBSET Nat, S # {}
  PROVE  Min(S) \in S /\ \A k \in S : Min(S) <= k
  <1>1. PICK x \in S : \A y \in S : ~(<<y, x>> \in OpToRel(<, Nat))
    BY WFMin, NatLessThanWellFounded
  <1>2. ASSUME NEW y \in S PROVE x <= y
    <2>1. SUFFICES ASSUME y < x PROVE FALSE
      OBVIOUS
    <2>2. <<y, x>> \in OpToRel(<, Nat)
      BY <2>1 DEF OpToRel
    <2> QED
      BY <1>1, <2>2
  <1> QED
    BY <1>2 DEF Min

-----------------------------------------------------------------------------
(* The models of the user's own providers.                                 *)

\* The list was made of the registry, and the registry, as long as nobody
\* edited the document, of that: what it shows is what a turn will find.
ReadAsShown ==
  edits = 0 =>
    /\ registry = FromDocument(document)
    /\ \A x \in picker : x.by # Cursor =>
         x.name \in DOMAIN registry /\ registry[x.name] = [by |-> x.by, wire |-> x.wire]

CatalogueInv ==
  /\ document \in Documents /\ edits \in Nat
  /\ ReadAsShown
  /\ NamedOnce

LEMMA OfficialNamedOnce ==
  ASSUME NEW official, picker' = ShowOfficial(official)
  PROVE  /\ NamedOnce'
         /\ \A x \in picker' : x.by = Cursor
  BY DEF NamedOnce, ShowOfficial, ShownAs

LEMMA WithOursNamedOnce ==
  ASSUME NEW official, picker' = WithOurs(official)
  PROVE  /\ NamedOnce'
         /\ \A x \in picker' : x.by = Cursor \/ \E id \in DOMAIN registry :
              x = [name |-> id, by |-> registry[id].by, wire |-> registry[id].wire]
  BY DEF NamedOnce, WithOurs, ShowOfficial, ShownAs

LEMMA CatalogueInitInv == CatalogueInit => CatalogueInv
  BY DEF CatalogueInit, CatalogueInv, ReadAsShown, NamedOnce

LEMMA CatalogueStepInv == ASSUME CatalogueInv, [CatalogueNext]_catalogueVars PROVE CatalogueInv'
  <1>1. CASE UNCHANGED <<document, edits, registry, picker>>
    BY <1>1 DEF CatalogueInv, ReadAsShown, NamedOnce
  <1>2. CASE UNCHANGED catalogueVars \/ \E shown \in picker : Turn(shown)
    BY <1>1, <1>2 DEF catalogueVars, Turn
  <1>3. CASE EditProviders
    <2>1. edits' # 0 /\ edits' \in Nat /\ document' \in Documents /\ picker' = picker
      BY <1>3 DEF EditProviders, CatalogueInv
    <2> QED
      BY <2>1 DEF CatalogueInv, ReadAsShown, NamedOnce
  <1>4. CASE Revised
    <2>1. registry' = FromDocument(document) /\ UNCHANGED <<document, edits, picker>>
      BY <1>4 DEF Revised
    <2>2. ReadAsShown'
      BY <2>1 DEF CatalogueInv, ReadAsShown
    <2> QED
      BY <2>1, <2>2 DEF CatalogueInv, NamedOnce
  <1>5. CASE ListModels \/ ListElsewhere
    <2>1. UNCHANGED <<document, edits, registry>>
      BY <1>5 DEF ListModels, ListElsewhere
    <2>2. CASE picker' = picker
      BY <1>1, <2>1, <2>2
    <2>3. ASSUME NEW official, picker' = ShowOfficial(official) PROVE CatalogueInv'
      BY <2>1, <2>3, OfficialNamedOnce DEF CatalogueInv, ReadAsShown
    <2>4. ASSUME NEW official, picker' = WithOurs(official) PROVE CatalogueInv'
      <3>1. NamedOnce' /\ \A x \in picker' : x.by = Cursor \/ \E id \in DOMAIN registry :
              x = [name |-> id, by |-> registry[id].by, wire |-> registry[id].wire]
        BY <2>4, WithOursNamedOnce
      <3>2. ASSUME edits = 0, NEW x \in picker', x.by # Cursor
            PROVE  x.name \in DOMAIN registry /\ registry[x.name] = [by |-> x.by, wire |-> x.wire]
        <4>1. PICK id \in DOMAIN registry : x = [name |-> id, by |-> registry[id].by, wire |-> registry[id].wire]
          BY <3>1, <3>2
        <4>2. registry = FromDocument(document)
          BY <3>2 DEF CatalogueInv, ReadAsShown
        <4>3. registry[id] = KeepFirst(document, id)
          BY <4>1, <4>2 DEF FromDocument
        <4> QED
          BY <4>1, <4>3 DEF KeepFirst
      <3>3. ReadAsShown'
        BY <2>1, <3>2 DEF CatalogueInv, ReadAsShown
      <3> QED
        BY <2>1, <3>1, <3>3 DEF CatalogueInv
    <2> QED
      BY <1>5, <2>2, <2>3, <2>4 DEF ListModels, ListElsewhere
  <1> QED
    BY <1>2, <1>3, <1>4, <1>5 DEF CatalogueNext

\* Who serves an id, by the document alone.
LEMMA ServedByTheFirst ==
  ASSUME NEW doc \in Documents, NEW id \in Offered(doc)
  PROVE  \E k \in DOMAIN doc :
           /\ doc[k].id = KeepFirst(doc, id).by /\ Serves(doc[k], id, KeepFirst(doc, id).wire)
           /\ \A i \in 1..(k - 1) : Named(doc[i], id) = {}
  <1>1. DOMAIN doc = 1..Len(doc) /\ Len(doc) \in Nat
    BY CatalogueAssumption DEF Listed
  <1>2. PICK p \in DOMAIN doc : \E j \in Usable(doc[p]) : doc[p].models[j].id = id
    BY DEF Offered
  <1>3. Offering(doc, id) \in SUBSET Nat /\ Offering(doc, id) # {}
    BY <1>1, <1>2 DEF Offering, Named
  <1> DEFINE k == Min(Offering(doc, id))
  <1>4. k \in Offering(doc, id) /\ \A i \in Offering(doc, id) : k <= i
    BY <1>3, LeastOf
  <1>5. k \in DOMAIN doc /\ Named(doc[k], id) # {}
    BY <1>4 DEF Offering
  <1>6. ASSUME NEW i \in 1..(k - 1) PROVE Named(doc[i], id) = {}
    <2>1. i \in DOMAIN doc /\ ~(k <= i)
      BY <1>1, <1>5
    <2> QED
      BY <1>4, <2>1 DEF Offering
  <1>7. DOMAIN doc[k].models \in SUBSET Nat
    BY <1>5, CatalogueAssumption DEF Listed
  <1>8. Named(doc[k], id) \in SUBSET Nat
    BY <1>7 DEF Named, Usable
  <1> DEFINE j == Min(Named(doc[k], id))
  <1>9. j \in Named(doc[k], id)
    BY <1>5, <1>8, LeastOf
  <1>10. /\ doc[k].enabled /\ doc[k].key /\ j \in DOMAIN doc[k].models
         /\ doc[k].models[j].enabled /\ doc[k].models[j].id = id
    BY <1>9 DEF Named, Usable
  <1>11. Serves(doc[k], id, doc[k].models[j].wire)
    BY <1>10 DEF Serves, Range
  <1>12. KeepFirst(doc, id) = [by |-> doc[k].id, wire |-> doc[k].models[j].wire]
    BY DEF KeepFirst
  <1> HIDE DEF k, j
  <1> QED
    BY <1>5, <1>6, <1>11, <1>12

LEMMA PickedStep ==
  ASSUME CatalogueInv, [CatalogueNext]_catalogueVars,
         picked' # picked, picked'.by # Cursor, byok, DOMAIN registry # {},
         registry = FromDocument(document)
  PROVE  PickedGoesHome
  <1>1. PICK shown \in picker : Turn(shown)
    BY DEF CatalogueNext, catalogueVars, EditProviders, Revised, ListModels, ListElsewhere
  <1>2. picked' = shown /\ document \in Documents
    BY <1>1 DEF Turn, CatalogueInv
  <1>3. served' = IF shown.name \in DOMAIN registry THEN registry[shown.name] ELSE Refusal
    BY <1>1 DEF Turn
  <1>4. DOMAIN registry = Offered(document)
    BY DEF FromDocument
  <1>5. CASE shown.name \in Offered(document)
    <2>1. served' = KeepFirst(document, shown.name)
      BY <1>3, <1>4, <1>5 DEF FromDocument
    <2>2. edits = 0 => served' = [by |-> picked'.by, wire |-> picked'.wire]
      BY <1>2, <1>3, <1>4, <1>5 DEF CatalogueInv, ReadAsShown
    <2> QED
      BY <1>2, <1>5, <2>1, <2>2, ServedByTheFirst DEF PickedGoesHome
  <1>6. CASE shown.name \notin Offered(document)
    BY <1>2, <1>3, <1>4, <1>6 DEF PickedGoesHome, Offered, Named
  <1> QED
    BY <1>5, <1>6

THEOREM CatalogueInvariance == CatalogueSpec => []CatalogueInv
  BY CatalogueInitInv, CatalogueStepInv, PTL DEF CatalogueSpec

\* A turn on one of the user's models goes to the provider that has it.
THEOREM PickedModelsAreServed == CatalogueSpec => PickedIsServed
  <1>1. CatalogueInv /\ [CatalogueNext]_catalogueVars =>
          /\ picked' # picked /\ picked'.by # Cursor /\ byok /\ DOMAIN registry # {}
             /\ registry = FromDocument(document) => PickedGoesHome
          /\ NamedOnce'
    BY PickedStep, CatalogueStepInv DEF CatalogueInv
  <1> QED
    BY <1>1, CatalogueInvariance, PTL DEF CatalogueSpec, PickedIsServed
-----------------------------------------------------------------------------
(* The texts of rules and paths.                                           *)

LEMMA GreatestOf ==
  ASSUME NEW n \in Nat, NEW S \in SUBSET (1..n), S # {}
  PROVE  Max(S) \in S /\ \A k \in S : k <= Max(S)
  <1> DEFINE above == {m \in 0..n : \A k \in S : k <= m}
  <1>1. above \in SUBSET Nat /\ n \in above
    OBVIOUS
  <1> DEFINE m == Min(above)
  <1>2. m \in above /\ \A j \in above : m <= j
    BY <1>1, LeastOf
  <1> HIDE DEF m
  <1>3. m \in 0..n /\ \A k \in S : k <= m
    BY <1>2
  <1>4. m \in S
    <2>1. SUFFICES ASSUME m \notin S PROVE FALSE
      OBVIOUS
    <2>2. PICK s \in S : TRUE
      OBVIOUS
    <2>3. m # 0
      BY <1>3, <2>2
    <2>4. \A k \in S : k <= m - 1
      BY <1>3, <2>1
    <2>5. m - 1 \in above
      BY <1>3, <2>3, <2>4
    <2> QED
      BY <1>2, <1>3, <2>5
  <1> QED
    BY <1>3, <1>4 DEF Max

LEMMA BareTyped ==
  ASSUME NEW path \in Seq(Tokens)
  PROVE  Bare(path) \in Seq(Tokens)
  BY DEF Bare

LEMMA NormalTyped ==
  ASSUME NEW path \in Seq(Tokens)
  PROVE  NormalisePath(path) \in Seq(Tokens)
  <1> DEFINE cut == {k \in DOMAIN path : path[k] \in {"?", "#"}}
  <1>1. CASE cut = {}
    BY <1>1 DEF NormalisePath
  <1>2. CASE cut # {}
    <2>1. cut \in SUBSET (1..Len(path))
      OBVIOUS
    <2>3. NormalisePath(path) = SubSeq(path, 1, Min(cut) - 1)
      BY <1>2 DEF NormalisePath
    <2> HIDE DEF cut
    <2>4. cut \in SUBSET Nat
      BY <2>1
    <2>2. Min(cut) \in 1..Len(path)
      BY <1>2, <2>1, <2>4, LeastOf
    <2> QED
      BY <2>2, <2>3
  <1> QED
    BY <1>1, <1>2

\* Where the slash of a call is, and what is in front of it.
LEMMA CallParts ==
  ASSUME NEW text \in Seq(Tokens), NEW k \in 2..(Len(text) - 1), Slashes(text) = {k}
  PROVE  /\ ServiceOf(text) = SubSeq(text, 1, k - 1)
         /\ ServiceOf(text) \in Seq(Tokens) /\ Len(ServiceOf(text)) = k - 1
         /\ \A i \in 1..(k - 1) : ServiceOf(text)[i] = text[i]
  <1>1. {k} \in SUBSET Nat
    OBVIOUS
  <1>2. Min({k}) = k
    BY <1>1, LeastOf
  <1>3. ServiceOf(text) = SubSeq(text, 1, k - 1)
    BY <1>2 DEF ServiceOf
  <1> QED
    BY <1>3

\* A service claims the calls of its methods.
LEMMA ServiceClaims ==
  ASSUME NEW text \in Seq(Tokens), NEW named \in Seq(Tokens), named # <<>>, Slashes(named) = {}
  PROVE  (IsCall(text) /\ ServiceOf(text) = named)
           <=> /\ IsPrefix(named \o <<"/">>, text) /\ Len(text) > Len(named) + 1
               /\ \A k \in (Len(named) + 2)..Len(text) : text[k] # "/"
  <1> DEFINE n == Len(named)
             front == named \o <<"/">>
  <1>1. n \in Nat /\ n >= 1
    OBVIOUS
  <1>2. front \in Seq(Tokens) /\ Len(front) = n + 1 /\ front[n + 1] = "/" /\ \A i \in 1..n : front[i] = named[i]
    BY RouteAssumption
  <1>3. ASSUME IsCall(text), ServiceOf(text) = named
        PROVE  /\ IsPrefix(front, text) /\ Len(text) > n + 1
               /\ \A k \in (n + 2)..Len(text) : text[k] # "/"
    <2>1. PICK k \in 2..(Len(text) - 1) : Slashes(text) = {k}
      BY <1>3 DEF IsCall
    <2>2. n = k - 1 /\ \A i \in 1..n : named[i] = text[i]
      BY <1>3, <2>1, CallParts
    <2>3. k = n + 1 /\ text[k] = "/" /\ \A i \in 1..Len(text) : i # k => text[i] # "/"
      BY <2>1, <2>2 DEF Slashes
    <2>4. Len(text) > n + 1 /\ \A i \in (n + 2)..Len(text) : text[i] # "/"
      BY <1>1, <2>1, <2>3
    <2>5. SubSeq(front, 1, n + 1) \in Seq(Tokens) /\ Len(SubSeq(front, 1, n + 1)) = n + 1
          /\ \A i \in 1..(n + 1) : SubSeq(front, 1, n + 1)[i] = front[i]
      BY <1>1, <1>2
    <2>6. SubSeq(text, 1, n + 1) \in Seq(Tokens) /\ Len(SubSeq(text, 1, n + 1)) = n + 1
          /\ \A i \in 1..(n + 1) : SubSeq(text, 1, n + 1)[i] = text[i]
      BY <1>1, <2>4
    <2>7. \A i \in 1..(n + 1) : front[i] = text[i]
      BY <1>1, <1>2, <2>2, <2>3
    <2>8. SubSeq(front, 1, n + 1) = SubSeq(text, 1, n + 1)
      BY <2>5, <2>6, <2>7
    <2> QED
      BY <1>2, <2>4, <2>8 DEF IsPrefix
  <1>4. ASSUME IsPrefix(front, text), Len(text) > n + 1,
               \A k \in (n + 2)..Len(text) : text[k] # "/"
        PROVE  IsCall(text) /\ ServiceOf(text) = named
    <2>1. SubSeq(front, 1, n + 1) = SubSeq(text, 1, n + 1)
      BY <1>2, <1>4 DEF IsPrefix
    <2>2. \A i \in 1..(n + 1) : SubSeq(front, 1, n + 1)[i] = front[i]
      BY <1>1, <1>2
    <2>3. \A i \in 1..(n + 1) : SubSeq(text, 1, n + 1)[i] = text[i]
      BY <1>1, <1>4
    <2>4. text[n + 1] = "/" /\ \A i \in 1..n : text[i] = named[i]
      BY <1>1, <1>2, <2>1, <2>2, <2>3, SMTT(30)
    <2>5. \A i \in 1..n : text[i] # "/"
      BY <2>4 DEF Slashes
    <2>6. Slashes(text) = {n + 1}
      <3>1. ASSUME NEW i \in 1..Len(text) PROVE text[i] = "/" <=> i = n + 1
        BY <1>1, <1>4, <2>4, <2>5, <3>1
      <3>2. n + 1 \in 1..Len(text)
        BY <1>1, <1>4
      <3> QED
        BY <3>1, <3>2 DEF Slashes
    <2>7. n + 1 \in 2..(Len(text) - 1)
      BY <1>1, <1>4
    <2>8. /\ ServiceOf(text) \in Seq(Tokens) /\ Len(ServiceOf(text)) = (n + 1) - 1
          /\ \A i \in 1..((n + 1) - 1) : ServiceOf(text)[i] = text[i]
      BY <2>6, <2>7, CallParts
    <2>9. ServiceOf(text) = named
      BY <1>1, <2>4, <2>8
    <2> QED
      BY <2>6, <2>7, <2>9 DEF IsCall
  <1> QED
    BY <1>3, <1>4
-----------------------------------------------------------------------------
(* The rules of a table that match a path.                                 *)

Lines == [rest : BOOLEAN, text : Seq(Tokens), comment : BOOLEAN]

\* What a line is read as.
WellRead(rule) ==
  /\ rule \in [kind : {"none", "rest", "method", "service"}, value : Seq(Tokens), prefix : BOOLEAN]
  /\ rule.kind = "none" => rule = NoRule
  /\ rule.kind = "rest" => Len(rule.value) >= 2
  /\ rule.kind = "method" => ~rule.prefix /\ IsCall(rule.value)
  /\ rule.kind = "service" => ~rule.prefix /\ Slashes(rule.value) = {} /\ rule.value # <<>>

LEMMA NoRuleRead == WellRead(NoRule)
  BY DEF WellRead, NoRule

LEMMA ParsedWell ==
  ASSUME NEW line \in Lines
  PROVE  WellRead(ParseRule(line))
  <1> DEFINE text == line.text
  <1>1. text \in Seq(Tokens)
    BY DEF Lines
  <1> HIDE DEF text
  <1>2. WellRead(ParseRest(text))
    <2> DEFINE path == Slashed(text)
               named == IF Last(path) = "*" THEN Front(path) ELSE path
    <2>1. path \in Seq(Tokens) /\ path # <<>>
      BY <1>1, RouteAssumption DEF Slashed
    <2> HIDE DEF path
    <2>2. named \in Seq(Tokens)
      BY <2>1 DEF Front
    <2> HIDE DEF named
    <2>3. ParseRest(text) = IF Len(named) < 2 THEN NoRule
                            ELSE [kind |-> "rest", value |-> named, prefix |-> Last(path) = "*"]
      BY DEF ParseRest, named, path
    <2>4. CASE Len(named) < 2
      BY <2>3, <2>4, NoRuleRead
    <2>5. CASE Len(named) >= 2
      BY <2>2, <2>3, <2>5 DEF WellRead
    <2> QED
      BY <2>2, <2>4, <2>5
  <1>3. WellRead(ParseCall(text))
    <2>1. CASE Slashes(text) = {} /\ HasDot(text)
      <3>1. text # <<>>
        BY <2>1 DEF HasDot
      <3>2. ParseCall(text) = [kind |-> "service", value |-> text, prefix |-> FALSE]
        BY <2>1 DEF ParseCall
      <3> QED
        BY <1>1, <2>1, <3>1, <3>2 DEF WellRead
    <2>2. CASE ~(Slashes(text) = {} /\ HasDot(text)) /\ IsCall(text) /\ HasDot(ServiceOf(text))
      <3>1. ParseCall(text) = [kind |-> "method", value |-> text, prefix |-> FALSE]
        BY <2>2 DEF ParseCall
      <3> QED
        BY <1>1, <2>2, <3>1 DEF WellRead
    <2>3. CASE ~(Slashes(text) = {} /\ HasDot(text)) /\ ~(IsCall(text) /\ HasDot(ServiceOf(text)))
      <3>1. ParseCall(text) = NoRule
        BY <2>3 DEF ParseCall
      <3> QED
        BY <3>1, NoRuleRead
    <2> QED
      BY <2>1, <2>2, <2>3
  <1>4. ParseRule(line) \in {NoRule, ParseRest(text), ParseCall(text)}
    BY DEF ParseRule, text
  <1> QED
    BY <1>2, <1>3, <1>4, NoRuleRead

\* The lines that match a path, by the place of what finds them.
Matching(table, path) ==
  <<Same(table, "rest", path), Fitting(table, path),
    Same(table, "method", SplitRpcPath(path).both), Same(table, "service", SplitRpcPath(path).service)>>

\* A table is what a list of lines is compiled to.
LEMMA TableRead ==
  ASSUME NEW rules \in Seq(Lines)
  PROVE  /\ DOMAIN Compile(rules) = 1..Len(rules) /\ DOMAIN rules = 1..Len(rules) /\ Len(rules) \in Nat
         /\ \A k \in 1..Len(rules) : Compile(rules)[k] = ParseRule(rules[k]) /\ WellRead(Compile(rules)[k])
  <1>1. \A k \in 1..Len(rules) : rules[k] \in Lines
    OBVIOUS
  <1> QED
    BY <1>1, ParsedWell DEF Compile

LEMMA MatchingRanked ==
  ASSUME NEW rules \in Seq(Lines), NEW path \in Seq(Tokens),
         NEW i \in 1..4, NEW k \in Matching(Compile(rules), path)[i]
  PROVE  k \in 1..Len(rules) /\ Compile(rules)[k] # NoRule /\ Rank(Compile(rules)[k]) = 5 - i
  <1> DEFINE table == Compile(rules)
  <1>1. DOMAIN table = 1..Len(rules) /\ \A m \in 1..Len(rules) : WellRead(table[m])
    BY TableRead
  <1> HIDE DEF table
  <1>2. CASE i \in {1, 3, 4}
    <2>1. \E named : k \in Same(table, IF i = 1 THEN "rest" ELSE IF i = 3 THEN "method" ELSE "service", named)
      BY <1>2 DEF Matching, table
    <2> QED
      BY <1>1, <1>2, <2>1 DEF Same, Rank, NoRule, table
  <1>3. CASE i = 2
    <2>1. k \in Fitting(table, path)
      BY <1>3 DEF Matching, table
    <2>2. k \in 1..Len(rules) /\ table[k].prefix /\ WellRead(table[k])
      BY <1>1, <2>1 DEF Fitting
    <2>3. table[k].kind = "rest"
      BY <2>2 DEF WellRead, NoRule
    <2> QED
      BY <1>3, <2>2, <2>3 DEF Rank, NoRule, table
  <1> QED
    BY <1>2, <1>3

\* The words of a line's author and the table agree on what it claims.
LEMMA ClaimsMatch ==
  ASSUME NEW rules \in Seq(Lines), NEW raw \in Seq(Tokens), NEW k \in 1..Len(rules)
  PROVE  Claims(rules[k], raw)
           <=> \E i \in 1..4 : k \in Matching(Compile(rules), NormalisePath(raw))[i]
  <1> DEFINE path == NormalisePath(raw)
             bare == Bare(path)
             table == Compile(rules)
             rule == ParseRule(rules[k])
             rpc == SplitRpcPath(path)
  <1>1. path \in Seq(Tokens) /\ bare \in Seq(Tokens)
    BY NormalTyped, BareTyped
  <1>2. k \in DOMAIN table /\ table[k] = rule /\ WellRead(rule)
    BY TableRead
  <1>3. Claims(rules[k], raw) <=>
          \/ rule.kind = "rest" /\ IF rule.prefix THEN IsPrefix(rule.value, path) ELSE rule.value = path
          \/ rule.kind = "method" /\ rule.value = bare
          \/ /\ rule.kind = "service"
             /\ IsPrefix(rule.value \o <<"/">>, bare) /\ Len(bare) > Len(rule.value) + 1
             /\ \A j \in (Len(rule.value) + 2)..Len(bare) : bare[j] # "/"
    BY DEF Claims
  <1>4. rpc = IF IsCall(bare) THEN [service |-> ServiceOf(bare), both |-> bare]
              ELSE [service |-> <<>>, both |-> <<>>]
    BY DEF SplitRpcPath
  <1>5. (\E i \in 1..4 : k \in Matching(table, path)[i]) <=>
          \/ k \in Same(table, "rest", path) \/ k \in Fitting(table, path)
          \/ k \in Same(table, "method", rpc.both) \/ k \in Same(table, "service", rpc.service)
    BY DEF Matching
  <1> HIDE DEF path, bare, table, rule, rpc
  <1>6. k \in Same(table, "rest", path) <=> rule.kind = "rest" /\ ~rule.prefix /\ rule.value = path
    BY <1>2 DEF Same
  <1>7. k \in Fitting(table, path) <=> rule.prefix /\ IsPrefix(rule.value, path)
    BY <1>2 DEF Fitting
  <1>8. rule.prefix => rule.kind = "rest"
    BY <1>2 DEF WellRead, NoRule
  <1>9. k \in Same(table, "method", rpc.both) <=> rule.kind = "method" /\ rule.value = bare
    <2>1. k \in Same(table, "method", rpc.both) <=> rule.kind = "method" /\ ~rule.prefix /\ rule.value = rpc.both
      BY <1>2 DEF Same
    <2>2. rpc.both = IF IsCall(bare) THEN bare ELSE <<>>
      BY <1>4
    <2>3. ~IsCall(<<>>)
      BY DEF IsCall
    <2> QED
      BY <1>2, <2>1, <2>2, <2>3 DEF WellRead
  <1>10. k \in Same(table, "service", rpc.service) <=>
           rule.kind = "service" /\ IsCall(bare) /\ ServiceOf(bare) = rule.value
    <2>1. k \in Same(table, "service", rpc.service) <=> rule.kind = "service" /\ ~rule.prefix /\ rule.value = rpc.service
      BY <1>2 DEF Same
    <2>2. rpc.service = IF IsCall(bare) THEN ServiceOf(bare) ELSE <<>>
      BY <1>4
    <2> QED
      BY <1>2, <2>1, <2>2 DEF WellRead
  <1>11. rule.kind = "service" =>
           ((IsCall(bare) /\ ServiceOf(bare) = rule.value)
             <=> /\ IsPrefix(rule.value \o <<"/">>, bare) /\ Len(bare) > Len(rule.value) + 1
                 /\ \A j \in (Len(rule.value) + 2)..Len(bare) : bare[j] # "/")
    <2> SUFFICES ASSUME rule.kind = "service"
                 PROVE  (IsCall(bare) /\ ServiceOf(bare) = rule.value)
                          <=> /\ IsPrefix(rule.value \o <<"/">>, bare) /\ Len(bare) > Len(rule.value) + 1
                              /\ \A j \in (Len(rule.value) + 2)..Len(bare) : bare[j] # "/"
      OBVIOUS
    <2>1. rule.value \in Seq(Tokens) /\ rule.value # <<>> /\ Slashes(rule.value) = {}
      BY <1>2 DEF WellRead
    <2> QED
      BY <1>1, <2>1, ServiceClaims
  <1>12. rule.kind = "rest" => rule.prefix \in BOOLEAN
    BY <1>2 DEF WellRead
  <1>13. Claims(rules[k], raw) <=>
           \/ k \in Same(table, "rest", path) \/ k \in Fitting(table, path)
           \/ k \in Same(table, "method", rpc.both) \/ k \in Same(table, "service", rpc.service)
    BY <1>3, <1>6, <1>7, <1>8, <1>9, <1>10, <1>11, <1>12
  <1> QED
    BY <1>5, <1>13 DEF table, path
\* The rule a place of the table offers: none when no line there matches,
\* otherwise one that does and than which no other there is more specific.
LEMMA SameOffers ==
  ASSUME NEW rules \in Seq(Lines), NEW kind \in {"rest", "method", "service"}, NEW named
  PROVE  LET table == Compile(rules)
             same == Same(table, kind, named)
         IN IF same = {} THEN LastOf(table, kind, named) = NoRule
            ELSE \E k \in same : LastOf(table, kind, named) = table[k]
  <1> DEFINE table == Compile(rules)
             same == Same(table, kind, named)
  <1>1. same \in SUBSET (1..Len(rules)) /\ Len(rules) \in Nat
    BY TableRead DEF Same
  <1>2. LastOf(table, kind, named) = IF same = {} THEN NoRule ELSE table[Max(same)]
    BY DEF LastOf
  <1> HIDE DEF same, table
  <1>3. same # {} => Max(same) \in same
    BY <1>1, GreatestOf
  <1>4. IF same = {} THEN LastOf(table, kind, named) = NoRule
        ELSE \E k \in same : LastOf(table, kind, named) = table[k]
    BY <1>2, <1>3
  <1> QED
    BY <1>4 DEF same, table

LEMMA PrefixOffers ==
  ASSUME NEW rules \in Seq(Lines), NEW path \in Seq(Tokens)
  PROVE  LET table == Compile(rules)
             fitting == Fitting(table, path)
         IN IF fitting = {} THEN LongestPrefix(table, path) = NoRule
            ELSE \E k \in fitting : /\ LongestPrefix(table, path) = table[k]
                                    /\ \A j \in fitting : Len(table[k].value) >= Len(table[j].value)
  <1> DEFINE table == Compile(rules)
             fitting == Fitting(table, path)
             size(k) == Len(table[k].value)
             longest == {k \in fitting : \A j \in fitting : size(j) <= size(k)}
  <1>1. fitting \in SUBSET (1..Len(rules)) /\ Len(rules) \in Nat
    BY TableRead DEF Fitting
  <1>2. LongestPrefix(table, path) = IF fitting = {} THEN NoRule ELSE table[Min(longest)]
    BY DEF LongestPrefix
  <1>3. ASSUME NEW k \in fitting PROVE size(k) \in 0..Len(path)
    <2>1. IsPrefix(table[k].value, path) /\ table[k].value \in Seq(Tokens)
      BY <1>3, TableRead DEF Fitting, WellRead
    <2> QED
      BY <2>1 DEF IsPrefix
  <1>4. (fitting = {} /\ LongestPrefix(table, path) = NoRule)
        \/ \E k \in fitting : LongestPrefix(table, path) = table[k] /\ \A j \in fitting : size(k) >= size(j)
    <2> SUFFICES ASSUME fitting # {}
                 PROVE  \E k \in fitting : LongestPrefix(table, path) = table[k]
                                           /\ \A j \in fitting : size(k) >= size(j)
      BY <1>2
    <2> HIDE DEF fitting, size, table
    <2> DEFINE sizes == {size(k) : k \in fitting}
    <2>1. sizes \in SUBSET (0..Len(path)) /\ sizes # {}
      BY <1>3
    <2>2. PICK k \in fitting : \A j \in fitting : size(j) <= size(k)
      <3> DEFINE short == {n \in 0..Len(path) : \A s \in sizes : s <= n}
      <3>1. short \in SUBSET Nat /\ Len(path) \in short
        BY <2>1
      <3> DEFINE most == Min(short)
      <3>2. most \in short /\ \A n \in short : most <= n
        BY <3>1, LeastOf
      <3> HIDE DEF most, sizes
      <3>3. most \in sizes
        <4>1. SUFFICES ASSUME most \notin sizes PROVE FALSE
          OBVIOUS
        <4>2. most \in 0..Len(path) /\ \A s \in sizes : s <= most /\ s # most /\ s \in 0..Len(path)
          BY <2>1, <3>2, <4>1
        <4>3. most # 0
          <5>1. PICK s \in sizes : TRUE
            BY <2>1
          <5>2. s <= most /\ s # most /\ s \in 0..Len(path)
            BY <4>2
          <5> QED
            BY <5>2
        <4>4. most - 1 \in 0..Len(path) /\ Len(path) \in Nat
          BY <4>2, <4>3
        <4>5. \A s \in sizes : s <= most - 1
          BY <4>2, <4>4
        <4>6. most - 1 \in short
          BY <4>4, <4>5
        <4> QED
          BY <3>2, <4>2, <4>6
      <3>4. PICK k \in fitting : most = size(k)
        BY <3>3 DEF sizes
      <3> QED
        BY <3>2, <3>4 DEF sizes
    <2>3. k \in longest
      BY <2>2
    <2>4. longest \in SUBSET fitting /\ fitting \in SUBSET Nat
      <3>1. longest \in SUBSET fitting
        OBVIOUS
      <3> HIDE DEF longest
      <3> QED
        BY <1>1, <3>1
    <2>5. Min(longest) \in longest
      <3> HIDE DEF longest
      <3>1. longest \in SUBSET Nat
        BY <2>4
      <3> QED
        BY <2>3, <3>1, LeastOf
    <2> QED
      <3> DEFINE first == Min(longest)
      <3> HIDE DEF first
      <3>1. first \in fitting /\ \A j \in fitting : size(j) <= size(first)
        BY <2>5 DEF first
      <3>2. LongestPrefix(table, path) = table[first]
        BY <1>2 DEF first
      <3>3. \A j \in fitting : size(j) \in Nat /\ size(first) \in Nat
        BY <1>3, <3>1
      <3> QED
        BY <3>1, <3>2, <3>3
  <1>5. fitting = {} => LongestPrefix(table, path) = NoRule
    BY <1>2
  <1> QED
    BY <1>4, <1>5

LEMMA CandidateFacts ==
  ASSUME NEW rules \in Seq(Lines), NEW path \in Seq(Tokens), NEW i \in 1..4
  PROVE  LET table == Compile(rules)
             matching == Matching(table, path)[i]
         IN IF matching = {} THEN Candidates(table, path)[i] = NoRule
            ELSE \E k \in matching : /\ Candidates(table, path)[i] = table[k]
                                     /\ \A j \in matching : NoLessSpecific(table[k], table[j])
  <1> DEFINE table == Compile(rules)
             matching == Matching(table, path)[i]
             rpc == SplitRpcPath(path)
             offered == Candidates(table, path)[i]
  <1>1. \A k \in matching : Rank(table[k]) = 5 - i
    BY MatchingRanked
  <1>2. CASE i = 2
    <2>1. matching = Fitting(table, path) /\ offered = LongestPrefix(table, path)
      BY <1>2 DEF Matching, Candidates
    <2>2. IF matching = {} THEN offered = NoRule
          ELSE \E k \in matching : offered = table[k] /\ \A j \in matching : Len(table[k].value) >= Len(table[j].value)
      BY <2>1, PrefixOffers
    <2> HIDE DEF table, matching, offered
    <2>3. IF matching = {} THEN offered = NoRule
          ELSE \E k \in matching : offered = table[k] /\ \A j \in matching : NoLessSpecific(table[k], table[j])
      BY <1>1, <2>2 DEF NoLessSpecific
    <2> QED
      BY <2>3 DEF table, matching, offered
  <1>3. CASE i \in {1, 3, 4}
    <2> DEFINE kind == IF i = 1 THEN "rest" ELSE IF i = 3 THEN "method" ELSE "service"
               named == IF i = 1 THEN path ELSE IF i = 3 THEN rpc.both ELSE rpc.service
    <2>1. matching = Same(table, kind, named) /\ offered = LastOf(table, kind, named)
      BY <1>3 DEF Matching, Candidates
    <2>2. kind \in {"rest", "method", "service"}
      OBVIOUS
    <2> HIDE DEF kind, named
    <2>3. IF matching = {} THEN offered = NoRule ELSE \E k \in matching : offered = table[k]
      BY <2>1, <2>2, SameOffers
    <2>4. \A k \in matching : ~table[k].prefix
      BY <2>1 DEF Same
    <2> HIDE DEF table, matching, offered
    <2>5. IF matching = {} THEN offered = NoRule
          ELSE \E k \in matching : offered = table[k] /\ \A j \in matching : NoLessSpecific(table[k], table[j])
      BY <1>1, <2>3, <2>4 DEF NoLessSpecific
    <2> QED
      BY <2>5 DEF table, matching, offered
  <1> QED
    BY <1>2, <1>3
LEMMA ShortUnmatched ==
  ASSUME NEW rules \in Seq(Lines), NEW path \in Seq(Tokens), Len(path) < 2,
         NEW i \in 1..4, NEW k \in Matching(Compile(rules), path)[i]
  PROVE  FALSE
  <1> DEFINE table == Compile(rules)
             rpc == SplitRpcPath(path)
  <1>1. \A m \in DOMAIN table : WellRead(table[m])
    BY TableRead
  <1>2. rpc.both = <<>> /\ rpc.service = <<>>
    <2>1. Bare(path) \in Seq(Tokens) /\ Len(Bare(path)) < 2
      BY DEF Bare
    <2>2. ~IsCall(Bare(path))
      BY <2>1 DEF IsCall
    <2> QED
      BY <2>2 DEF SplitRpcPath
  <1>3. \/ k \in Same(table, "rest", path) \/ k \in Fitting(table, path)
        \/ k \in Same(table, "method", <<>>) \/ k \in Same(table, "service", <<>>)
    BY <1>2 DEF Matching
  <1> HIDE DEF table, rpc
  <1>4. k \in DOMAIN table /\ WellRead(table[k])
    BY <1>1, <1>3 DEF Same, Fitting
  <1>5. CASE k \in Same(table, "rest", path)
    BY <1>4, <1>5 DEF Same, WellRead
  <1>6. CASE k \in Fitting(table, path)
    <2>1. table[k].prefix /\ IsPrefix(table[k].value, path)
      BY <1>6 DEF Fitting
    <2>2. table[k].kind = "rest" /\ table[k].value \in Seq(Tokens)
      BY <1>4, <2>1 DEF WellRead, NoRule
    <2> QED
      BY <1>4, <2>1, <2>2 DEF IsPrefix, WellRead
  <1>7. CASE k \in Same(table, "method", <<>>)
    <2>1. ~IsCall(<<>>)
      BY DEF IsCall
    <2> QED
      BY <1>4, <1>7, <2>1 DEF Same, WellRead
  <1>8. CASE k \in Same(table, "service", <<>>)
    BY <1>4, <1>8 DEF Same, WellRead
  <1> QED
    BY <1>3, <1>5, <1>6, <1>7, <1>8

\* What a request is matched to: a rule of the list that claims it and than
\* which no other that does is more specific, and none when none claims it.
LEMMA MatchFacts ==
  ASSUME NEW rules \in Seq(Lines), NEW raw \in Seq(Tokens)
  PROVE  LET claiming == Claiming(rules, raw)
             rule == Match(Compile(rules), raw)
         IN /\ (rule = NoRule) <=> (claiming = {})
            /\ rule # NoRule =>
                 /\ \E k \in claiming : rule = ParseRule(rules[k])
                 /\ \A k \in claiming : NoLessSpecific(rule, ParseRule(rules[k]))
  <1> DEFINE table == Compile(rules)
             path == NormalisePath(raw)
             matching(i) == Matching(table, path)[i]
             candidates == Candidates(table, path)
             claiming == Claiming(rules, raw)
             rule == Match(table, raw)
  <1>1. path \in Seq(Tokens) /\ Len(path) \in Nat
    BY NormalTyped
  <1>2. DOMAIN rules = 1..Len(rules) /\ \A k \in 1..Len(rules) : table[k] = ParseRule(rules[k])
    BY TableRead
  <1>3. ASSUME NEW k PROVE k \in claiming <=> \E i \in 1..4 : k \in matching(i)
    <2>1. (\E i \in 1..4 : k \in matching(i)) => k \in 1..Len(rules)
      BY <1>1, MatchingRanked
    <2>2. k \in claiming <=> k \in 1..Len(rules) /\ Claims(rules[k], raw)
      BY <1>2 DEF Claiming
    <2>3. k \in 1..Len(rules) => (Claims(rules[k], raw) <=> \E i \in 1..4 : k \in matching(i))
      BY ClaimsMatch
    <2> HIDE DEF claiming, matching
    <2> QED
      BY <2>1, <2>2, <2>3
  <1>4. \A i \in 1..4 : \A k \in matching(i) : k \in 1..Len(rules) /\ table[k] # NoRule /\ Rank(table[k]) = 5 - i
    BY <1>1, MatchingRanked
  <1>5. \A i \in 1..4 : IF matching(i) = {} THEN candidates[i] = NoRule
                        ELSE \E k \in matching(i) : /\ candidates[i] = table[k]
                                                    /\ \A j \in matching(i) : NoLessSpecific(table[k], table[j])
    BY <1>1, CandidateFacts
  <1>6. rule = IF Len(path) < 2 THEN NoRule ELSE FirstRule(candidates)
    BY DEF Match
  <1>7. Len(path) < 2 => \A i \in 1..4 : matching(i) = {}
    BY <1>1, ShortUnmatched
  <1>8. DOMAIN candidates = 1..4
    BY DEF Candidates
  <1> HIDE DEF table, path, matching, candidates, claiming, rule
  <1> DEFINE found == {i \in DOMAIN candidates : candidates[i] # NoRule}
  <1>9. found = {i \in 1..4 : matching(i) # {}}
    BY <1>4, <1>5, <1>8
  <1>10. FirstRule(candidates) = IF found = {} THEN NoRule ELSE candidates[Min(found)]
    BY DEF FirstRule
  <1> HIDE DEF found
  <1>11. CASE claiming = {}
    <2>1. found = {}
      BY <1>3, <1>9, <1>11
    <2> QED
      BY <1>6, <1>10, <1>11, <2>1 DEF claiming, rule, table
  <1>12. CASE claiming # {}
    <2>1. \E i \in 1..4 : matching(i) # {}
      BY <1>3, <1>12
    <2>2. found \in SUBSET Nat /\ found # {}
      BY <1>9, <2>1
    <2> DEFINE first == Min(found)
    <2>3. first \in found /\ \A i \in found : first <= i
      BY <2>2, LeastOf
    <2>4. rule = candidates[first]
      BY <1>6, <1>7, <1>10, <2>1, <2>2
    <2> HIDE DEF first
    <2>5. first \in 1..4 /\ matching(first) # {}
      BY <1>9, <2>3
    <2>6. PICK k \in matching(first) : /\ rule = table[k]
                                       /\ \A j \in matching(first) : NoLessSpecific(table[k], table[j])
      BY <1>5, <2>4, <2>5
    <2>7. k \in claiming /\ rule # NoRule /\ rule = ParseRule(rules[k])
      BY <1>2, <1>3, <1>4, <2>5, <2>6
    <2>8. ASSUME NEW j \in claiming PROVE NoLessSpecific(rule, ParseRule(rules[j]))
      <3>1. PICK i \in 1..4 : j \in matching(i)
        BY <1>3
      <3>2. i \in found /\ first <= i
        BY <1>9, <2>3, <3>1
      <3>3. table[j] = ParseRule(rules[j])
        BY <1>2, <1>4, <3>1
      <3>4. CASE i = first
        BY <2>6, <3>1, <3>3, <3>4
      <3>5. CASE i # first
        <4>1. Rank(rule) = 5 - first /\ Rank(table[j]) = 5 - i
          BY <1>4, <2>5, <2>6, <3>1
        <4>2. Rank(rule) > Rank(table[j])
          BY <2>5, <3>2, <3>5, <4>1
        <4> QED
          BY <3>3, <4>2 DEF NoLessSpecific
      <3> QED
        BY <3>4, <3>5
    <2> QED
      BY <1>12, <2>7, <2>8 DEF claiming, rule, table
  <1> QED
    BY <1>11, <1>12-----------------------------------------------------------------------------
(* The router.                                                             *)

\* The decision is the one the configuration in force calls for, and what is
\* remembered of a host is what that configuration says of it.
Remembers == \A h \in DOMAIN remembered : remembered[h] <=> h \in setting.hosts

Decided ==
  LET host == Spelled[resolved.spelling]
      candidate == setting.byok /\ host # NoHost /\ host \in setting.hosts
      known == resolved.path # NoPath
      matched == known /\ resolved.rule # NoRule
  IN resolved.action # "none" =>
       /\ resolved.path \in Asked
       /\ resolved.rule = IF known THEN Match(Compile(setting.rules), resolved.path) ELSE NoRule
       /\ resolved.action = IF ~candidate THEN "passthrough"
                            ELSE IF ~known THEN "capture" ELSE IF matched THEN "intercept" ELSE "passthrough"

RouteInv == setting \in Settings /\ Remembers /\ Decided

LEMMA NothingDecided == resolved = Unresolved => Decided
  BY DEF Decided, Unresolved

LEMMA NothingRemembered ==
  ASSUME remembered = <<>>
  PROVE  Remembers
  <1>1. DOMAIN remembered = {}
    BY DEF Remembers
  <1> QED
    BY <1>1 DEF Remembers

LEMMA VerdictsHold ==
  ASSUME Remembers, NEW host
  PROVE  HostMatches(host) <=> host \in setting.hosts
  BY DEF Remembers, HostMatches

LEMMA ResolveKeeps ==
  ASSUME RouteInv, NEW spelling \in DOMAIN Spelled, NEW path \in Asked, Resolve(spelling, path)
  PROVE  RouteInv'
  <1> DEFINE host == Spelled[spelling]
             rule == IF path = NoPath THEN NoRule ELSE Match(Compile(setting.rules), path)
             decided(action) == resolved' = [spelling |-> spelling, path |-> path, action |-> action, rule |-> rule]
             action == IF host = NoHost \/ ~HostMatches(host) THEN "passthrough"
                       ELSE IF path = NoPath THEN "capture"
                       ELSE IF rule = NoRule THEN "passthrough" ELSE "intercept"
  <1>1. UNCHANGED setting /\ setting' \in Settings
    BY DEF Resolve, RouteInv
  <1>2. Remembers'
    <2>1. CASE UNCHANGED remembered
      BY <1>1, <2>1 DEF RouteInv, Remembers
    <2>2. CASE remembered' = [h \in DOMAIN remembered \cup {host} |-> HostMatches(h)]
      <3>1. \A h : HostMatches(h) <=> h \in setting.hosts
        BY VerdictsHold DEF RouteInv
      <3> HIDE DEF host
      <3>2. \A h \in DOMAIN remembered' : remembered'[h] = HostMatches(h)
        BY <2>2
      <3> QED
        BY <1>1, <3>1, <3>2 DEF Remembers
    <2> QED
      BY <2>1, <2>2 DEF Resolve, Remember
  <1>3. Decided'
    <2>1. HostMatches(host) <=> host \in setting.hosts
      BY VerdictsHold DEF RouteInv
    <2>2. \/ ~setting.byok /\ decided("passthrough")
          \/ setting.byok /\ decided(action)
      BY DEF Resolve
    <2>3. /\ resolved'.spelling = spelling /\ resolved'.path = path /\ resolved'.rule = rule
          /\ resolved'.action = IF setting.byok THEN action ELSE "passthrough"
      BY <2>2
    <2> DEFINE matched == path # NoPath /\ rule # NoRule
               candidate == setting.byok /\ host # NoHost /\ host \in setting.hosts
    <2>4. resolved'.action = IF ~candidate THEN "passthrough"
                             ELSE IF path = NoPath THEN "capture" ELSE IF matched THEN "intercept" ELSE "passthrough"
      BY <2>1, <2>3
    <2> QED
      BY <1>1, <2>3, <2>4 DEF Decided
  <1> QED
    BY <1>1, <1>2, <1>3 DEF RouteInv

\* Whatever the revisions and the queries, the router's memory agrees with its
\* configuration.
THEOREM RouteInvariance == RouteSpec => []RouteInv
  <1>1. RouteInit => RouteInv
    BY NothingRemembered, NothingDecided DEF RouteInit, RouteInv
  <1>2. RouteInv /\ [RouteNext]_routeVars => RouteInv'
    <2> SUFFICES ASSUME RouteInv, [RouteNext]_routeVars PROVE RouteInv'
      OBVIOUS
    <2>1. ASSUME NEW new \in Settings, Recompile(new) PROVE RouteInv'
      <3>1. setting' \in Settings /\ remembered' = <<>> /\ resolved' = Unresolved
        BY <2>1 DEF Recompile
      <3>2. DOMAIN remembered' = {}
        BY <3>1
      <3>3. Remembers'
        BY <3>2 DEF Remembers
      <3>4. Decided'
        BY <3>1 DEF Decided, Unresolved
      <3> QED
        BY <3>1, <3>3, <3>4 DEF RouteInv
    <2>2. CASE UNCHANGED routeVars
      BY <2>2 DEF routeVars, RouteInv, Remembers, Decided
    <2> QED
      BY <2>1, <2>2, ResolveKeeps DEF RouteNext
  <1> QED
    BY <1>1, <1>2, PTL DEF RouteSpec

\* Intercepted is exactly what some line of the configuration in force claims,
\* by the most specific of those that do, whatever was asked before.
THEOREM RoutedByTheConfig == RouteSpec => []RoutedByConfig
  <1>1. RouteInv => RoutedByConfig
    <2> SUFFICES ASSUME RouteInv, resolved.action # "none" PROVE RoutedByConfig
      BY DEF RoutedByConfig
    <2> DEFINE host == Spelled[resolved.spelling]
               candidate == setting.byok /\ host # NoHost /\ host \in setting.hosts
               claiming == Claiming(setting.rules, resolved.path)
               rule == Match(Compile(setting.rules), resolved.path)
    <2>1. setting.rules \in Seq(Lines) /\ resolved.path \in Seq(Tokens)
      BY RouteAssumption DEF RouteInv, Decided, Lines
    <2>2. /\ (rule = NoRule) <=> (claiming = {})
          /\ rule # NoRule => /\ \E k \in claiming : rule = ParseRule(setting.rules[k])
                              /\ \A k \in claiming : NoLessSpecific(rule, ParseRule(setting.rules[k]))
      BY <2>1, MatchFacts
    <2>3. /\ resolved.rule = IF resolved.path # NoPath THEN rule ELSE NoRule
          /\ resolved.action = IF ~candidate THEN "passthrough"
                               ELSE IF resolved.path = NoPath THEN "capture"
                               ELSE IF resolved.rule # NoRule THEN "intercept" ELSE "passthrough"
      BY DEF RouteInv, Decided
    <2> HIDE DEF candidate, claiming, rule
    <2>4. /\ resolved.action = "capture" <=> candidate /\ resolved.path = NoPath
          /\ resolved.action = "intercept" <=> candidate /\ resolved.path # NoPath /\ claiming # {}
          /\ resolved.action = "intercept" => resolved.rule = rule /\ rule # NoRule
      BY <2>2, <2>3
    <2>5. /\ resolved.action = "capture" <=> candidate /\ resolved.path = NoPath
          /\ resolved.action = "intercept" <=> candidate /\ resolved.path # NoPath /\ claiming # {}
          /\ resolved.action = "intercept" =>
               /\ \E k \in claiming : resolved.rule = ParseRule(setting.rules[k])
               /\ \A k \in claiming : NoLessSpecific(resolved.rule, ParseRule(setting.rules[k]))
      BY <2>2, <2>4
    <2> QED
      BY <2>5 DEF RoutedByConfig, candidate, claiming
  <1> QED
    BY <1>1, RouteInvariance, PTL
-----------------------------------------------------------------------------
(* Induction and recursion over numbers and sequences.                      *)

\* A set of numbers that holds 0 and the successor of each of its own holds all.
LEMMA Inductive ==
  ASSUME NEW S \in SUBSET Nat, 0 \in S, \A n \in S : n + 1 \in S
  PROVE  S = Nat
  <1> DEFINE T == Nat \ S
             x == Min(T)
  <1>1. SUFFICES ASSUME T # {} PROVE FALSE
    OBVIOUS
  <1>2. x \in T /\ \A y \in T : x <= y
    BY <1>1, LeastOf
  <1> HIDE DEF x
  <1>3. x - 1 \in Nat /\ x - 1 \notin T
    BY <1>2
  <1>4. x - 1 \in S /\ (x - 1) + 1 = x
    BY <1>2, <1>3
  <1> QED
    BY <1>2, <1>4

\* What Append does, element by element.
LEMMA Appended ==
  ASSUME NEW P, NEW s \in Seq(P), NEW x \in P
  PROVE  /\ Append(s, x) \in Seq(P) /\ Len(Append(s, x)) = Len(s) + 1 /\ Len(s) \in Nat
         /\ \A i \in 1..(Len(s) + 1) : Append(s, x)[i] = IF i = Len(s) + 1 THEN x ELSE s[i]
  OBVIOUS

\* A sequence that is not empty has a last element, appended to the rest.
LEMMA Unappended ==
  ASSUME NEW P, NEW s \in Seq(P), s # <<>>
  PROVE  \E f \in Seq(P), x \in P : s = Append(f, x) /\ Len(s) = Len(f) + 1
  <1> DEFINE n == Len(s)
             front == SubSeq(s, 1, n - 1)
  <1>1. n \in Nat /\ n >= 1 /\ s[n] \in P
    OBVIOUS
  <1>2. front \in Seq(P) /\ Len(front) = n - 1 /\ \A i \in 1..(n - 1) : front[i] = s[i]
    <2>1. Len(s) \in Nat /\ n - 1 \in 0..Len(s)
      BY <1>1
    <2> HIDE DEF n
    <2>2. front \in Seq(P)
      BY <2>1
    <2>3. Len(front) = n - 1
      BY <2>1
    <2>4. \A i \in 1..(n - 1) : front[i] = s[i]
      BY <2>1
    <2> QED
      BY <2>2, <2>3, <2>4
  <1>3. /\ Append(front, s[n]) \in Seq(P) /\ Len(Append(front, s[n])) = n
        /\ \A i \in 1..n : Append(front, s[n])[i] = s[i]
    <2> DEFINE x == s[n]
    <2>1. x \in P /\ x = s[n]
      BY <1>1
    <2> HIDE DEF front, x, n
    <2>2. /\ Append(front, x) \in Seq(P) /\ Len(Append(front, x)) = Len(front) + 1
          /\ \A i \in 1..(Len(front) + 1) : Append(front, x)[i] = IF i = Len(front) + 1 THEN x ELSE front[i]
      BY <1>2, <2>1, Appended
    <2>3. Len(front) + 1 = n
      BY <1>1, <1>2
    <2>4. \A i \in 1..n : Append(front, x)[i] = s[i]
      BY <1>1, <1>2, <2>1, <2>2, <2>3
    <2> QED
      BY <2>2, <2>3, <2>4 DEF x
  <1> HIDE DEF front
  <1>4. Append(front, s[n]) = s
    <2> DEFINE whole == Append(front, s[n])
    <2>1. whole \in Seq(P) /\ Len(whole) = Len(s) /\ \A i \in 1..Len(s) : whole[i] = s[i]
      BY <1>3
    <2> HIDE DEF whole
    <2>2. whole = s
      BY <2>1
    <2> QED
      BY <2>2 DEF whole
  <1> QED
    BY <1>1, <1>2, <1>4

\* The same for sequences.
LEMMA SeqInductive ==
  ASSUME NEW P, NEW T \in SUBSET Seq(P), <<>> \in T, \A s \in T, x \in P : Append(s, x) \in T
  PROVE  T = Seq(P)
  <1> DEFINE S == {n \in Nat : \A s \in Seq(P) : Len(s) = n => s \in T}
  <1>1. 0 \in S
    <2>1. \A s \in Seq(P) : Len(s) = 0 => s = <<>>
      OBVIOUS
    <2> QED
      BY <2>1
  <1>2. ASSUME NEW n \in S PROVE n + 1 \in S
    <2> SUFFICES ASSUME NEW s \in Seq(P), Len(s) = n + 1 PROVE s \in T
      OBVIOUS
    <2>1. s # <<>> /\ n \in Nat
      OBVIOUS
    <2>2. PICK f \in Seq(P), x \in P : s = Append(f, x) /\ Len(s) = Len(f) + 1
      BY <2>1, Unappended
    <2>3. Len(f) = n
      BY <2>1, <2>2
    <2>4. f \in T
      BY <2>3
    <2> QED
      BY <2>2, <2>4
  <1> HIDE DEF S
  <1>3. S = Nat
    <2>1. S \in SUBSET Nat
      BY DEF S
    <2> QED
      BY <1>1, <1>2, <2>1, Inductive
  <1>4. ASSUME NEW s \in Seq(P) PROVE s \in T
    <2>1. Len(s) \in S
      BY <1>3
    <2> QED
      BY <2>1 DEF S
  <1> QED
    BY <1>4

\* A value for each number up to n, each from the one before it.
Follows(g, n, V, base, advance) ==
  /\ g \in [0..n -> V] /\ g[0] = base
  /\ \A i \in 1..n : g[i] = advance[i][g[i - 1]]

\* Such values exist, for a bounded number of steps.
LEMMA Recursion ==
  ASSUME NEW n \in Nat, NEW V, NEW base \in V, NEW advance \in [1..n -> [V -> V]]
  PROVE  \E g : Follows(g, n, V, base, advance)
  <1> DEFINE upTo(m) == \E g : Follows(g, m, V, base, advance)
             S == {m \in Nat : m <= n => upTo(m)}
  <1>1. 0 \in S
    <2> DEFINE first == [i \in 0..0 |-> base]
    <2>1. first \in [0..0 -> V] /\ first[0] = base /\ \A i \in 1..0 : FALSE
      OBVIOUS
    <2> HIDE DEF first
    <2>2. upTo(0)
      BY <2>1 DEF Follows
    <2> QED
      BY <2>2
  <1>2. ASSUME NEW m \in S PROVE m + 1 \in S
    <2> SUFFICES ASSUME m + 1 <= n PROVE upTo(m + 1)
      OBVIOUS
    <2>0. m <= n /\ m \in Nat
      OBVIOUS
    <2>1. PICK g : Follows(g, m, V, base, advance)
      BY <2>0
    <2> USE <2>0, <2>1 DEF Follows
    <2> DEFINE more == [i \in 0..(m + 1) |-> IF i = m + 1 THEN advance[m + 1][g[m]] ELSE g[i]]
    <2>2. m \in 0..m /\ m + 1 \in 1..n /\ g[m] \in V /\ advance[m + 1][g[m]] \in V
      OBVIOUS
    <2>3. more \in [0..(m + 1) -> V]
      BY <2>2
    <2>4. more[0] = base
      BY <2>1
    <2>5. ASSUME NEW i \in 1..(m + 1) PROVE more[i] = advance[i][more[i - 1]]
      <3>1. i - 1 \in 0..m /\ more[i - 1] = g[i - 1]
        OBVIOUS
      <3>2. more[i] = IF i = m + 1 THEN advance[m + 1][g[m]] ELSE g[i]
        OBVIOUS
      <3> HIDE DEF more
      <3>3. CASE i = m + 1
        BY <3>1, <3>2, <3>3
      <3>4. CASE i # m + 1
        <4>1. i \in 1..m
          BY <3>4
        <4>2. g[i] = advance[i][g[i - 1]]
          BY <2>1, <4>1
        <4> QED
          BY <3>1, <3>2, <3>4, <4>2
      <3> QED
        BY <3>3, <3>4
    <2> HIDE DEF more
    <2> QED
      BY <2>3, <2>4, <2>5
  <1> HIDE DEF S, upTo
  <1>3. n \in S
    <2>1. S \in SUBSET Nat
      BY DEF S
    <2> QED
      BY <1>1, <1>2, <2>1, Inductive
  <1> QED
    BY <1>3 DEF S, upTo

\* Two that agree at 0, and at each number if at the one before it, agree.
AgreeOnward(f, g, n) == f[0] = g[0] /\ \A i \in 1..n : f[i - 1] = g[i - 1] => f[i] = g[i]

LEMMA Agreement ==
  ASSUME NEW n \in Nat, NEW f, NEW g, AgreeOnward(f, g, n)
  PROVE  \A i \in 0..n : f[i] = g[i]
  <1> DEFINE same == {m \in Nat : m <= n => f[m] = g[m]}
  <1>1. 0 \in same
    BY DEF AgreeOnward
  <1>2. ASSUME NEW m \in Nat, m <= n => f[m] = g[m], m + 1 <= n
        PROVE  f[m + 1] = g[m + 1]
    <2>1. m + 1 \in 1..n /\ (m + 1) - 1 = m /\ f[m] = g[m]
      BY <1>2
    <2> QED
      BY <2>1 DEF AgreeOnward
  <1>3. \A m \in same : m + 1 \in same
    BY <1>2
  <1> HIDE DEF same
  <1>4. same = Nat
    <2>1. same \in SUBSET Nat
      BY DEF same
    <2> QED
      BY <1>1, <1>3, <2>1, Inductive
  <1>5. \A i \in 0..n : i \in same /\ i <= n
    BY <1>4
  <1> QED
    BY <1>5 DEF same

-----------------------------------------------------------------------------
(* Sequences of sequences.                                                  *)

Joins(g, ss) == g[0] = <<>> /\ \A i \in 1..Len(ss) : g[i] = g[i - 1] \o ss[i]

\* FlattenSeq, step by step.
LEMMA FlattenUnfolds ==
  ASSUME NEW P, NEW ss \in Seq(Seq(P))
  PROVE  \E g \in [0..Len(ss) -> Seq(P)] : Joins(g, ss) /\ FlattenSeq(ss) = g[Len(ss)]
  <1> DEFINE n == Len(ss)
             V == Seq(P)
             advance == [i \in 1..n |-> [v \in V |-> v \o ss[i]]]
             IsFlat(f) == f = [i \in 1..n |-> IF i = 1 THEN ss[i] ELSE f[i - 1] \o ss[i]]
  <1>1. n \in Nat /\ <<>> \in V
    OBVIOUS
  <1>2. ASSUME NEW i \in 1..n
        PROVE  ss[i] \in V /\ \A v \in V : advance[i][v] = v \o ss[i] /\ advance[i][v] \in V
    <2>1. ss[i] \in V
      OBVIOUS
    <2>2. \A v \in V : advance[i][v] = v \o ss[i]
      OBVIOUS
    <2>3. \A v \in Seq(P), w \in Seq(P) : v \o w \in Seq(P)
      OBVIOUS
    <2> HIDE DEF advance
    <2> QED
      BY <2>1, <2>2, <2>3
  <1>3. advance \in [1..n -> [V -> V]]
    <2>1. ASSUME NEW i \in 1..n PROVE advance[i] \in [V -> V]
      <3>1. advance[i] = [v \in V |-> advance[i][v]]
        OBVIOUS
      <3> HIDE DEF advance, V, n
      <3> QED
        BY <1>2, <3>1
    <2>2. advance = [i \in 1..n |-> advance[i]]
      OBVIOUS
    <2> HIDE DEF advance, V, n
    <2> QED
      BY <2>1, <2>2
  <1> HIDE DEF advance
  <1>4. PICK g : Follows(g, n, V, <<>>, advance)
    <2> HIDE DEF n, V
    <2> QED
      BY <1>1, <1>3, Recursion
  <1>5. g \in [0..n -> V] /\ g[0] = <<>> /\ \A i \in 1..n : g[i] = advance[i][g[i - 1]]
    BY <1>4 DEF Follows
  <1>6. ASSUME NEW i \in 1..n PROVE g[i] = g[i - 1] \o ss[i]
    <2>1. i - 1 \in 0..n
      BY <1>1
    <2> HIDE DEF n, V
    <2>2. g[i - 1] \in V
      BY <1>5, <2>1
    <2> QED
      BY <1>2, <1>5, <2>2
  <1>7. CASE n = 0
    <2>1. FlattenSeq(ss) = <<>>
      BY <1>7 DEF FlattenSeq
    <2> QED
      BY <1>1, <1>5, <1>7, <2>1 DEF Joins
  <1>8. CASE n # 0
    <2>1. 1 \in 1..n /\ n \in 1..n
      BY <1>1, <1>8
    <2>2. g[1] = ss[1]
      <3>1. \A v \in Seq(P) : <<>> \o v = v
        OBVIOUS
      <3>2. g[1] = g[0] \o ss[1] /\ ss[1] \in Seq(P)
        <4>1. g[1] = g[1 - 1] \o ss[1] /\ ss[1] \in V
          BY <1>2, <1>6, <2>1
        <4>2. 1 - 1 = 0
          OBVIOUS
        <4> QED
          BY <4>1, <4>2
      <3> QED
        BY <1>5, <3>1, <3>2
    <2> DEFINE h == [i \in 1..n |-> g[i]]
    <2>3. IsFlat(h)
      <3> DEFINE made(i) == IF i = 1 THEN ss[i] ELSE h[i - 1] \o ss[i]
      <3>1. ASSUME NEW i \in 1..n PROVE g[i] = made(i)
        <4>1. CASE i = 1
          BY <2>2, <4>1
        <4>2. CASE i # 1
          <5>1. i - 1 \in 1..n
            BY <1>1, <4>2
          <5>2. h[i - 1] = g[i - 1]
            BY <5>1
          <5> QED
            BY <1>6, <4>2, <5>2
        <4> QED
          BY <4>1, <4>2
      <3>2. h = [i \in 1..n |-> g[i]]
        OBVIOUS
      <3> HIDE DEF made, n
      <3>3. h = [i \in 1..n |-> made(i)]
        BY <3>1, <3>2
      <3> QED
        BY <3>3 DEF made
    <2> HIDE DEF h
    <2> DEFINE flatten == CHOOSE f : IsFlat(f)
    <2>4. IsFlat(flatten)
      BY <2>3
    <2>5. FlattenSeq(ss) = flatten[n]
      BY <1>8 DEF FlattenSeq
    <2> HIDE DEF flatten
    <2>6. \A i \in 1..n : flatten[i] = IF i = 1 THEN ss[i] ELSE flatten[i - 1] \o ss[i]
      <3> DEFINE made(i) == IF i = 1 THEN ss[i] ELSE flatten[i - 1] \o ss[i]
      <3>1. flatten = [i \in 1..n |-> made(i)]
        BY <2>4
      <3> HIDE DEF made
      <3>2. \A i \in 1..n : flatten[i] = made(i)
        BY <3>1
      <3> QED
        BY <3>2 DEF made
    <2> DEFINE from0 == [i \in 0..n |-> IF i = 0 THEN <<>> ELSE flatten[i]]
    <2>7. from0[0] = <<>> /\ \A i \in 1..n : from0[i] = flatten[i]
      BY <1>1
    <2> HIDE DEF from0
    <2>8. \A i \in 1..n : from0[i - 1] = g[i - 1] => from0[i] = g[i]
      <3> SUFFICES ASSUME NEW i \in 1..n, from0[i - 1] = g[i - 1] PROVE from0[i] = g[i]
        OBVIOUS
      <3>1. CASE i = 1
        BY <2>2, <2>6, <2>7, <3>1
      <3>2. CASE i # 1
        <4>1. i - 1 \in 1..n
          BY <1>1, <3>2
        <4>2. from0[i - 1] = flatten[i - 1]
          BY <2>7, <4>1
        <4>3. flatten[i] = flatten[i - 1] \o ss[i]
          BY <2>6, <3>2
        <4>4. flatten[i] = g[i - 1] \o ss[i]
          BY <4>2, <4>3
        <4> QED
          BY <1>6, <2>7, <4>4
      <3> QED
        BY <3>1, <3>2
    <2>9. AgreeOnward(from0, g, n)
      BY <1>5, <2>7, <2>8 DEF AgreeOnward
    <2>10. from0[n] = g[n]
      <3> HIDE DEF n, V
      <3>1. \A i \in 0..n : from0[i] = g[i]
        BY <1>1, <2>9, Agreement
      <3> QED
        BY <1>1, <3>1
    <2>11. FlattenSeq(ss) = g[n]
      BY <2>1, <2>5, <2>7, <2>10
    <2> QED
      BY <1>5, <1>6, <2>11 DEF Joins
  <1> QED
    BY <1>7, <1>8

LEMMA FlattenNothing == FlattenSeq(<<>>) = <<>>
  <1>1. Len(<<>>) = 0
    OBVIOUS
  <1> QED
    BY <1>1 DEF FlattenSeq

\* FlattenSeq of one sequence more.
LEMMA FlattenOne ==
  ASSUME NEW P, NEW ss \in Seq(Seq(P)), NEW s \in Seq(P)
  PROVE  FlattenSeq(Append(ss, s)) = FlattenSeq(ss) \o s /\ FlattenSeq(ss) \in Seq(P)
  <1> DEFINE n == Len(ss)
             more == Append(ss, s)
  <1>1. /\ more \in Seq(Seq(P)) /\ Len(more) = n + 1 /\ n \in Nat
        /\ \A i \in 1..(n + 1) : more[i] = IF i = n + 1 THEN s ELSE ss[i]
    BY Appended
  <1> HIDE DEF more
  <1>2. PICK g \in [0..n -> Seq(P)] : Joins(g, ss) /\ FlattenSeq(ss) = g[n]
    BY FlattenUnfolds
  <1>3. PICK h : Joins(h, more) /\ FlattenSeq(more) = h[n + 1]
    BY <1>1, FlattenUnfolds
  <1>4. h[0] = <<>> /\ g[0] = <<>> /\ \A i \in 1..n : g[i] = g[i - 1] \o ss[i]
    BY <1>2, <1>3 DEF Joins
  <1> HIDE DEF n
  <1>5. \A i \in 1..(n + 1) : h[i] = h[i - 1] \o more[i]
    BY <1>1, <1>3 DEF Joins
  <1>6. \A i \in 1..n : i \in 1..(n + 1) /\ more[i] = ss[i]
    BY <1>1
  <1>7. \A i \in 0..n : h[i] = g[i]
    <2>1. \A i \in 1..n : h[i - 1] = g[i - 1] => h[i] = g[i]
      BY <1>4, <1>5, <1>6
    <2>2. AgreeOnward(h, g, n)
      BY <1>4, <2>1 DEF AgreeOnward
    <2> QED
      BY <1>1, <2>2, Agreement
  <1>8. n + 1 \in 1..(n + 1) /\ (n + 1) - 1 = n /\ n \in 0..n
    BY <1>1
  <1>9. h[n + 1] = h[n] \o s
    BY <1>1, <1>5, <1>8
  <1>10. h[n] = g[n] /\ g[n] \in Seq(P)
    BY <1>2, <1>7, <1>8
  <1> QED
    BY <1>2, <1>3, <1>9, <1>10 DEF more

\* Sequences are joined in any order of joining, and the empty one adds nothing.
LEMMA Associative ==
  ASSUME NEW P, NEW a \in Seq(P), NEW b \in Seq(P), NEW c \in Seq(P)
  PROVE  (a \o b) \o c = a \o (b \o c) /\ a \o b \in Seq(P) /\ <<>> \o a = a /\ a \o <<>> = a
  OBVIOUS

LEMMA FlattenTyped ==
  ASSUME NEW P, NEW ss \in Seq(Seq(P))
  PROVE  FlattenSeq(ss) \in Seq(P)
  <1>1. <<>> \in Seq(P)
    OBVIOUS
  <1> QED
    BY <1>1, FlattenOne

\* Sequences with the same elements are the same.
LEMMA SameSequence ==
  ASSUME NEW Q, NEW c \in Seq(Q), NEW d \in Seq(Q), Len(c) = Len(d), \A k \in 1..Len(c) : c[k] = d[k]
  PROVE  c = d
  OBVIOUS

\* What joining does, element by element.
LEMMA Concatenated ==
  ASSUME NEW P, NEW a \in Seq(P), NEW b \in Seq(P)
  PROVE  /\ a \o b \in Seq(P) /\ Len(a \o b) = Len(a) + Len(b) /\ Len(a) \in Nat /\ Len(b) \in Nat
         /\ \A k \in 1..(Len(a) + Len(b)) : (a \o b)[k] = IF k <= Len(a) THEN a[k] ELSE b[k - Len(a)]
  OBVIOUS


\* A value for each number, each from the one before it.
Runs(g, V, base, advance) ==
  /\ g \in [Nat -> V] /\ g[0] = base
  /\ \A i \in Nat : g[i + 1] = advance[i + 1][g[i]]

\* Such values exist, for any number of steps.
LEMMA RunsOn ==
  ASSUME NEW V, NEW base \in V, NEW advance \in [Nat -> [V -> V]]
  PROVE  \E g : Runs(g, V, base, advance)
  <1> DEFINE first(n) == [i \in 1..n |-> advance[i]]
             h(n) == CHOOSE g : Follows(g, n, V, base, first(n))
             g == [n \in Nat |-> h(n)[n]]
  <1>1. ASSUME NEW n \in Nat PROVE Follows(h(n), n, V, base, first(n))
    <2>1. first(n) \in [1..n -> [V -> V]]
      OBVIOUS
    <2> HIDE DEF first
    <2>2. \E f : Follows(f, n, V, base, first(n))
      BY <2>1, Recursion
    <2> QED
      BY <2>2
  <1> HIDE DEF h
  <1>2. ASSUME NEW n \in Nat
        PROVE  /\ h(n) \in [0..n -> V] /\ h(n)[0] = base
               /\ \A i \in 1..n : h(n)[i] = advance[i][h(n)[i - 1]]
    BY <1>1 DEF Follows
  <1>3. g \in [Nat -> V] /\ g[0] = base
    <2>1. \A n \in Nat : h(n)[n] \in V
      BY <1>2
    <2> QED
      BY <1>2, <2>1
  <1>4. ASSUME NEW n \in Nat PROVE g[n + 1] = advance[n + 1][g[n]]
    <2> DEFINE m == n + 1
    <2>1. m \in Nat /\ m \in 1..m /\ m - 1 = n /\ \A i \in 1..n : i \in 1..m
      OBVIOUS
    <2>2. AgreeOnward(h(m), h(n), n)
      <3>1. h(m)[0] = h(n)[0]
        BY <1>2, <2>1
      <3>2. \A i \in 1..n : h(m)[i] = advance[i][h(m)[i - 1]] /\ h(n)[i] = advance[i][h(n)[i - 1]]
        BY <1>2, <2>1
      <3> QED
        BY <3>1, <3>2 DEF AgreeOnward
    <2>3. h(m)[n] = h(n)[n]
      <3>1. \A i \in 0..n : h(m)[i] = h(n)[i]
        BY <2>2, Agreement
      <3> QED
        BY <3>1
    <2>4. h(m)[m] = advance[m][h(m)[m - 1]]
      BY <1>2, <2>1
    <2> HIDE DEF m
    <2> QED
      BY <2>1, <2>3, <2>4 DEF m
  <1> HIDE DEF g
  <1> QED
    BY <1>3, <1>4 DEF Runs
-----------------------------------------------------------------------------
(* The fields with some numbers.                                            *)

\* OfNumbers, step by step.
KeepsOf(g, s, nos) ==
  /\ g[0] = <<>>
  /\ \A i \in 1..Len(s) : g[i] = IF s[i].no \in nos THEN Append(g[i - 1], s[i]) ELSE g[i - 1]

LEMMA OfNumbersUnfolds ==
  ASSUME NEW P, NEW s \in Seq(P), NEW nos
  PROVE  \E g \in [0..Len(s) -> Seq(P)] : KeepsOf(g, s, nos) /\ OfNumbers(s, nos) = g[Len(s)]
  <1> DEFINE n == Len(s)
             V == Seq(P)
             advance == [i \in 1..n |-> [v \in V |-> IF s[i].no \in nos THEN Append(v, s[i]) ELSE v]]
             IsKept(f) == f = [i \in 0..n |-> IF i = 0 THEN <<>>
                                  ELSE IF s[i].no \in nos THEN Append(f[i - 1], s[i]) ELSE f[i - 1]]
  <1>1. n \in Nat /\ <<>> \in V
    OBVIOUS
  <1>2. ASSUME NEW i \in 1..n, NEW v \in V
        PROVE  /\ advance[i][v] = IF s[i].no \in nos THEN Append(v, s[i]) ELSE v
               /\ advance[i][v] \in V
    <2>1. s[i] \in P
      OBVIOUS
    <2>2. advance[i][v] = IF s[i].no \in nos THEN Append(v, s[i]) ELSE v
      OBVIOUS
    <2>3. Append(v, s[i]) \in V
      BY <2>1, Appended
    <2> HIDE DEF advance, V
    <2> QED
      BY <2>2, <2>3
  <1>3. advance \in [1..n -> [V -> V]]
    <2>1. ASSUME NEW i \in 1..n PROVE advance[i] \in [V -> V]
      <3>1. advance[i] = [v \in V |-> advance[i][v]]
        OBVIOUS
      <3> HIDE DEF advance, V, n
      <3> QED
        BY <1>2, <3>1
    <2>2. advance = [i \in 1..n |-> advance[i]]
      OBVIOUS
    <2> HIDE DEF advance, V, n
    <2> QED
      BY <2>1, <2>2
  <1> HIDE DEF advance
  <1>4. PICK g : Follows(g, n, V, <<>>, advance)
    <2> HIDE DEF n, V
    <2> QED
      BY <1>1, <1>3, Recursion
  <1>11. g \in [0..n -> V] /\ g[0] = <<>> /\ \A i \in 1..n : g[i] = advance[i][g[i - 1]]
    BY <1>4 DEF Follows
  <1>5. ASSUME NEW i \in 1..n
        PROVE  g[i] = IF s[i].no \in nos THEN Append(g[i - 1], s[i]) ELSE g[i - 1]
    <2>1. i - 1 \in 0..n
      BY <1>1
    <2> HIDE DEF n, V
    <2>2. g[i - 1] \in V
      BY <1>11, <2>1
    <2> DEFINE v == g[i - 1]
    <2>3. advance[i][v] = IF s[i].no \in nos THEN Append(v, s[i]) ELSE v
      BY <1>2, <2>2
    <2> QED
      BY <1>11, <2>3
  <1>6. IsKept(g)
    <2> DEFINE made(i) == IF i = 0 THEN <<>>
                           ELSE IF s[i].no \in nos THEN Append(g[i - 1], s[i]) ELSE g[i - 1]
    <2>1. ASSUME NEW i \in 0..n PROVE g[i] = made(i)
      <3>1. CASE i = 0
        BY <1>11, <3>1
      <3>2. CASE i # 0
        <4>1. i \in 1..n
          BY <1>1, <3>2
        <4> QED
          BY <1>5, <3>2, <4>1
      <3> QED
        BY <3>1, <3>2
    <2> HIDE DEF made, V, n
    <2>3. g \in [0..n -> V]
      BY <1>11
    <2>2. g = [i \in 0..n |-> made(i)]
      BY <2>1, <2>3
    <2> QED
      BY <2>2 DEF made
  <1> DEFINE kept == CHOOSE f : IsKept(f)
  <1>7. IsKept(kept)
    BY <1>6
  <1>8. OfNumbers(s, nos) = kept[n]
    BY DEF OfNumbers
  <1> HIDE DEF kept
  <1>9. kept[0] = <<>> /\ \A i \in 1..n : kept[i] = IF s[i].no \in nos THEN Append(kept[i - 1], s[i]) ELSE kept[i - 1]
    <2> DEFINE made(i) == IF i = 0 THEN <<>>
                           ELSE IF s[i].no \in nos THEN Append(kept[i - 1], s[i]) ELSE kept[i - 1]
    <2>1. kept = [i \in 0..n |-> made(i)]
      BY <1>7
    <2> HIDE DEF made
    <2>2. \A i \in 0..n : kept[i] = made(i)
      BY <2>1
    <2>3. 0 \in 0..n /\ \A i \in 1..n : i \in 0..n /\ i # 0
      BY <1>1
    <2>4. kept[0] = made(0) /\ \A i \in 1..n : kept[i] = made(i)
      BY <2>2, <2>3
    <2> QED
      BY <2>3, <2>4 DEF made
  <1>10. \A i \in 0..n : kept[i] = g[i]
    <2>1. \A i \in 1..n : kept[i - 1] = g[i - 1] => kept[i] = g[i]
      BY <1>5, <1>9
    <2> HIDE DEF n, V
    <2>2. AgreeOnward(kept, g, n)
      BY <1>9, <1>11, <2>1 DEF AgreeOnward
    <2> QED
      BY <1>1, <2>2, Agreement
  <1> QED
    BY <1>1, <1>11, <1>5, <1>8, <1>10 DEF KeepsOf

LEMMA OfNumbersNothing ==
  ASSUME NEW nos
  PROVE  OfNumbers(<<>>, nos) = <<>>
  <1> DEFINE P == {}
  <1>1. <<>> \in Seq(P) /\ Len(<<>>) = 0
    OBVIOUS
  <1> DEFINE empty == <<>>
  <1> HIDE DEF empty, P
  <1>2. PICK g : KeepsOf(g, empty, nos) /\ OfNumbers(empty, nos) = g[Len(empty)]
    BY <1>1, OfNumbersUnfolds DEF empty
  <1>3. g[0] = <<>>
    BY <1>2 DEF KeepsOf
  <1> QED
    BY <1>1, <1>2, <1>3 DEF empty

LEMMA OfNumbersTyped ==
  ASSUME NEW P, NEW s \in Seq(P), NEW nos
  PROVE  OfNumbers(s, nos) \in Seq(P)
  <1>1. Len(s) \in 0..Len(s)
    OBVIOUS
  <1> QED
    BY <1>1, OfNumbersUnfolds

\* One wire field more.
LEMMA OfNumbersOne ==
  ASSUME NEW P, NEW s \in Seq(P), NEW x \in P, NEW nos
  PROVE  OfNumbers(Append(s, x), nos) = IF x.no \in nos THEN Append(OfNumbers(s, nos), x) ELSE OfNumbers(s, nos)
  <1> DEFINE n == Len(s)
             more == Append(s, x)
  <1>1. /\ more \in Seq(P) /\ Len(more) = n + 1 /\ n \in Nat
        /\ \A i \in 1..(n + 1) : more[i] = IF i = n + 1 THEN x ELSE s[i]
    BY Appended
  <1> HIDE DEF more
  <1>2. PICK g : KeepsOf(g, s, nos) /\ OfNumbers(s, nos) = g[n]
    BY OfNumbersUnfolds
  <1>3. PICK h : KeepsOf(h, more, nos) /\ OfNumbers(more, nos) = h[n + 1]
    BY <1>1, OfNumbersUnfolds
  <1> HIDE DEF n
  <1>4. \A i \in 1..(n + 1) : h[i] = IF more[i].no \in nos THEN Append(h[i - 1], more[i]) ELSE h[i - 1]
    BY <1>1, <1>3 DEF KeepsOf
  <1>5. h[0] = <<>> /\ g[0] = <<>>
    BY <1>2, <1>3 DEF KeepsOf
  <1>6. \A i \in 1..n : g[i] = IF s[i].no \in nos THEN Append(g[i - 1], s[i]) ELSE g[i - 1]
    BY <1>2 DEF KeepsOf, n
  <1>7. \A i \in 1..n : more[i] = s[i]
    BY <1>1
  <1>8. \A i \in 0..n : h[i] = g[i]
    <2>1. \A i \in 1..n : h[i - 1] = g[i - 1] => h[i] = g[i]
      BY <1>1, <1>4, <1>6, <1>7
    <2>2. AgreeOnward(h, g, n)
      BY <1>5, <2>1 DEF AgreeOnward
    <2> QED
      BY <1>1, <2>2, Agreement
  <1>9. h[n + 1] = IF x.no \in nos THEN Append(h[n], x) ELSE h[n]
    BY <1>1, <1>4
  <1>10. h[n] = g[n]
    BY <1>1, <1>8
  <1> QED
    BY <1>2, <1>3, <1>9, <1>10 DEF more

\* Of two sequences joined, those of the one and then those of the other.
LEMMA OfNumbersJoined ==
  ASSUME NEW P, NEW s \in Seq(P), NEW t \in Seq(P), NEW nos
  PROVE  OfNumbers(s \o t, nos) = OfNumbers(s, nos) \o OfNumbers(t, nos)
  <1> DEFINE T == {u \in Seq(P) : OfNumbers(s \o u, nos) = OfNumbers(s, nos) \o OfNumbers(u, nos)}
  <1>1. <<>> \in T
    <2>1. \A u \in Seq(P) : u \o <<>> = u
      OBVIOUS
    <2>2. s \o <<>> = s /\ OfNumbers(s, nos) \o <<>> = OfNumbers(s, nos)
      BY <2>1, OfNumbersTyped
    <2>3. OfNumbers(<<>>, nos) = <<>>
      BY OfNumbersNothing
    <2>4. <<>> \in Seq(P)
      OBVIOUS
    <2> QED
      BY <2>2, <2>3, <2>4
  <1>2. ASSUME NEW u \in Seq(P), OfNumbers(s \o u, nos) = OfNumbers(s, nos) \o OfNumbers(u, nos), NEW x \in P
        PROVE  OfNumbers(s \o Append(u, x), nos) = OfNumbers(s, nos) \o OfNumbers(Append(u, x), nos)
    <2>1. s \o u \in Seq(P) /\ s \o Append(u, x) = Append(s \o u, x)
      OBVIOUS
    <2>2. OfNumbers(Append(s \o u, x), nos) = IF x.no \in nos THEN Append(OfNumbers(s \o u, nos), x) ELSE OfNumbers(s \o u, nos)
      <3> DEFINE both == s \o u
      <3>1. both \in Seq(P)
        BY <2>1
      <3> HIDE DEF both
      <3>2. OfNumbers(Append(both, x), nos) = IF x.no \in nos THEN Append(OfNumbers(both, nos), x) ELSE OfNumbers(both, nos)
        BY <3>1, OfNumbersOne
      <3> QED
        BY <3>2 DEF both
    <2>3. OfNumbers(Append(u, x), nos) = IF x.no \in nos THEN Append(OfNumbers(u, nos), x) ELSE OfNumbers(u, nos)
      BY OfNumbersOne
    <2>4. OfNumbers(s, nos) \in Seq(P) /\ OfNumbers(u, nos) \in Seq(P)
      BY OfNumbersTyped
    <2> DEFINE a == OfNumbers(s, nos)
               b == OfNumbers(u, nos)
    <2> HIDE DEF a, b
    <2>5. a \in Seq(P) /\ b \in Seq(P)
      BY <2>4 DEF a, b
    <2>6. a \o Append(b, x) = Append(a \o b, x)
      BY <2>5
    <2> QED
      BY <1>2, <2>1, <2>2, <2>3, <2>6 DEF a, b
  <1>3. \A u \in T, x \in P : Append(u, x) \in T
    <2> SUFFICES ASSUME NEW u \in T, NEW x \in P PROVE Append(u, x) \in T
      OBVIOUS
    <2>1. Append(u, x) \in Seq(P)
      BY Appended
    <2> QED
      BY <1>2, <2>1
  <1>4. T \in SUBSET Seq(P)
    OBVIOUS
  <1> HIDE DEF T
  <1>5. T = Seq(P)
    BY <1>1, <1>3, <1>4, SeqInductive
  <1> QED
    BY <1>5 DEF T
-----------------------------------------------------------------------------
\* Only the numbers that occur matter.
LEMMA OfNumbersAgree ==
  ASSUME NEW P, NEW s \in Seq(P), NEW A, NEW B, \A w \in P : w.no \in A <=> w.no \in B
  PROVE  OfNumbers(s, A) = OfNumbers(s, B)
  <1> DEFINE T == {u \in Seq(P) : OfNumbers(u, A) = OfNumbers(u, B)}
  <1>1. <<>> \in T
    <2>1. <<>> \in Seq(P)
      OBVIOUS
    <2> QED
      BY <2>1, OfNumbersNothing
  <1>2. ASSUME NEW u \in Seq(P), OfNumbers(u, A) = OfNumbers(u, B), NEW x \in P
        PROVE  OfNumbers(Append(u, x), A) = OfNumbers(Append(u, x), B)
    <2>1. OfNumbers(Append(u, x), A) = IF x.no \in A THEN Append(OfNumbers(u, A), x) ELSE OfNumbers(u, A)
      BY OfNumbersOne
    <2>2. OfNumbers(Append(u, x), B) = IF x.no \in B THEN Append(OfNumbers(u, B), x) ELSE OfNumbers(u, B)
      BY OfNumbersOne
    <2> QED
      BY <1>2, <2>1, <2>2
  <1>3. \A u \in T, x \in P : Append(u, x) \in T
    <2> SUFFICES ASSUME NEW u \in T, NEW x \in P PROVE Append(u, x) \in T
      OBVIOUS
    <2>1. Append(u, x) \in Seq(P)
      BY Appended
    <2> QED
      BY <1>2, <2>1
  <1>4. T \in SUBSET Seq(P)
    OBVIOUS
  <1> HIDE DEF T
  <1>5. T = Seq(P)
    BY <1>1, <1>3, <1>4, SeqInductive
  <1> QED
    BY <1>5 DEF T

LEMMA OfNumbersAll ==
  ASSUME NEW P, NEW s \in Seq(P), NEW nos, \A w \in P : w.no \in nos
  PROVE  OfNumbers(s, nos) = s
  <1> DEFINE T == {u \in Seq(P) : OfNumbers(u, nos) = u}
  <1>1. <<>> \in T
    <2>1. <<>> \in Seq(P)
      OBVIOUS
    <2> QED
      BY <2>1, OfNumbersNothing
  <1>2. ASSUME NEW u \in Seq(P), OfNumbers(u, nos) = u, NEW x \in P
        PROVE  OfNumbers(Append(u, x), nos) = Append(u, x)
    <2>1. OfNumbers(Append(u, x), nos) = IF x.no \in nos THEN Append(OfNumbers(u, nos), x) ELSE OfNumbers(u, nos)
      BY OfNumbersOne
    <2> QED
      BY <1>2, <2>1
  <1>3. \A u \in T, x \in P : Append(u, x) \in T
    <2> SUFFICES ASSUME NEW u \in T, NEW x \in P PROVE Append(u, x) \in T
      OBVIOUS
    <2>1. Append(u, x) \in Seq(P)
      BY Appended
    <2> QED
      BY <1>2, <2>1
  <1>4. T \in SUBSET Seq(P)
    OBVIOUS
  <1> HIDE DEF T
  <1>5. T = Seq(P)
    BY <1>1, <1>3, <1>4, SeqInductive
  <1> QED
    BY <1>5 DEF T

LEMMA OfNumbersNone ==
  ASSUME NEW P, NEW s \in Seq(P), NEW nos, \A w \in P : w.no \notin nos
  PROVE  OfNumbers(s, nos) = <<>>
  <1> DEFINE none == {}
  <1>1. \A w \in P : w.no \in nos <=> w.no \in none
    OBVIOUS
  <1> HIDE DEF none
  <1>2. OfNumbers(s, nos) = OfNumbers(s, none)
    BY <1>1, OfNumbersAgree
  <1> DEFINE T == {u \in Seq(P) : OfNumbers(u, none) = <<>>}
  <1>3. <<>> \in T
    <2>1. <<>> \in Seq(P)
      OBVIOUS
    <2> QED
      BY <2>1, OfNumbersNothing
  <1>4. \A u \in T, x \in P : Append(u, x) \in T
    <2> SUFFICES ASSUME NEW u \in T, NEW x \in P PROVE Append(u, x) \in T
      OBVIOUS
    <2>1. Append(u, x) \in Seq(P)
      BY Appended
    <2>2. OfNumbers(Append(u, x), none) = IF x.no \in none THEN Append(OfNumbers(u, none), x) ELSE OfNumbers(u, none)
      BY OfNumbersOne
    <2>3. x.no \notin none
      BY DEF none
    <2> QED
      BY <2>1, <2>2, <2>3
  <1>5. T \in SUBSET Seq(P)
    OBVIOUS
  <1> HIDE DEF T
  <1>6. T = Seq(P)
    BY <1>3, <1>4, <1>5, SeqInductive
  <1> QED
    BY <1>2, <1>6 DEF T

\* All but one of the sequences have none of the numbers.
Elsewhere(ss, i, nos) == \A k \in 1..Len(ss) : k # i => OfNumbers(ss[k], nos) = <<>>

\* If only one of the sequences has any, they are the ones found in all of them.
LEMMA OfNumbersInOne ==
  ASSUME NEW P, NEW ss \in Seq(Seq(P)), NEW nos, NEW i \in 0..Len(ss), Elsewhere(ss, i, nos)
  PROVE  OfNumbers(FlattenSeq(ss), nos) = IF i = 0 THEN <<>> ELSE OfNumbers(ss[i], nos)
  <1> DEFINE Q == Seq(P)
             found(tt, j) == IF j = 0 THEN <<>> ELSE OfNumbers(tt[j], nos)
             T == {tt \in Seq(Q) : \A j \in 0..Len(tt) :
                     Elsewhere(tt, j, nos) => OfNumbers(FlattenSeq(tt), nos) = found(tt, j)}
  <1>1. <<>> \in T
    <2>1. <<>> \in Seq(Q) /\ Len(<<>>) = 0 /\ \A j \in 0..0 : j = 0
      OBVIOUS
    <2>2. OfNumbers(FlattenSeq(<<>>), nos) = <<>>
      BY FlattenNothing, OfNumbersNothing
    <2> QED
      BY <2>1, <2>2
  <1>2. ASSUME NEW tt \in T, NEW x \in Q, NEW j \in 0..Len(Append(tt, x)), Elsewhere(Append(tt, x), j, nos)
        PROVE  OfNumbers(FlattenSeq(Append(tt, x)), nos) = found(Append(tt, x), j)
    <2> DEFINE more == Append(tt, x)
               n == Len(tt)
    <2>0. tt \in Seq(Q)
      OBVIOUS
    <2>1. /\ more \in Seq(Q) /\ Len(more) = n + 1 /\ n \in Nat
          /\ \A k \in 1..(n + 1) : more[k] = IF k = n + 1 THEN x ELSE tt[k]
      BY <2>0, Appended
    <2>2. FlattenSeq(more) = FlattenSeq(tt) \o x /\ FlattenSeq(tt) \in Seq(P)
      BY <2>0, FlattenOne
    <2>3. OfNumbers(FlattenSeq(tt) \o x, nos) = OfNumbers(FlattenSeq(tt), nos) \o OfNumbers(x, nos)
      BY <2>2, OfNumbersJoined
    <2>4. OfNumbers(FlattenSeq(tt), nos) \in Seq(P) /\ OfNumbers(x, nos) \in Seq(P)
      BY <2>2, OfNumbersTyped
    <2> DEFINE a == OfNumbers(FlattenSeq(tt), nos)
               b == OfNumbers(x, nos)
    <2>5. /\ OfNumbers(FlattenSeq(more), nos) = a \o b
          /\ a \in Seq(P) /\ b \in Seq(P)
      BY <2>2, <2>3, <2>4
    <2>6. j \in 0..(n + 1) /\ \A k \in 1..(n + 1) : k # j => OfNumbers(more[k], nos) = <<>>
      BY <1>2, <2>1 DEF Elsewhere
    <2>7. \A m \in 0..n : Elsewhere(tt, m, nos) => a = found(tt, m)
      OBVIOUS
    <2> HIDE DEF more, a, b, n, T, Q
    <2>8. CASE j = n + 1
      <3>1. \A k \in 1..n : k # 0 => OfNumbers(tt[k], nos) = <<>>
        BY <2>1, <2>6, <2>8
      <3>2. Elsewhere(tt, 0, nos) /\ 0 \in 0..n
        BY <2>1, <3>1 DEF Elsewhere, n
      <3>3. a = <<>>
        BY <2>7, <3>2
      <3>4. found(more, j) = b
        BY <2>1, <2>8 DEF b
      <3>5. a \o b = b
        BY <2>5, <3>3
      <3> QED
        BY <2>5, <3>4, <3>5 DEF more
    <2>9. CASE j # n + 1
      <3>1. j \in 0..n
        BY <2>1, <2>6, <2>9
      <3>2. \A k \in 1..n : k # j => OfNumbers(tt[k], nos) = <<>>
        BY <2>1, <2>6
      <3>3. Elsewhere(tt, j, nos)
        BY <3>2 DEF Elsewhere, n
      <3>4. a = found(tt, j)
        BY <2>7, <3>1, <3>3
      <3>5. n + 1 \in 1..(n + 1) /\ more[n + 1] = x
        BY <2>1
      <3>6. b = <<>>
        BY <2>6, <2>9, <3>5 DEF b
      <3>7. a \o b = a
        BY <2>5, <3>6
      <3>8. found(more, j) = found(tt, j)
        BY <2>1, <3>1
      <3> QED
        BY <2>5, <3>4, <3>7, <3>8 DEF more
    <2> QED
      BY <2>8, <2>9
  <1>3. \A tt \in T, x \in Q : Append(tt, x) \in T
    <2> SUFFICES ASSUME NEW tt \in T, NEW x \in Q PROVE Append(tt, x) \in T
      OBVIOUS
    <2>1. Append(tt, x) \in Seq(Q)
      <3>1. tt \in Seq(Q)
        OBVIOUS
      <3> HIDE DEF T, Q
      <3> QED
        BY <3>1, Appended
    <2>2. \A j \in 0..Len(Append(tt, x)) : Elsewhere(Append(tt, x), j, nos)
             => OfNumbers(FlattenSeq(Append(tt, x)), nos) = found(Append(tt, x), j)
      BY <1>2
    <2> QED
      BY <2>1, <2>2
  <1>4. T \in SUBSET Seq(Q)
    OBVIOUS
  <1>5. T = Seq(Q)
    <2> HIDE DEF T, Q
    <2> QED
      BY <1>1, <1>3, <1>4, SeqInductive
  <1>6. ss \in T
    BY <1>5
  <1> QED
    BY <1>6

-----------------------------------------------------------------------------
(* Scalars.                                                                 *)

\* The quotient and the remainder are those of a division.
LEMMA Divides ==
  ASSUME NEW a \in Int, NEW b \in Nat, b > 0
  PROVE  a % b \in 0..(b - 1) /\ a \div b \in Int /\ a = b * (a \div b) + (a % b)
  OBVIOUS

LEMMA Multiples ==
  ASSUME NEW b \in Nat, NEW k \in Int, k >= 1
  PROVE  b * k >= b
  <1>1. b * (k - 1) >= 0
    OBVIOUS
  <1> QED
   BY <1>1

\* There is only one quotient and one remainder.
LEMMA Remainder ==
  ASSUME NEW b \in Nat, b > 0, NEW q \in Int, NEW r \in 0..(b - 1)
  PROVE  (b * q + r) % b = r /\ (b * q + r) \div b = q
  <1> DEFINE a == b * q + r
             p == a \div b
             s == a % b
  <1>1. a \in Int
    OBVIOUS
  <1>2. s \in 0..(b - 1) /\ p \in Int /\ a = b * p + s
    <2> HIDE DEF a
    <2> QED BY <1>1, Divides
  <1> HIDE DEF p, s
  <1>3. b * (q - p) = s - r
    BY <1>2
  <1>4. CASE q - p >= 1
    <2>1. b * (q - p) >= b
      BY <1>2, <1>4, Multiples
    <2> QED BY <1>2, <1>3, <2>1
  <1>5. CASE p - q >= 1
    <2>1. b * (p - q) >= b
      BY <1>2, <1>5, Multiples
    <2>2. b * (p - q) = r - s
      BY <1>2, <1>3
    <2> QED BY <1>2, <2>1, <2>2
  <1>6. CASE p = q
    <2>1. s = r
      BY <1>2, <1>6
    <2> QED
      BY <1>6, <2>1 DEF p, s
  <1> QED
    BY <1>2, <1>4, <1>5, <1>6

\* The widths as multiples of one another.
LEMMA Halves ==
  \E h \in Nat, n \in Nat :
     /\ h >= 1 /\ n >= 1 /\ Half = 2 * h /\ Word = Half * n
     /\ Half \div 2 = h /\ Word \div 2 = h * n /\ Word = 2 * (h * n) /\ h * n >= h
     /\ Half \in Nat /\ Word \in Nat /\ Exact \in Nat /\ Half > 0 /\ Word > Half
  <1>1. PICK h \in 1..Half : Half = 2 * h
    BY CodecAssumption
  <1>2. PICK n \in 1..Word : Word = n * Half
    BY CodecAssumption
  <1>3. h \in Nat /\ n \in Nat /\ h >= 1 /\ n >= 1 /\ h * n \in Nat
    BY CodecAssumption
  <1>4. Word = Half * n /\ Word = 2 * (h * n)
    BY <1>1, <1>2, <1>3
  <1>5. h * n >= h
    <2>1. h * (n - 1) >= 0
      BY <1>3
    <2> QED
      BY <1>3, <2>1
  <1>6. Half \div 2 = h
    BY <1>1, <1>3
  <1>7. Word \div 2 = h * n
    <2> DEFINE p == h * n
    <2>1. p \in Nat /\ Word = 2 * p
      BY <1>3, <1>4
    <2> HIDE DEF p
    <2> QED
      BY <2>1 DEF p
  <1> QED
    BY CodecAssumption, <1>1, <1>3, <1>4, <1>5, <1>6, <1>7

\* A number of some width as a signed one differs by a multiple of the width.
Signs(v, width, h, x) == x \in (-h)..(h - 1) /\ \E q \in Int : v = width * q + x

\* asSigned32 and asSigned64 (message-codec.ts:440).
LEMMA SignedFacts ==
  ASSUME NEW v \in Int, NEW width \in Nat, NEW h \in Nat, h >= 1, width = 2 * h, width \div 2 = h
  PROVE  Signs(v, width, h, AsSigned(v, width))
  <1> SUFFICES /\ AsSigned(v, width) \in (-h)..(h - 1)
               /\ \E q \in Int : v = width * q + AsSigned(v, width)
    BY DEF Signs
  <1> DEFINE m == v % width
             p == v \div width
  <1>0. width > 0
    OBVIOUS
  <1>1. m \in 0..(width - 1) /\ p \in Int /\ v = width * p + m
    BY <1>0, Divides
  <1>2. AsSigned(v, width) = IF m >= h THEN m - width ELSE m
    BY DEF AsSigned
  <1> HIDE DEF m, p
  <1>3. CASE m >= h
    <2>1. AsSigned(v, width) = m - width
      BY <1>2, <1>3
    <2>2. v = width * (p + 1) + (m - width) /\ p + 1 \in Int
      BY <1>1
    <2>3. m - width \in (-h)..(h - 1)
      BY <1>1, <1>3
    <2> DEFINE s == AsSigned(v, width)
               j == p + 1
    <2>4. v = width * j + s /\ j \in Int
      BY <2>1, <2>2
    <2> HIDE DEF s, j
    <2>5. \E q \in Int : v = width * q + s
      BY <2>4, Zenon
    <2> QED
      BY <2>1, <2>3, <2>5 DEF s
  <1>4. CASE ~(m >= h)
    <2>1. AsSigned(v, width) = m
      BY <1>2, <1>4
    <2>2. m \in (-h)..(h - 1)
      BY <1>1, <1>4
    <2> DEFINE s == AsSigned(v, width)
    <2>3. v = width * p + s
      BY <1>1, <2>1
    <2> HIDE DEF s
    <2>4. \E q \in Int : v = width * q + s
      BY <1>1, <2>3, Zenon
    <2> QED
      BY <2>1, <2>2, <2>4 DEF s
  <1> QED
    BY <1>3, <1>4

\* What is left of a signed number is what is left of the number it was.
LEMMA SignedKept ==
  ASSUME NEW v \in 0..(Word - 1)
  PROVE  TwosComplement(AsSigned(v, Half)) % Half = v % Half
  <1>1. PICK h \in Nat, n \in Nat :
     /\ h >= 1 /\ n >= 1 /\ Half = 2 * h /\ Word = Half * n
     /\ Half \div 2 = h /\ Half \in Nat /\ Word \in Nat /\ Half > 0
    BY Halves
  <1> DEFINE x == AsSigned(v, Half)
  <1>2. Signs(v, Half, h, x)
    BY <1>1, SignedFacts
  <1> HIDE DEF x
  <1>3. (\E q \in Int : v = Half * q + x) /\ x \in (-h)..(h - 1)
    BY <1>2 DEF Signs
  <1>4. PICK q \in Int : v = Half * q + x
    BY <1>3
  <1>5. x \in (-h)..(h - 1)
    BY <1>3
  <1> DEFINE r == v % Half
             p == v \div Half
  <1>6. r \in 0..(Half - 1) /\ p \in Int /\ v = Half * p + r
    BY <1>1, Divides
  <1> HIDE DEF r, p
  <1>7. x = Half * (p - q) + r
    BY <1>1, <1>4, <1>5, <1>6
  <1>8. \E k \in Int : TwosComplement(x) = Half * k + r
    <2>1. CASE x < 0
      <3> DEFINE k == p - q + n
      <3>1. x + Word = Half * k + r /\ k \in Int
        BY <1>1, <1>5, <1>6, <1>7
      <3>2. TwosComplement(x) = x + Word
        BY <2>1 DEF TwosComplement
      <3> HIDE DEF k
      <3> QED
        BY <3>1, <3>2, Zenon
    <2>2. CASE ~(x < 0)
      <3> DEFINE k == p - q
      <3>1. x = Half * k + r /\ k \in Int
        BY <1>6, <1>7
      <3>2. TwosComplement(x) = x
        BY <2>2 DEF TwosComplement
      <3> HIDE DEF k
      <3> QED
        BY <3>1, <3>2, Zenon
    <2> QED
      BY <2>1, <2>2
  <1>9. PICK k \in Int : TwosComplement(x) = Half * k + r
    BY <1>8
  <1>10. (Half * k + r) % Half = r
    BY <1>1, <1>6, Remainder
  <1> QED
    BY <1>9, <1>10 DEF x, r

\* A signed number of the full width is written as it was read.
LEMMA WideKept ==
  ASSUME NEW v \in 0..(Word - 1)
  PROVE  TwosComplement(AsSigned(v, Word)) = v
  <1>1. PICK h \in Nat, n \in Nat : Word \in Nat /\ Word = 2 * (h * n) /\ Word \div 2 = h * n /\ h >= 1 /\ h * n >= h
    BY Halves
  <1> DEFINE half == h * n
  <1>2. half \in Nat /\ Word = 2 * half /\ Word \div 2 = half /\ half >= 1 /\ Word \in Nat
    BY <1>1
  <1> HIDE DEF half
  <1>3. v = Word * 0 + v /\ 0 \in Int /\ v \in Int /\ Word > 0
    BY <1>2
  <1>4. v % Word = v
    BY <1>2, <1>3, Remainder
  <1> QED
    BY <1>2, <1>4 DEF AsSigned, TwosComplement

\* A zig-zag number of the low half is written as it was read.
LEMMA ZigZagKept ==
  ASSUME NEW v \in 0..(Half - 1)
  PROVE  ZigZagEncode(AsSigned(ZigZagDecode(v), Half)) = v
  <1>1. PICK h \in Nat : h >= 1 /\ Half = 2 * h /\ Half \div 2 = h /\ Half \in Nat /\ Half > 0
    BY Halves
  <1>2. CASE v % 2 = 0
    <2> DEFINE q == v \div 2
    <2>1. q \in 0..(h - 1) /\ v = 2 * q
      BY <1>1, <1>2
    <2> HIDE DEF q
    <2>2. ZigZagDecode(v) = q
      BY <1>2 DEF ZigZagDecode, q
    <2>3. Half * 0 + q = q /\ 0 \in Int /\ q \in 0..(Half - 1)
      BY <1>1, <2>1
    <2>4. q % Half = q
      BY <1>1, <2>3, Remainder
    <2>5. AsSigned(q, Half) = q
      BY <1>1, <2>1, <2>4 DEF AsSigned
    <2> QED
      BY <2>1, <2>2, <2>5 DEF ZigZagEncode
  <1>3. CASE v % 2 # 0
    <2> DEFINE q == (v + 1) \div 2
    <2>1. q \in 1..h /\ v = 2 * q - 1
      BY <1>1, <1>3
    <2> HIDE DEF q
    <2>2. ZigZagDecode(v) = -q
      BY <1>3 DEF ZigZagDecode, q
    <2>3. Half * (-1) + (Half - q) = -q /\ -1 \in Int /\ Half - q \in 0..(Half - 1)
      BY <1>1, <2>1
    <2>4. (-q) % Half = Half - q
      <3>1. (Half * (-1) + (Half - q)) % Half = Half - q
        BY <1>1, <2>3, Remainder
      <3> QED
        BY <2>3, <3>1
    <2>5. AsSigned(-q, Half) = -q
      BY <1>1, <2>1, <2>4 DEF AsSigned
    <2> QED
      BY <2>1, <2>2, <2>5 DEF ZigZagEncode
  <1> QED
    BY <1>2, <1>3

\* A scalar in the wire form of its type.
FormOf(type) == IF type = "string" THEN "text" ELSE "number"
WireScalar(type, x) == [form |-> FormOf(type), holds |-> EncodeScalar(type, x)]

\* A scalar of any type, decoded and encoded, has the meaning it had: all but an
\* enum beyond what a JavaScript number holds, and a text that is not read as it is.
LEMMA ScalarKept ==
  ASSUME NEW type \in ScalarTypes, NEW w, w.form = FormOf(type),
         type # "string" => ProperScalar(type, w.holds), type = "enum" => w.holds <= Exact,
         type = "string" => DecodeText(w.holds) = w.holds
  PROVE  ScalarMeaning(type, WireScalar(type, DecodeScalar(type, w.holds))) = ScalarMeaning(type, w)
  <1> DEFINE v == w.holds
             x == DecodeScalar(type, v)
  <1>0. /\ WireScalar(type, x).form = FormOf(type) /\ WireScalar(type, x).holds = EncodeScalar(type, x)
        /\ Half \in Nat /\ Word \in Nat /\ Half > 0 /\ Word > Half
    BY Halves DEF WireScalar
  <1>1. CASE type = "string"
    <2>1. x = v /\ EncodeScalar(type, x) = x
      BY <1>1 DEF DecodeScalar, EncodeScalar
    <2> QED
      BY <1>0, <1>1, <2>1 DEF ScalarMeaning
  <1>2. CASE type = "uint64"
    <2>1. x = v /\ EncodeScalar(type, x) = x
      BY <1>2 DEF DecodeScalar, EncodeScalar
    <2> QED
      BY <1>0, <1>2, <2>1 DEF ScalarMeaning
  <1>3. CASE type = "bool"
    <2>1. EncodeScalar(type, x) = IF v # 0 THEN 1 ELSE 0
      BY <1>3 DEF DecodeScalar, EncodeScalar
    <2>2. (EncodeScalar(type, x) # 0) <=> (v # 0)
      <3>1. CASE v = 0
        BY <2>1, <3>1
      <3>2. CASE v # 0
        BY <2>1, <3>2
      <3> QED
        BY <3>1, <3>2
    <2>3. /\ ScalarMeaning(type, WireScalar(type, x)) = (EncodeScalar(type, x) # 0)
          /\ ScalarMeaning(type, w) = (v # 0)
      BY <1>0, <1>3 DEF ScalarMeaning
    <2> QED
      BY <2>2, <2>3
  <1>4. CASE type = "int64"
    <2>1. x = AsSigned(v, Word) /\ EncodeScalar(type, x) = TwosComplement(x)
      BY <1>4 DEF DecodeScalar, EncodeScalar
    <2>2. v \in 0..(Word - 1)
      BY <1>4 DEF ProperScalar
    <2>3. EncodeScalar(type, x) = v
      BY <2>1, <2>2, WideKept
    <2> QED
      BY <1>0, <1>4, <2>3 DEF ScalarMeaning
  <1>5. CASE type = "int32"
    <2>1. x = AsSigned(v, Half) /\ EncodeScalar(type, x) = TwosComplement(x)
      BY <1>5 DEF DecodeScalar, EncodeScalar
    <2>2. v \in 0..(Word - 1)
      BY <1>5 DEF ProperScalar
    <2>3. EncodeScalar(type, x) % Half = v % Half
      BY <2>1, <2>2, SignedKept
    <2> QED
      BY <1>0, <1>5, <2>3 DEF ScalarMeaning, FormOf
  <1>6. CASE type = "sint32"
    <2>1. x = AsSigned(ZigZagDecode(v), Half) /\ EncodeScalar(type, x) = ZigZagEncode(x)
      BY <1>6 DEF DecodeScalar, EncodeScalar
    <2>2. v \in 0..(Half - 1)
      BY <1>6 DEF ProperScalar
    <2>3. EncodeScalar(type, x) = v
      BY <2>1, <2>2, ZigZagKept
    <2> QED
      BY <1>0, <1>6, <2>3 DEF ScalarMeaning, FormOf
  <1>7. CASE type = "enum"
    <2>1. x = AsNumber(v) /\ EncodeScalar(type, x) = TwosComplement(x)
      BY <1>7 DEF DecodeScalar, EncodeScalar
    <2>2. v \in 0..(Word - 1) /\ v <= Exact
      BY <1>7 DEF ProperScalar
    <2>3. EncodeScalar(type, x) = v
      BY <1>0, <2>1, <2>2 DEF AsNumber, TwosComplement
    <2> QED
      BY <1>0, <1>7, <2>3 DEF ScalarMeaning, FormOf
  <1> QED
    BY <1>1, <1>2, <1>3, <1>4, <1>5, <1>6, <1>7 DEF ScalarTypes

\* The same for an element of a packed field, whose enums are read as int32.
LEMMA PackedKept ==
  ASSUME NEW d, d.type \in ScalarTypes, NEW v, ProperScalar(d.type, v), NEW no
  PROVE  /\ d.type # "string"
         /\ ScalarMeaning(d.type, WireScalar(d.type, DecodeScalar(Unpacked(d), v)))
              = ScalarMeaning(d.type, Number(no, v))
  <1> DEFINE w == Number(no, v)
  <1>0. w.form = "number" /\ w.holds = v /\ d.type # "string"
    BY DEF Number, ProperScalar
  <1>1. CASE d.type = "enum"
    <2> DEFINE x == DecodeScalar("int32", v)
    <2>1. x = AsSigned(v, Half) /\ EncodeScalar("enum", x) = TwosComplement(x) /\ Unpacked(d) = "int32"
      BY <1>1 DEF DecodeScalar, EncodeScalar, Unpacked
    <2>2. v \in 0..(Word - 1)
      BY <1>1 DEF ProperScalar
    <2>3. EncodeScalar("enum", x) % Half = v % Half
      BY <2>1, <2>2, SignedKept
    <2>4. WireScalar("enum", x).form = "number" /\ WireScalar("enum", x).holds = EncodeScalar("enum", x)
      BY DEF WireScalar, FormOf
    <2> QED
      BY <1>0, <1>1, <2>1, <2>3, <2>4 DEF ScalarMeaning
  <1>2. CASE d.type # "enum"
    <2>1. Unpacked(d) = d.type /\ w.form = FormOf(d.type)
      BY <1>0, <1>2 DEF Unpacked, FormOf
    <2> HIDE DEF w
    <2>2. ScalarMeaning(d.type, WireScalar(d.type, DecodeScalar(d.type, w.holds))) = ScalarMeaning(d.type, w)
      BY <1>0, <1>2, <2>1, ScalarKept
    <2> QED
      BY <1>0, <2>1, <2>2 DEF w
  <1> QED
    BY <1>0, <1>1, <1>2
-----------------------------------------------------------------------------
(* Decoding, a wire field at a time.                                        *)

\* The message after each of the first m wire fields.
Takes(g, type, wires, m) ==
  g = [k \in 0..m |-> IF k = 0 THEN Empty ELSE TakeField(type, g[k - 1], wires[k])]

\* Such messages exist.
LEMMA TakesOn ==
  ASSUME NEW type, NEW wires, NEW m \in Nat
  PROVE  \E g : Takes(g, type, wires, m)
  <1> DEFINE S == {n \in Nat : \E g : Takes(g, type, wires, n)}
             step(g, k) == IF k = 0 THEN Empty ELSE TakeField(type, g[k - 1], wires[k])
  <1>1. 0 \in S
    <2> DEFINE g == [k \in 0..0 |-> Empty]
    <2>1. g = [k \in 0..0 |-> step(g, k)]
      OBVIOUS
    <2>2. Takes(g, type, wires, 0)
      BY <2>1, Zenon DEF Takes
    <2> QED
      BY <2>2
  <1>2. ASSUME NEW n \in Nat, NEW g, Takes(g, type, wires, n)
        PROVE  \E more : Takes(more, type, wires, n + 1)
    <2> DEFINE more == [k \in 0..(n + 1) |-> step(g, k)]
    <2>1. g = [k \in 0..n |-> step(g, k)]
      BY <1>2 DEF Takes
    <2>2. \A k \in 0..n : g[k] = step(g, k) /\ more[k] = step(g, k)
      <3> HIDE DEF step
      <3>1. \A k \in 0..n : k \in 0..(n + 1)
        OBVIOUS
      <3>2. \A k \in 0..(n + 1) : more[k] = step(g, k)
        OBVIOUS
      <3>3. \A f : f = [k \in 0..n |-> step(g, k)] => \A k \in 0..n : f[k] = step(g, k)
        OBVIOUS
      <3> QED
        BY <2>1, <3>1, <3>2, <3>3, Zenon
    <2>3. ASSUME NEW k \in 0..(n + 1) PROVE step(g, k) = step(more, k)
      <3>1. CASE k = 0
        BY <3>1
      <3>2. CASE k # 0
        <4>1. k - 1 \in 0..n
          BY <3>2
        <4>2. g[k - 1] = more[k - 1]
          <5> HIDE DEF step, more
          <5> QED
            BY <2>2, <4>1
        <4> HIDE DEF more
        <4> QED
          BY <3>2, <4>2
      <3> QED
        BY <3>1, <3>2
    <2>6. more = [k \in 0..(n + 1) |-> step(g, k)]
      OBVIOUS
    <2> HIDE DEF step, more
    <2>4. more = [k \in 0..(n + 1) |-> step(more, k)]
      <3> DEFINE old(k) == step(g, k)
                 new(k) == step(more, k)
      <3>1. \A k \in 0..(n + 1) : old(k) = new(k)
        BY <2>3
      <3>2. more = [k \in 0..(n + 1) |-> old(k)]
        BY <2>6
      <3> HIDE DEF old, new
      <3>3. more = [k \in 0..(n + 1) |-> new(k)]
        BY <3>1, <3>2
      <3> QED
        BY <3>3 DEF new
    <2>5. Takes(more, type, wires, n + 1)
      BY <2>4 DEF Takes, step
    <2> QED
      BY <2>5
  <1>3. \A n \in S : n + 1 \in S
    BY <1>2
  <1> HIDE DEF S, step
  <1>4. S = Nat
    <2>1. S \in SUBSET Nat
      BY DEF S
    <2> QED
      BY <1>1, <1>3, <2>1, Inductive
  <1> QED
    BY <1>4 DEF S

\* DecodeMessage, step by step.
TakesEach(g, type, wires, m) ==
  g[0] = Empty /\ \A k \in 1..m : g[k] = TakeField(type, g[k - 1], wires[k])

LEMMA TakesSteps ==
  ASSUME NEW g, NEW type, NEW wires, NEW m \in Nat, Takes(g, type, wires, m)
  PROVE  TakesEach(g, type, wires, m)
  <1> DEFINE step(k) == IF k = 0 THEN Empty ELSE TakeField(type, g[k - 1], wires[k])
  <1>1. g = [k \in 0..m |-> step(k)]
    BY DEF Takes
  <1> HIDE DEF step
  <1>2. \A f : f = [k \in 0..m |-> step(k)] => \A k \in 0..m : f[k] = step(k)
    OBVIOUS
  <1>3. \A k \in 0..m : g[k] = step(k)
    BY <1>1, <1>2, Zenon
  <1>4. 0 \in 0..m /\ \A k \in 1..m : k \in 0..m /\ k # 0
    OBVIOUS
  <1>5. g[0] = step(0) /\ \A k \in 1..m : g[k] = step(k)
    BY <1>3, <1>4
  <1> QED
    BY <1>4, <1>5 DEF step, TakesEach

\* DecodeMessage is the last of them.
LEMMA DecodeUnfolds ==
  ASSUME NEW type, NEW wires, Len(wires) \in Nat
  PROVE  \E g : TakesEach(g, type, wires, Len(wires)) /\ DecodeMessage(type, wires) = g[Len(wires)]
  <1> DEFINE n == Len(wires)
             after == CHOOSE g : g = [k \in 0..n |-> IF k = 0 THEN Empty ELSE TakeField(type, g[k - 1], wires[k])]
  <1>1. \E g : Takes(g, type, wires, n)
    <2> HIDE DEF n
    <2>1. n \in Nat
      BY DEF n
    <2> QED
      BY <2>1, TakesOn
  <1>2. Takes(after, type, wires, n)
    BY <1>1 DEF Takes
  <1>3. DecodeMessage(type, wires) = after[n]
    BY DEF DecodeMessage
  <1> HIDE DEF after
  <1>4. TakesEach(after, type, wires, n)
    BY <1>2, TakesSteps
  <1> QED
    BY <1>3, <1>4

LEMMA DecodeNothing ==
  ASSUME NEW type
  PROVE  DecodeMessage(type, <<>>) = Empty
  <1> DEFINE none == <<>>
  <1>1. Len(none) = 0 /\ Len(none) \in Nat
    OBVIOUS
  <1> HIDE DEF none
  <1>2. PICK g : TakesEach(g, type, none, Len(none)) /\ DecodeMessage(type, none) = g[Len(none)]
    BY <1>1, DecodeUnfolds
  <1> QED
    BY <1>1, <1>2 DEF TakesEach, none

\* A wire field more is taken into what the ones before gave.
LEMMA DecodeOne ==
  ASSUME NEW P, NEW s \in Seq(P), NEW x \in P, NEW type
  PROVE  DecodeMessage(type, Append(s, x)) = TakeField(type, DecodeMessage(type, s), x)
  <1> DEFINE n == Len(s)
             more == Append(s, x)
  <1>1. /\ more \in Seq(P) /\ Len(more) = n + 1 /\ n \in Nat
        /\ \A i \in 1..(n + 1) : more[i] = IF i = n + 1 THEN x ELSE s[i]
    BY Appended
  <1> HIDE DEF more
  <1>2. Len(more) \in Nat
    BY <1>1
  <1>3. PICK g : TakesEach(g, type, s, n) /\ DecodeMessage(type, s) = g[n]
    BY <1>1, DecodeUnfolds
  <1>4. PICK h : TakesEach(h, type, more, Len(more)) /\ DecodeMessage(type, more) = h[Len(more)]
    BY <1>2, DecodeUnfolds
  <1> HIDE DEF n
  <1>5. g[0] = Empty /\ \A k \in 1..n : g[k] = TakeField(type, g[k - 1], s[k])
    BY <1>3 DEF TakesEach
  <1>6. h[0] = Empty /\ \A k \in 1..(n + 1) : h[k] = TakeField(type, h[k - 1], more[k])
    BY <1>1, <1>4 DEF TakesEach
  <1>7. \A k \in 0..n : h[k] = g[k]
    <2>1. \A k \in 1..n : k \in 1..(n + 1) /\ more[k] = s[k]
      BY <1>1
    <2>2. \A k \in 1..n : h[k - 1] = g[k - 1] => h[k] = g[k]
      BY <1>5, <1>6, <2>1
    <2>3. AgreeOnward(h, g, n)
      BY <1>5, <1>6, <2>2 DEF AgreeOnward
    <2> QED
      BY <1>1, <2>3, Agreement
  <1>8. n + 1 \in 1..(n + 1) /\ n + 1 - 1 = n /\ n \in 0..n /\ more[n + 1] = x
    BY <1>1
  <1>9. h[n + 1] = TakeField(type, h[n], x)
    BY <1>6, <1>8
  <1> QED
    BY <1>1, <1>3, <1>4, <1>7, <1>8, <1>9 DEF more
-----------------------------------------------------------------------------
(* What an object means, as it would be written.                            *)

IsSeq(s) == s \in Seq(ToSet(s))

\* A sequence is one over its own elements.
LEMMA SeqIsSeq ==
  ASSUME NEW Q, NEW s \in Seq(Q)
  PROVE  IsSeq(s) /\ ToSet(s) \subseteq Q /\ (\A k \in 1..Len(s) : s[k] \in ToSet(s)) /\ DOMAIN s = 1..Len(s)
  <1>1. s = [k \in 1..Len(s) |-> s[k]] /\ Len(s) \in Nat /\ DOMAIN s = 1..Len(s) /\ \A k \in 1..Len(s) : s[k] \in Q
    OBVIOUS
  <1>2. \A k \in 1..Len(s) : s[k] \in ToSet(s)
    BY <1>1 DEF ToSet
  <1>3. s \in Seq(ToSet(s))
    BY <1>1, <1>2
  <1>4. ToSet(s) \subseteq Q
    BY <1>1 DEF ToSet
  <1> QED
    BY <1>1, <1>2, <1>3, <1>4 DEF IsSeq

\* A function over 1..n is a sequence.
LEMMA MadeIsSeq ==
  ASSUME NEW n \in Nat, NEW f, f = [k \in 1..n |-> f[k]]
  PROVE  IsSeq(f) /\ Len(f) = n
  <1> DEFINE Q == {f[k] : k \in 1..n}
  <1>1. \A k \in 1..n : f[k] \in Q
    OBVIOUS
  <1> HIDE DEF Q
  <1>2. f \in Seq(Q) /\ Len(f) = n
    BY <1>1
  <1> QED
    BY <1>2, SeqIsSeq

LEMMA SeqWidened ==
  ASSUME NEW Q, NEW S \in SUBSET Q, NEW s \in Seq(S)
  PROVE  s \in Seq(Q)
  <1>1. Len(s) \in Nat /\ s = [k \in 1..Len(s) |-> s[k]] /\ \A k \in 1..Len(s) : s[k] \in S
    OBVIOUS
  <1>2. \A k \in 1..Len(s) : s[k] \in Q
    BY <1>1
  <1> QED
    BY <1>1, <1>2

LEMMA JoinedIsSeq ==
  ASSUME NEW a, NEW b, IsSeq(a), IsSeq(b)
  PROVE  /\ IsSeq(a \o b) /\ Len(a \o b) = Len(a) + Len(b) /\ Len(a) \in Nat /\ Len(b) \in Nat
         /\ \A k \in 1..(Len(a) + Len(b)) : (a \o b)[k] = IF k <= Len(a) THEN a[k] ELSE b[k - Len(a)]
  <1> DEFINE Q == ToSet(a) \cup ToSet(b)
  <1>1. a \in Seq(Q) /\ b \in Seq(Q)
    <2>2. ToSet(a) \in SUBSET Q /\ ToSet(b) \in SUBSET Q /\ a \in Seq(ToSet(a)) /\ b \in Seq(ToSet(b))
      BY DEF IsSeq
    <2> HIDE DEF Q
    <2> QED
      BY <2>2, SeqWidened
  <1> HIDE DEF Q
  <1> DEFINE c == a \o b
  <1>2. /\ c \in Seq(Q) /\ Len(c) = Len(a) + Len(b) /\ Len(a) \in Nat /\ Len(b) \in Nat
        /\ \A k \in 1..(Len(a) + Len(b)) : c[k] = IF k <= Len(a) THEN a[k] ELSE b[k - Len(a)]
    BY <1>1, Concatenated
  <1> HIDE DEF c
  <1>3. IsSeq(c)
    BY <1>2, SeqIsSeq
  <1> QED
    BY <1>2, <1>3 DEF c

\* What an object says in a field, once it is written.
MeaningOf(d, x) ==
  IF d.kind = "message"
  THEN IF d.type \in DOMAIN Schema THEN InnerMeaning(d.type, EncodeInner(d.type, x)) ELSE x.unknown
  ELSE ScalarMeaning(d.type, WireScalar(d.type, x))

\* A nested message that comes out as it went in.
Restores(type, wires) ==
  InnerMeaning(type, EncodeInner(type, DecodeInner(type, wires))) = InnerMeaning(type, wires)

\* A single value the codec keeps.
OneFine(d, w) ==
  /\ ProperOne(d, w)
  /\ d.kind = "message" => (d.type \in DOMAIN Schema => Restores(d.type, w.holds))
  /\ d.kind # "message" => /\ d.type \in ScalarTypes
                           /\ d.type = "enum" => w.holds <= Exact
                           /\ d.type = "string" => DecodeText(w.holds) = w.holds

\* A single value is decoded to an object that says what the wire field says.
LEMMA SingleKept ==
  ASSUME NEW d, NEW w, OneFine(d, w)
  PROVE  MeaningOf(d, DecodeSingle(d, w)) = OneMeaning(d, w)
  <1>1. CASE d.kind = "message" /\ d.type \in DOMAIN Schema
    BY <1>1 DEF MeaningOf, DecodeSingle, OneMeaning, OneFine, Restores
  <1>2. CASE d.kind = "message" /\ d.type \notin DOMAIN Schema
    <2>1. DecodeSingle(d, w) = [fields |-> <<>>, unknown |-> w.holds]
      BY <1>2 DEF DecodeSingle, Empty
    <2> QED
      BY <1>2, <2>1 DEF MeaningOf, OneMeaning
  <1>3. CASE d.kind # "message"
    <2>1. /\ d.type \in ScalarTypes /\ w.form = FormOf(d.type)
          /\ d.type # "string" => ProperScalar(d.type, w.holds)
          /\ d.type = "enum" => w.holds <= Exact
          /\ d.type = "string" => DecodeText(w.holds) = w.holds
      BY <1>3 DEF OneFine, ProperOne, FormOf
    <2>2. ScalarMeaning(d.type, WireScalar(d.type, DecodeScalar(d.type, w.holds))) = ScalarMeaning(d.type, w)
      BY <2>1, ScalarKept
    <2> QED
      BY <1>3, <2>2 DEF MeaningOf, DecodeSingle, OneMeaning
  <1> QED
    BY <1>1, <1>2, <1>3

\* What is written for a single value is read as the value's meaning.
LEMMA ScalarWritten ==
  ASSUME NEW d, d.kind # "message", d.type \in ScalarTypes, NEW x, NEW no
  PROVE  /\ OneMeaning(d, WriteScalar(no, d.type, x)) = MeaningOf(d, x)
         /\ WriteScalar(no, d.type, x).no = no /\ WriteScalar(no, d.type, x).form # "packed"
  <1> DEFINE w == WriteScalar(no, d.type, x)
  <1>1. w.form = FormOf(d.type) /\ w.holds = EncodeScalar(d.type, x) /\ w.no = no
    BY DEF WriteScalar, FormOf, Text, Number
  <1>2. WireScalar(d.type, x).form = FormOf(d.type) /\ WireScalar(d.type, x).holds = EncodeScalar(d.type, x)
    BY DEF WireScalar
  <1> HIDE DEF w
  <1>3. ScalarMeaning(d.type, w) = ScalarMeaning(d.type, WireScalar(d.type, x))
    BY <1>1, <1>2 DEF ScalarMeaning
  <1>4. w.form # "packed"
    BY <1>1 DEF FormOf
  <1>5. OneMeaning(d, w) = MeaningOf(d, x)
    BY <1>3 DEF OneMeaning, MeaningOf
  <1> QED
    BY <1>1, <1>4, <1>5 DEF w

\* A nested message is written as one that says what the object says.
LEMMA NestedWritten ==
  ASSUME NEW d, d.kind = "message", NEW x, NEW no
  PROVE  /\ OneMeaning(d, EncodeNested(d, no, x)) = MeaningOf(d, x)
         /\ EncodeNested(d, no, x).no = no /\ EncodeNested(d, no, x).form = "fields"
  <1> DEFINE w == EncodeNested(d, no, x)
  <1>1. /\ w.no = no /\ w.form = "fields"
        /\ w.holds = IF d.type \in DOMAIN Schema THEN EncodeInner(d.type, x) ELSE x.unknown
    BY DEF EncodeNested, Nested
  <1> HIDE DEF w
  <1>2. OneMeaning(d, w) = MeaningOf(d, x)
    BY <1>1 DEF OneMeaning, MeaningOf
  <1> QED
    BY <1>1, <1>2 DEF w
-----------------------------------------------------------------------------
(* Fields of many wire fields.                                              *)

\* What a wire field adds to a list, on the wire and in the object.
PartOf(d, w) ==
  IF w.form = "packed"
  THEN [j \in 1..Len(w.holds) |-> ScalarMeaning(d.type, Number(d.no, w.holds[j]))]
  ELSE <<OneMeaning(d, w)>>
GotOf(d, w) ==
  IF w.form = "packed"
  THEN [k \in 1..Len(w.holds) |-> DecodeScalar(Unpacked(d), w.holds[k])]
  ELSE <<DecodeSingle(d, w)>>

ListFine(d, w) ==
  IF w.form = "packed"
  THEN /\ d.kind = "scalar" /\ d.type \in ScalarTypes /\ Len(w.holds) \in Nat
       /\ \A k \in 1..Len(w.holds) : ProperScalar(d.type, w.holds[k])
  ELSE OneFine(d, w)

LEMMA Single ==
  ASSUME NEW x
  PROVE  IsSeq(<<x>>) /\ Len(<<x>>) = 1 /\ <<x>>[1] = x
  <1>1. <<x>> \in Seq({x})
    OBVIOUS
  <1>2. IsSeq(<<x>>)
    BY <1>1, SeqIsSeq
  <1> QED
    BY <1>2

\* The elements a wire field brings to a list say what the field says.
LEMMA PartKept ==
  ASSUME NEW d, NEW w, ListFine(d, w)
  PROVE  /\ IsSeq(PartOf(d, w)) /\ IsSeq(GotOf(d, w)) /\ Len(GotOf(d, w)) = Len(PartOf(d, w))
         /\ \A k \in 1..Len(PartOf(d, w)) : MeaningOf(d, GotOf(d, w)[k]) = PartOf(d, w)[k]
  <1>1. CASE w.form = "packed"
    <2> DEFINE n == Len(w.holds)
               part(k) == ScalarMeaning(d.type, Number(d.no, w.holds[k]))
               got(k) == DecodeScalar(Unpacked(d), w.holds[k])
               parts == [k \in 1..n |-> part(k)]
               gots == [k \in 1..n |-> got(k)]
    <2>1. PartOf(d, w) = parts /\ GotOf(d, w) = gots /\ n \in Nat
      BY <1>1 DEF PartOf, GotOf, ListFine
    <2>2. ASSUME NEW k \in 1..n PROVE MeaningOf(d, got(k)) = part(k)
      <3> DEFINE v == w.holds[k]
                 no == d.no
      <3>1. ProperScalar(d.type, v) /\ d.kind = "scalar" /\ d.type \in ScalarTypes
        BY <1>1 DEF ListFine
      <3> HIDE DEF v, no
      <3>2. ScalarMeaning(d.type, WireScalar(d.type, DecodeScalar(Unpacked(d), v)))
              = ScalarMeaning(d.type, Number(no, v))
        BY <3>1, PackedKept
      <3> QED
        BY <3>1, <3>2 DEF MeaningOf, v, no
    <2> HIDE DEF n, part, got
    <2>3. parts = [k \in 1..n |-> parts[k]] /\ gots = [k \in 1..n |-> gots[k]]
      OBVIOUS
    <2>4. \A k \in 1..n : parts[k] = part(k) /\ gots[k] = got(k)
      OBVIOUS
    <2> HIDE DEF parts, gots
    <2>5. IsSeq(parts) /\ Len(parts) = n /\ IsSeq(gots) /\ Len(gots) = n
      BY <2>1, <2>3, MadeIsSeq
    <2> QED
      BY <2>1, <2>2, <2>4, <2>5
  <1>2. CASE w.form # "packed"
    <2> DEFINE x == DecodeSingle(d, w)
               y == OneMeaning(d, w)
    <2>1. OneFine(d, w) /\ PartOf(d, w) = <<y>> /\ GotOf(d, w) = <<x>>
      BY <1>2 DEF ListFine, PartOf, GotOf
    <2>2. MeaningOf(d, x) = y
      BY <2>1, SingleKept
    <2> HIDE DEF x, y
    <2>3. /\ IsSeq(<<x>>) /\ Len(<<x>>) = 1 /\ <<x>>[1] = x
          /\ IsSeq(<<y>>) /\ Len(<<y>>) = 1 /\ <<y>>[1] = y
      BY Single
    <2> QED
      BY <2>1, <2>2, <2>3
  <1> QED
    BY <1>1, <1>2

LEMMA ListMeaningNothing ==
  ASSUME NEW d
  PROVE  ListMeaning(d, <<>>) = <<>>
  <1> DEFINE none == <<>>
             parts == [k \in 1..Len(none) |-> PartOf(d, none[k])]
  <1>1. ListMeaning(d, none) = FlattenSeq(parts)
    BY DEF ListMeaning, PartOf
  <1>2. parts = <<>>
    OBVIOUS
  <1> QED
    BY <1>1, <1>2, FlattenNothing

\* What a list says, one wire field more.
LEMMA ListMeaningOne ==
  ASSUME NEW d, NEW P, \A w \in P : IsSeq(PartOf(d, w)), NEW s \in Seq(P), NEW x \in P
  PROVE  ListMeaning(d, Append(s, x)) = ListMeaning(d, s) \o PartOf(d, x) /\ IsSeq(ListMeaning(d, s))
  <1> DEFINE V == UNION {ToSet(PartOf(d, w)) : w \in P}
             part(w) == PartOf(d, w)
             parts(t) == [k \in 1..Len(t) |-> part(t[k])]
             more == Append(s, x)
  <1>1. \A w \in P : part(w) \in Seq(V)
    <2> SUFFICES ASSUME NEW w \in P PROVE part(w) \in Seq(V)
      OBVIOUS
    <2>1. part(w) \in Seq(ToSet(part(w))) /\ ToSet(part(w)) \in SUBSET V
      BY DEF IsSeq
    <2> HIDE DEF V, part
    <2> QED
      BY <2>1, SeqWidened
  <1>2. /\ more \in Seq(P) /\ Len(more) = Len(s) + 1 /\ Len(s) \in Nat
        /\ \A i \in 1..(Len(s) + 1) : more[i] = IF i = Len(s) + 1 THEN x ELSE s[i]
    BY Appended
  <1>3. \A t : ListMeaning(d, t) = FlattenSeq(parts(t))
    BY DEF ListMeaning, PartOf
  <1> HIDE DEF V, more
  <1>4. \A t \in Seq(P) : parts(t) \in Seq(Seq(V)) /\ Len(parts(t)) = Len(t) /\ \A k \in 1..Len(t) : parts(t)[k] = part(t[k])
    <2> SUFFICES ASSUME NEW t \in Seq(P)
                 PROVE  parts(t) \in Seq(Seq(V)) /\ Len(parts(t)) = Len(t) /\ \A k \in 1..Len(t) : parts(t)[k] = part(t[k])
      OBVIOUS
    <2> DEFINE Q == Seq(V)
    <2>1. \A k \in 1..Len(t) : part(t[k]) \in Q
      BY <1>1
    <2> HIDE DEF part, Q
    <2>2. Len(t) \in Nat
      OBVIOUS
    <2>3. parts(t) \in Seq(Q) /\ Len(parts(t)) = Len(t) /\ \A k \in 1..Len(t) : parts(t)[k] = part(t[k])
      BY <2>1, <2>2
    <2> QED
      BY <2>3 DEF Q
  <1> HIDE DEF parts, part
  <1>5. parts(more) = Append(parts(s), part(x))
    <2> DEFINE Q == Seq(V)
               a == parts(s)
               b == Append(a, part(x))
               c == parts(more)
    <2>1. a \in Seq(Q) /\ Len(a) = Len(s) /\ part(x) \in Q /\ \A k \in 1..Len(s) : a[k] = part(s[k])
      BY <1>1, <1>4
    <2>2. c \in Seq(Q) /\ Len(c) = Len(s) + 1 /\ \A k \in 1..(Len(s) + 1) : c[k] = part(more[k])
      BY <1>2, <1>4
    <2> HIDE DEF Q, a, c
    <2>3. b \in Seq(Q) /\ Len(b) = Len(a) + 1 /\ \A i \in 1..(Len(a) + 1) : b[i] = IF i = Len(a) + 1 THEN part(x) ELSE a[i]
      BY <2>1, Appended
    <2> HIDE DEF b
    <2>4. ASSUME NEW k \in 1..(Len(s) + 1) PROVE c[k] = b[k]
      <3>1. CASE k = Len(s) + 1
        BY <1>2, <2>1, <2>2, <2>3, <3>1
      <3>2. CASE k # Len(s) + 1
        <4>1. k \in 1..Len(s)
          BY <1>2, <3>2
        <4>2. b[k] = a[k]
          BY <2>1, <2>3, <3>2
        <4>3. c[k] = part(more[k]) /\ more[k] = s[k]
          BY <1>2, <2>2, <3>2
        <4>4. a[k] = part(s[k])
          BY <2>1, <4>1
        <4> QED
          BY <4>2, <4>3, <4>4
      <3> QED
        BY <3>1, <3>2
    <2>5. Len(c) = Len(b)
      BY <2>1, <2>2, <2>3
    <2>6. c = b
      BY <2>2, <2>3, <2>4, <2>5, SameSequence
    <2> QED
      BY <2>6 DEF a, b, c
  <1>6. parts(s) \in Seq(Seq(V)) /\ part(x) \in Seq(V)
    BY <1>1, <1>4
  <1>7. FlattenSeq(Append(parts(s), part(x))) = FlattenSeq(parts(s)) \o part(x) /\ FlattenSeq(parts(s)) \in Seq(V)
    BY <1>6, FlattenOne
  <1>8. IsSeq(FlattenSeq(parts(s)))
    BY <1>7, SeqIsSeq
  <1>9. ListMeaning(d, s) = FlattenSeq(parts(s)) /\ ListMeaning(d, more) = FlattenSeq(parts(more))
    BY <1>3, Zenon
  <1> QED
    BY <1>5, <1>7, <1>8, <1>9 DEF more, part

-----------------------------------------------------------------------------
(* The entries of a map.                                                    *)

\* Of the entries with a key the one that no other follows is read.
LEMMA LatestAt ==
  ASSUME NEW s, NEW d, NEW key, NEW k \in DOMAIN s, DOMAIN s \subseteq Int, EntryKey(s[k]) = key,
         \A j \in DOMAIN s : EntryKey(s[j]) = key => j <= k
  PROVE  key \in DOMAIN MapMeaning(d, s) /\ MapMeaning(d, s)[key] = OneMeaning(d.value, EntryValue(d, s[k]))
  <1> DEFINE mine(q) == {i \in DOMAIN s : EntryKey(s[i]) = q}
             latest(q) == Max(mine(q))
             keys == {EntryKey(s[i]) : i \in DOMAIN s}
             f == [q \in keys |-> OneMeaning(d.value, EntryValue(d, s[latest(q)]))]
  <1>1. MapMeaning(d, s) = f
    BY DEF MapMeaning
  <1>2. k \in mine(key) /\ \A j \in mine(key) : j <= k
    OBVIOUS
  <1>4. latest(key) = k
    <2> DEFINE S == mine(key)
    <2>1. k \in S /\ S \subseteq Int /\ \A j \in S : j <= k
      BY <1>2
    <2> HIDE DEF S
    <2>2. \A i, j \in S : (\A q \in S : q <= i) /\ (\A q \in S : q <= j) => i = j
      BY <2>1
    <2>3. Max(S) = k
      BY <2>1, <2>2 DEF Max
    <2> QED
      BY <2>3 DEF S
  <1>5. key \in keys
    BY <1>2
  <1> HIDE DEF latest, keys
  <1>6. DOMAIN f = keys /\ f[key] = OneMeaning(d.value, EntryValue(d, s[latest(key)]))
    BY <1>5
  <1> QED
    BY <1>1, <1>4, <1>5, <1>6

KeysOf(s) == {EntryKey(s[k]) : k \in DOMAIN s}

LEMMA MapMeaningKeys ==
  ASSUME NEW d, NEW s
  PROVE  DOMAIN MapMeaning(d, s) = KeysOf(s) /\ MapMeaning(d, s) = [key \in KeysOf(s) |-> MapMeaning(d, s)[key]]
  <1> DEFINE latest(key) == OneMeaning(d.value, EntryValue(d, s[Max({k \in DOMAIN s : EntryKey(s[k]) = key})]))
             f == [key \in KeysOf(s) |-> latest(key)]
  <1>1. MapMeaning(d, s) = f
    BY Zenon DEF MapMeaning, KeysOf
  <1> HIDE DEF latest
  <1>2. DOMAIN f = KeysOf(s) /\ f = [key \in KeysOf(s) |-> f[key]]
    OBVIOUS
  <1> HIDE DEF f
  <1> QED
    BY <1>1, <1>2

\* A further entry counts for its key, and for no other.
EntryAdded(d, s, x, more) ==
  /\ KeysOf(more) = KeysOf(s) \cup {EntryKey(x)}
  /\ MapMeaning(d, more)[EntryKey(x)] = OneMeaning(d.value, EntryValue(d, x))
  /\ \A key \in KeysOf(s) : key # EntryKey(x) => MapMeaning(d, more)[key] = MapMeaning(d, s)[key]

\* What a map says, one entry more.
LEMMA MapMeaningOne ==
  ASSUME NEW d, NEW P, NEW s \in Seq(P), NEW x \in P
  PROVE  EntryAdded(d, s, x, Append(s, x))
  <1> DEFINE more == Append(s, x)
             n == Len(s)
             q == EntryKey(x)
  <1>1. /\ more \in Seq(P) /\ Len(more) = n + 1 /\ n \in Nat /\ DOMAIN s = 1..n /\ DOMAIN more = 1..(n + 1)
        /\ \A i \in 1..(n + 1) : more[i] = IF i = n + 1 THEN x ELSE s[i]
    <2>1. DOMAIN s = 1..n
      OBVIOUS
    <2>2. \A t \in Seq(P) : DOMAIN t = 1..Len(t)
      OBVIOUS
    <2>3. /\ more \in Seq(P) /\ Len(more) = n + 1 /\ n \in Nat
          /\ \A i \in 1..(n + 1) : more[i] = IF i = n + 1 THEN x ELSE s[i]
      BY Appended
    <2> HIDE DEF more
    <2> QED
      BY <2>1, <2>2, <2>3
  <1> HIDE DEF more, n
  <1>2. n + 1 \in 1..(n + 1) /\ more[n + 1] = x /\ \A k \in 1..n : k \in 1..(n + 1) /\ more[k] = s[k]
    BY <1>1
  <1>3. KeysOf(more) = KeysOf(s) \cup {q}
    <2>1. \A k \in 1..(n + 1) : k = n + 1 \/ k \in 1..n
      BY <1>1
    <2>2. \A k \in 1..(n + 1) : EntryKey(more[k]) = IF k = n + 1 THEN q ELSE EntryKey(s[k])
      BY <1>1
    <2> HIDE DEF q
    <2> QED
      BY <1>1, <1>2, <2>1, <2>2 DEF KeysOf
  <1>4. MapMeaning(d, more)[q] = OneMeaning(d.value, EntryValue(d, x))
    <2>1. n + 1 \in DOMAIN more /\ DOMAIN more \subseteq Int /\ EntryKey(more[n + 1]) = q /\ \A j \in DOMAIN more : j <= n + 1
      BY <1>1, <1>2
    <2>2. MapMeaning(d, more)[q] = OneMeaning(d.value, EntryValue(d, more[n + 1]))
      <3> HIDE DEF q
      <3> QED
        BY <2>1, LatestAt
    <2> QED
      BY <1>2, <2>2
  <1>5. ASSUME NEW key \in KeysOf(s), key # q
        PROVE  MapMeaning(d, more)[key] = MapMeaning(d, s)[key]
    <2> DEFINE S == {k \in 1..n : EntryKey(s[k]) = key}
    <2>1. S \in SUBSET (1..n) /\ S # {}
      BY <1>1 DEF KeysOf
    <2>2. PICK k \in S : \A j \in S : j <= k
      <3> HIDE DEF S
      <3> QED
        BY <1>1, <2>1, GreatestOf
    <2>3. k \in DOMAIN s /\ DOMAIN s \subseteq Int /\ EntryKey(s[k]) = key /\ \A j \in DOMAIN s : EntryKey(s[j]) = key => j <= k
      BY <1>1, <2>2
    <2>4. MapMeaning(d, s)[key] = OneMeaning(d.value, EntryValue(d, s[k]))
      BY <2>3, LatestAt
    <2>5. ASSUME NEW j \in DOMAIN more, EntryKey(more[j]) = key PROVE j <= k
      <3>1. j # n + 1
        BY <1>2, <1>5, <2>5
      <3>2. j \in 1..n /\ more[j] = s[j]
        BY <1>1, <1>2, <3>1
      <3> QED
        BY <1>1, <2>3, <2>5, <3>2
    <2>6. k \in DOMAIN more /\ DOMAIN more \subseteq Int /\ EntryKey(more[k]) = key /\ more[k] = s[k]
      BY <1>1, <1>2, <2>3
    <2>7. MapMeaning(d, more)[key] = OneMeaning(d.value, EntryValue(d, more[k]))
      BY <2>5, <2>6, LatestAt
    <2> QED
      BY <2>4, <2>6, <2>7
  <1> QED
    BY <1>3, <1>4, <1>5 DEF more, EntryAdded
-----------------------------------------------------------------------------
(* A wire field into the object.                                            *)

\* The value at one key is set, the others are as they were.
SetAt(g, f, key, x) ==
  /\ DOMAIN g = DOMAIN f \cup {key} /\ g[key] = x
  /\ \A q \in DOMAIN f : q # key => g[q] = f[q]

\* Assign, at its key and elsewhere.
LEMMA Put ==
  ASSUME NEW key, NEW x, NEW f
  PROVE  SetAt(Assign(f, key, x), f, key, x)
  <1> DEFINE at(q) == IF q = key THEN x ELSE f[q]
             all == DOMAIN f \cup {key}
             g == [q \in all |-> at(q)]
  <1>1. Assign(f, key, x) = g
    BY DEF Assign
  <1>3. key \in all /\ at(key) = x /\ \A q \in DOMAIN f : q \in all /\ (q # key => at(q) = f[q])
    OBVIOUS
  <1> HIDE DEF at
  <1>4. DOMAIN g = all /\ \A q \in all : g[q] = at(q)
    OBVIOUS
  <1> HIDE DEF g
  <1> QED
    BY <1>1, <1>3, <1>4 DEF SetAt

\* A wire field the codec keeps.
FieldFine(d, w) ==
  IF d.kind = "map"
  THEN /\ OneFine(d.value, EntryValue(d, w)) /\ (d.value.kind # "message" => d.value.type # "enum")
       /\ DecodeText(EntryKey(w)) = EntryKey(w)
  ELSE IF d.repeated THEN ListFine(d, w) ELSE OneFine(d, w)

\* A field of the object says what the wire fields it is made of say.
Agrees(d, x, mine) ==
  IF d.kind = "map"
  THEN /\ DOMAIN x = KeysOf(mine)
       /\ \A key \in KeysOf(mine) : MeaningOf(d.value, x[key]) = MapMeaning(d, mine)[key]
  ELSE IF d.repeated
  THEN /\ IsSeq(x) /\ IsSeq(ListMeaning(d, mine)) /\ Len(x) = Len(ListMeaning(d, mine))
       /\ \A k \in 1..Len(x) : MeaningOf(d, x[k]) = ListMeaning(d, mine)[k]
  ELSE MeaningOf(d, x) = OneMeaning(d, Last(mine))

\* An absent list or map is an empty one.
LEMMA NothingSame ==
  ASSUME NEW d, d.kind = "map" \/ d.repeated
  PROVE  Agrees(d, <<>>, <<>>)
  <1> DEFINE none == <<>>
  <1>1. none \in Seq({}) /\ Len(none) = 0 /\ DOMAIN none = {} /\ \A k : k \notin 1..0
    OBVIOUS
  <1>2. IsSeq(none) /\ ListMeaning(d, none) = none
    BY <1>1, SeqIsSeq, ListMeaningNothing
  <1> HIDE DEF none
  <1>3. KeysOf(none) = {}
    BY <1>1 DEF KeysOf
  <1>4. CASE d.kind = "map"
    <2>1. Agrees(d, none, none)
      BY <1>1, <1>3, <1>4 DEF Agrees
    <2> QED
      BY <2>1 DEF none
  <1>5. CASE d.kind # "map"
    <2>1. Agrees(d, none, none)
      BY <1>1, <1>2, <1>5 DEF Agrees
    <2> QED
      BY <2>1 DEF none
  <1> QED
    BY <1>4, <1>5

LEMMA LastAppended ==
  ASSUME NEW P, NEW s \in Seq(P), NEW x \in P
  PROVE  Last(Append(s, x)) = x /\ Append(s, x) # <<>>
  <1> DEFINE more == Append(s, x)
  <1>1. Len(more) = Len(s) + 1 /\ Len(s) \in Nat /\ Len(s) + 1 \in 1..(Len(s) + 1) /\ more[Len(s) + 1] = x
    BY Appended
  <1>2. Len(<<>>) = 0
    OBVIOUS
  <1> HIDE DEF more
  <1>3. Last(more) = x /\ more # <<>>
    BY <1>1, <1>2 DEF Last
  <1> QED
    BY <1>3 DEF more

\* The three ways applyDecodedField (message-codec.ts:77) takes a wire field in: an
\* entry of a map, elements of a list, a value of its own.
LEMMA SameEntry ==
  ASSUME NEW d, d.kind = "map", NEW P, NEW mine \in Seq(P), NEW w \in P, FieldFine(d, w),
         NEW old, Agrees(d, old, mine)
  PROVE  LET entry == DecodeMapEntry(d, w)
         IN Agrees(d, Assign(old, entry.key, entry.value), Append(mine, w))
  <1> DEFINE q == EntryKey(w)
             x == DecodeSingle(d.value, EntryValue(d, w))
             g == Assign(old, q, x)
             more == Append(mine, w)
  <1>1. DecodeMapEntry(d, w).key = q /\ DecodeMapEntry(d, w).value = x
    BY DEF DecodeMapEntry, FieldFine
  <1>2. MeaningOf(d.value, x) = OneMeaning(d.value, EntryValue(d, w))
    BY SingleKept DEF FieldFine
  <1>3. SetAt(g, old, q, x)
    <2> HIDE DEF q, x
    <2> QED
      BY Put
  <1>4. /\ KeysOf(more) = KeysOf(mine) \cup {q}
        /\ MapMeaning(d, more)[q] = OneMeaning(d.value, EntryValue(d, w))
        /\ \A key \in KeysOf(mine) : key # q => MapMeaning(d, more)[key] = MapMeaning(d, mine)[key]
    <2>1. EntryAdded(d, mine, w, more)
      BY MapMeaningOne, Zenon
    <2> HIDE DEF more
    <2> QED
      BY <2>1 DEF EntryAdded
  <1> HIDE DEF q, x, g, more
  <1>5. DOMAIN old = KeysOf(mine) /\ \A key \in KeysOf(mine) : MeaningOf(d.value, old[key]) = MapMeaning(d, mine)[key]
    BY DEF Agrees
  <1>6. DOMAIN g = KeysOf(more) /\ g[q] = x /\ \A key \in KeysOf(mine) : key # q => g[key] = old[key]
    BY <1>3, <1>4, <1>5 DEF SetAt
  <1>7. \A key \in KeysOf(more) : MeaningOf(d.value, g[key]) = MapMeaning(d, more)[key]
    BY <1>2, <1>4, <1>5, <1>6
  <1>8. Agrees(d, g, more)
    BY <1>6, <1>7 DEF Agrees
  <1> QED
    BY <1>1, <1>8 DEF g, more

LEMMA SameList ==
  ASSUME NEW d, d.kind # "map", d.repeated, NEW P, \A u \in P : FieldFine(d, u),
         NEW mine \in Seq(P), NEW w \in P, NEW old, Agrees(d, old, mine)
  PROVE  Agrees(d, old \o GotOf(d, w), Append(mine, w))
  <1> DEFINE a == ListMeaning(d, mine)
             b == PartOf(d, w)
             got == GotOf(d, w)
             more == Append(mine, w)
             c == old \o got
             e == a \o b
  <1>1. \A u \in P : ListFine(d, u)
    BY DEF FieldFine
  <1>2. ListMeaning(d, more) = e
    BY <1>1, PartKept, ListMeaningOne
  <1>3. IsSeq(b) /\ IsSeq(got) /\ Len(got) = Len(b) /\ \A k \in 1..Len(b) : MeaningOf(d, got[k]) = b[k]
    BY <1>1, PartKept
  <1>4. IsSeq(old) /\ IsSeq(a) /\ Len(old) = Len(a) /\ \A k \in 1..Len(old) : MeaningOf(d, old[k]) = a[k]
    BY DEF Agrees
  <1> HIDE DEF a, b, got, more
  <1>5. /\ IsSeq(c) /\ Len(c) = Len(old) + Len(got) /\ Len(old) \in Nat /\ Len(got) \in Nat
        /\ \A k \in 1..(Len(old) + Len(got)) : c[k] = IF k <= Len(old) THEN old[k] ELSE got[k - Len(old)]
    BY <1>3, <1>4, JoinedIsSeq
  <1>6. /\ IsSeq(e) /\ Len(e) = Len(a) + Len(b)
        /\ \A k \in 1..(Len(a) + Len(b)) : e[k] = IF k <= Len(a) THEN a[k] ELSE b[k - Len(a)]
    BY <1>3, <1>4, JoinedIsSeq
  <1> HIDE DEF c, e
  <1>7. Len(c) = Len(e)
    BY <1>3, <1>4, <1>5, <1>6
  <1>8. ASSUME NEW k \in 1..Len(c) PROVE MeaningOf(d, c[k]) = e[k]
    <2>0. k \in 1..(Len(old) + Len(got)) /\ k \in 1..(Len(a) + Len(b))
      BY <1>3, <1>4, <1>5
    <2>1. CASE k <= Len(old)
      <3>1. k \in 1..Len(old)
        BY <1>5, <2>1
      <3>2. c[k] = old[k] /\ e[k] = a[k]
        BY <1>4, <1>5, <1>6, <2>0, <2>1
      <3> QED
        BY <1>4, <3>1, <3>2
    <2>2. CASE ~(k <= Len(old))
      <3>1. k - Len(old) \in 1..Len(b) /\ Len(old) = Len(a)
        BY <1>3, <1>4, <1>5, <2>2
      <3>2. c[k] = got[k - Len(old)] /\ e[k] = b[k - Len(old)]
        BY <1>4, <1>5, <1>6, <2>0, <2>2
      <3> QED
        BY <1>3, <3>1, <3>2
    <2> QED
      BY <2>1, <2>2
  <1>9. Agrees(d, c, more)
    BY <1>2, <1>5, <1>6, <1>7, <1>8 DEF Agrees
  <1> QED
    BY <1>9 DEF c, more, got

LEMMA SameOne ==
  ASSUME NEW d, d.kind # "map", ~d.repeated, NEW P, NEW mine \in Seq(P), NEW w \in P, FieldFine(d, w)
  PROVE  Agrees(d, DecodeSingle(d, w), Append(mine, w))
  <1> DEFINE more == Append(mine, w)
             x == DecodeSingle(d, w)
  <1>1. Last(more) = w
    BY LastAppended
  <1>2. MeaningOf(d, x) = OneMeaning(d, w)
    BY SingleKept DEF FieldFine
  <1> HIDE DEF more, x
  <1>3. Agrees(d, x, more)
    BY <1>1, <1>2 DEF Agrees
  <1> QED
    BY <1>3 DEF more, x

\* However it is taken in, the field goes on saying what its wire fields say.
LEMMA FieldApplied ==
  ASSUME NEW d, d.repeated \in BOOLEAN, NEW P, \A u \in P : FieldFine(d, u), NEW mine \in Seq(P), NEW w \in P, NEW fields,
         mine = <<>> => d.no \notin DOMAIN fields,
         mine # <<>> => d.no \in DOMAIN fields /\ Agrees(d, fields[d.no], mine)
  PROVE  \E x : SetAt(ApplyDecoded(fields, d, w), fields, d.no, x) /\ Agrees(d, x, Append(mine, w))
  <1> DEFINE old == Before(fields, d.no, <<>>)
             more == Append(mine, w)
  <1>1. d.kind = "map" \/ d.repeated => Agrees(d, old, mine)
    <2>1. CASE mine = <<>>
      BY <2>1, NothingSame DEF Before
    <2>2. CASE mine # <<>>
      BY <2>2 DEF Before
    <2> QED
      BY <2>1, <2>2
  <1>2. FieldFine(d, w)
    OBVIOUS
  <1> HIDE DEF old, more
  <1>3. CASE d.kind = "map"
    <2> DEFINE entry == DecodeMapEntry(d, w)
               x == Assign(old, entry.key, entry.value)
    <2>1. Agrees(d, x, more)
      BY <1>1, <1>2, <1>3, SameEntry DEF more
    <2> HIDE DEF x
    <2>2. ApplyDecoded(fields, d, w) = Assign(fields, d.no, x)
      BY <1>3 DEF ApplyDecoded, x, old
    <2> QED
      BY <2>1, <2>2, Put DEF more
  <1>4. CASE d.kind # "map" /\ d.repeated
    <2> DEFINE x == old \o GotOf(d, w)
    <2>1. Agrees(d, x, more)
      BY <1>1, <1>4, SameList DEF more
    <2>2. ApplyDecoded(fields, d, w) = Assign(fields, d.no, x)
      <3> DEFINE got == IF w.form = "packed"
                        THEN [k \in 1..Len(w.holds) |-> DecodeScalar(Unpacked(d), w.holds[k])]
                        ELSE <<DecodeSingle(d, w)>>
      <3>1. got = GotOf(d, w)
        BY DEF GotOf
      <3>2. ApplyDecoded(fields, d, w) = Assign(fields, d.no, old \o got)
        BY <1>4 DEF ApplyDecoded, old
      <3> QED
        BY <3>1, <3>2
    <2> HIDE DEF x
    <2> QED
      BY <2>1, <2>2, Put DEF more
  <1>5. CASE d.kind # "map" /\ ~d.repeated
    <2> DEFINE x == DecodeSingle(d, w)
    <2>1. Agrees(d, x, more)
      BY <1>2, <1>5, SameOne DEF more
    <2> HIDE DEF x
    <2>2. ApplyDecoded(fields, d, w) = Assign(fields, d.no, x)
      BY <1>5 DEF ApplyDecoded, x
    <2> QED
      BY <2>1, <2>2, Put DEF more
  <1> QED
    BY <1>3, <1>4, <1>5
-----------------------------------------------------------------------------
(* The message as the object holds it.                                      *)

\* All that are found have one of the numbers.
LEMMA OfNumbersFrom ==
  ASSUME NEW P, NEW s \in Seq(P), NEW nos
  PROVE  OfNumbers(s, nos) \in Seq({w \in P : w.no \in nos})
  <1> DEFINE Q == {w \in P : w.no \in nos}
             V == Seq(Q)
             T == {u \in Seq(P) : OfNumbers(u, nos) \in V}
  <1>1. <<>> \in T
    <2>1. <<>> \in Seq(P) /\ <<>> \in V
      OBVIOUS
    <2> QED
      BY <2>1, OfNumbersNothing
  <1>3. \A u \in T, x \in P : Append(u, x) \in T
    <2> SUFFICES ASSUME NEW u \in T, NEW x \in P PROVE Append(u, x) \in T
      OBVIOUS
    <2>1. Append(u, x) \in Seq(P)
      BY Appended
    <2>2. OfNumbers(Append(u, x), nos) = IF x.no \in nos THEN Append(OfNumbers(u, nos), x) ELSE OfNumbers(u, nos)
      BY OfNumbersOne
    <2> DEFINE a == OfNumbers(u, nos)
    <2>3. a \in Seq(Q)
      OBVIOUS
    <2>4. x.no \in nos => x \in Q
      OBVIOUS
    <2> HIDE DEF Q, a
    <2>5. x.no \in nos => Append(a, x) \in Seq(Q)
      BY <2>3, <2>4, Appended
    <2>6. OfNumbers(Append(u, x), nos) \in Seq(Q)
      BY <2>2, <2>3, <2>5 DEF a
    <2> QED
      BY <2>1, <2>6
  <1>4. T \in SUBSET Seq(P)
    OBVIOUS
  <1> HIDE DEF T
  <1>5. T = Seq(P)
    BY <1>1, <1>3, <1>4, SeqInductive
  <1> QED
    BY <1>5 DEF T

\* None of them is left out.
LEMMA OfNumbersHas ==
  ASSUME NEW P, NEW s \in Seq(P), NEW nos, NEW k \in 1..Len(s), s[k].no \in nos
  PROVE  \E j \in 1..Len(OfNumbers(s, nos)) : OfNumbers(s, nos)[j] = s[k]
  <1> DEFINE Has(u, x) == \E j \in 1..Len(OfNumbers(u, nos)) : OfNumbers(u, nos)[j] = x
             T == {u \in Seq(P) : \A i \in 1..Len(u) : u[i].no \in nos => Has(u, u[i])}
  <1>1. <<>> \in T
    <2>1. <<>> \in Seq(P) /\ Len(<<>>) = 0 /\ \A i : i \notin 1..0
      OBVIOUS
    <2> HIDE DEF Has
    <2> QED
      BY <2>1
  <1>3. \A u \in T, x \in P : Append(u, x) \in T
    <2> SUFFICES ASSUME NEW u \in T, NEW x \in P PROVE Append(u, x) \in T
      OBVIOUS
    <2> DEFINE more == Append(u, x)
               a == OfNumbers(u, nos)
               b == Append(a, x)
               n == Len(u)
    <2>1. /\ more \in Seq(P) /\ Len(more) = n + 1 /\ n \in Nat
          /\ \A i \in 1..(n + 1) : more[i] = IF i = n + 1 THEN x ELSE u[i]
      BY Appended
    <2>2. OfNumbers(more, nos) = IF x.no \in nos THEN b ELSE a
      BY OfNumbersOne
    <2>3. a \in Seq(P)
      BY OfNumbersTyped
    <2>4. \A i \in 1..n : u[i].no \in nos => Has(u, u[i])
      OBVIOUS
    <2> HIDE DEF more, a, n
    <2>5. /\ Len(b) = Len(a) + 1 /\ Len(a) \in Nat
          /\ \A j \in 1..(Len(a) + 1) : b[j] = IF j = Len(a) + 1 THEN x ELSE a[j]
      BY <2>3, Appended
    <2> HIDE DEF b
    <2>6. ASSUME NEW i \in 1..(n + 1), more[i].no \in nos PROVE Has(more, more[i])
      <3>1. CASE i = n + 1
        <4>1. OfNumbers(more, nos) = b /\ more[i] = x
          BY <2>1, <2>2, <2>6, <3>1
        <4>2. Len(a) + 1 \in 1..Len(b) /\ b[Len(a) + 1] = x
          BY <2>5
        <4> QED
          BY <4>1, <4>2
      <3>2. CASE i # n + 1
        <4>1. i \in 1..n /\ more[i] = u[i]
          BY <2>1, <3>2
        <4>2. PICK j \in 1..Len(a) : a[j] = u[i]
          BY <2>4, <2>6, <4>1 DEF a
        <4>3. j \in 1..Len(b) /\ b[j] = u[i]
          BY <2>5, <4>2
        <4> QED
          BY <2>2, <4>1, <4>2, <4>3
      <3> QED
        BY <3>1, <3>2
    <2> HIDE DEF Has
    <2>7. more \in T
      BY <2>1, <2>6
    <2> QED
      BY <2>7 DEF more
  <1>4. T \in SUBSET Seq(P)
    OBVIOUS
  <1> HIDE DEF T
  <1>5. T = Seq(P)
    BY <1>1, <1>3, <1>4, SeqInductive
  <1> QED
    BY <1>5 DEF T

\* A field descriptor of the schema.
WellDescribed(d) ==
  /\ d.no \in Nat \ {0} /\ d.repeated \in BOOLEAN
  /\ \/ d.kind = "scalar" /\ d.type \in ScalarTypes
     \/ d.kind = "message"
     \/ /\ d.kind = "map"
        /\ \/ d.value.kind = "message"
           \/ d.value.kind = "scalar" /\ d.value.type \in ScalarTypes

\* A descriptor is found by its number.
LEMMA Descriptors ==
  ASSUME NEW type \in DOMAIN Schema, NEW d \in ToSet(Schema[type])
  PROVE  d.no \in Numbers(type) /\ DescriptorOf(type, d.no) = d /\ WellDescribed(d)
  <1>1. WellDescribed(d)
    BY SchemaAssumption DEF WellDescribed
  <1>2. d.no \in Numbers(type)
    BY DEF Numbers
  <1>3. PICK i \in DOMAIN Schema[type] : d = Schema[type][i]
    BY DEF ToSet
  <1>4. ASSUME NEW e \in ToSet(Schema[type]), e.no = d.no PROVE e = d
    <2>1. PICK j \in DOMAIN Schema[type] : e = Schema[type][j]
      BY DEF ToSet
    <2>2. i = j
      BY <1>3, <1>4, <2>1, SchemaAssumption
    <2> QED
      BY <1>3, <2>1, <2>2
  <1>5. DescriptorOf(type, d.no) = d
    BY <1>4 DEF DescriptorOf
  <1> QED
    BY <1>1, <1>2, <1>5

LEMMA DescriptorKnown ==
  ASSUME NEW type \in DOMAIN Schema, NEW no \in Numbers(type)
  PROVE  DescriptorOf(type, no) \in ToSet(Schema[type]) /\ DescriptorOf(type, no).no = no
  BY DEF DescriptorOf, Numbers

\* A wire field the codec keeps in a message of the type.
WireFine(type, w) == w.no \in Numbers(type) => FieldFine(DescriptorOf(type, w.no), w)

\* The object holds what the wire fields say.
Holds(type, s, v) ==
  /\ v = [fields |-> v.fields, unknown |-> v.unknown]
  /\ v.unknown = Lacking(type, s)
  /\ \A no : no \in DOMAIN v.fields <=> no \in Numbers(type) /\ Numbered(s, no) # <<>>
  /\ \A no \in DOMAIN v.fields : Agrees(DescriptorOf(type, no), v.fields[no], Numbered(s, no))

\* What the schema lacks, by any set the wire fields are from.
LEMMA LackingOf ==
  ASSUME NEW P, NEW s \in Seq(P), NEW type
  PROVE  Lacking(type, s) = OfNumbers(s, {w.no : w \in P} \ Numbers(type))
  <1> DEFINE S == ToSet(s)
             A == {w.no : w \in S} \ Numbers(type)
             B == {w.no : w \in P} \ Numbers(type)
  <1>1. s \in Seq(S) /\ S \subseteq P
    BY SeqIsSeq DEF IsSeq
  <1> HIDE DEF S
  <1>2. \A w \in S : w.no \in A <=> w.no \in B
    BY <1>1
  <1> HIDE DEF A, B
  <1>3. OfNumbers(s, A) = OfNumbers(s, B)
    BY <1>1, <1>2, OfNumbersAgree
  <1> QED
    BY <1>3 DEF Lacking, A, B, S

LEMMA HoldsNothing ==
  ASSUME NEW type
  PROVE  Holds(type, <<>>, Empty)
  <1> DEFINE none == <<>>
             v == Empty
  <1>1. v.fields = <<>> /\ v.unknown = <<>> /\ v = [fields |-> v.fields, unknown |-> v.unknown]
    BY DEF Empty
  <1>2. DOMAIN <<>> = {}
    OBVIOUS
  <1>3. \A nos : OfNumbers(none, nos) = <<>>
    BY OfNumbersNothing
  <1> HIDE DEF none, v
  <1>4. v.unknown = Lacking(type, none) /\ \A no : Numbered(none, no) = <<>>
    BY <1>1, <1>3 DEF Lacking, Numbered
  <1>5. Holds(type, none, v)
    BY <1>1, <1>2, <1>4 DEF Holds
  <1> QED
    BY <1>5 DEF none, v

\* The object goes on holding what the wire fields say, one wire field more.
LEMMA HoldsOne ==
  ASSUME NEW type \in DOMAIN Schema, NEW P, \A w \in P : WireFine(type, w),
         NEW s \in Seq(P), NEW x \in P, NEW v, Holds(type, s, v)
  PROVE  Holds(type, Append(s, x), TakeField(type, v, x))
  <1> DEFINE more == Append(s, x)
             v2 == TakeField(type, v, x)
             lacks == {w.no : w \in P} \ Numbers(type)
  <1>1. more \in Seq(P)
    BY Appended
  <1>2. \A nos : OfNumbers(more, nos) = IF x.no \in nos THEN Append(OfNumbers(s, nos), x) ELSE OfNumbers(s, nos)
    BY OfNumbersOne
  <1>3. Lacking(type, s) = OfNumbers(s, lacks)
    <2> HIDE DEF lacks
    <2> QED
      BY LackingOf DEF lacks
  <1> HIDE DEF more
  <1>4. Lacking(type, more) = OfNumbers(more, lacks)
    <2> HIDE DEF lacks
    <2> QED
      BY <1>1, LackingOf DEF lacks
  <1>5. x.no \in lacks <=> x.no \notin Numbers(type)
    OBVIOUS
  <1> HIDE DEF lacks
  <1>6. \A no : Numbered(more, no) = IF x.no = no THEN Append(Numbered(s, no), x) ELSE Numbered(s, no)
    <2> SUFFICES ASSUME NEW no PROVE Numbered(more, no) = IF x.no = no THEN Append(Numbered(s, no), x) ELSE Numbered(s, no)
      OBVIOUS
    <2> DEFINE nos == {no}
    <2>1. x.no \in nos <=> x.no = no
      OBVIOUS
    <2> HIDE DEF nos
    <2> QED
      BY <1>2, <2>1 DEF Numbered, nos
  <1>7. CASE x.no \notin Numbers(type)
    <2>1. v2 = [v EXCEPT !.unknown = Append(@, x)]
      BY <1>7 DEF TakeField
    <2>2. v2.fields = v.fields /\ v2.unknown = Append(v.unknown, x) /\ v2 = [fields |-> v2.fields, unknown |-> v2.unknown]
      BY <2>1 DEF Holds
    <2> HIDE DEF v2
    <2>3. Lacking(type, more) = Append(Lacking(type, s), x)
      BY <1>2, <1>3, <1>4, <1>5, <1>7
    <2>4. v2.unknown = Lacking(type, more)
      BY <2>2, <2>3 DEF Holds
    <2>5. \A no \in Numbers(type) : Numbered(more, no) = Numbered(s, no)
      BY <1>6, <1>7
    <2>6. \A no : no \in DOMAIN v2.fields <=> no \in Numbers(type) /\ Numbered(more, no) # <<>>
      BY <2>2, <2>5 DEF Holds
    <2>7. \A no \in DOMAIN v2.fields : Agrees(DescriptorOf(type, no), v2.fields[no], Numbered(more, no))
      BY <2>2, <2>5 DEF Holds
    <2> QED
      BY <2>2, <2>4, <2>6, <2>7 DEF Holds, v2, more
  <1>8. CASE x.no \in Numbers(type)
    <2> DEFINE no0 == x.no
               d == DescriptorOf(type, no0)
               mine == Numbered(s, no0)
               Q == {w \in P : w.no \in {no0}}
               fields == ApplyDecoded(v.fields, d, x)
    <2>1. d \in ToSet(Schema[type]) /\ d.no = no0
      BY <1>8, DescriptorKnown
    <2>2. d.repeated \in BOOLEAN
      BY <2>1, Descriptors DEF WellDescribed
    <2>3. \A u \in Q : FieldFine(d, u)
      BY <1>8 DEF WireFine
    <2>4. mine \in Seq(Q)
      BY OfNumbersFrom DEF Numbered
    <2>5. x \in Q
      OBVIOUS
    <2>6. /\ mine = <<>> => d.no \notin DOMAIN v.fields
          /\ mine # <<>> => d.no \in DOMAIN v.fields /\ Agrees(d, v.fields[d.no], mine)
      <3> HIDE DEF mine, d
      <3>1. \A no : no \in DOMAIN v.fields <=> no \in Numbers(type) /\ Numbered(s, no) # <<>>
        BY DEF Holds
      <3>2. \A no \in DOMAIN v.fields : Agrees(DescriptorOf(type, no), v.fields[no], Numbered(s, no))
        BY DEF Holds
      <3> QED
        BY <1>8, <2>1, <3>1, <3>2 DEF mine, d
    <2>7. v2 = [v EXCEPT !.fields = fields]
      BY <1>8 DEF TakeField
    <2> HIDE DEF d, mine, Q, fields, v2
    <2>8. PICK y : SetAt(fields, v.fields, d.no, y) /\ Agrees(d, y, Append(mine, x))
      BY <2>2, <2>3, <2>4, <2>5, <2>6, FieldApplied DEF fields
    <2>9. v2.fields = fields /\ v2.unknown = v.unknown /\ v2 = [fields |-> v2.fields, unknown |-> v2.unknown]
      BY <2>7 DEF Holds
    <2>10. v2.unknown = Lacking(type, more)
      BY <1>2, <1>3, <1>4, <1>5, <1>8, <2>9 DEF Holds
    <2>11. Numbered(more, no0) = Append(mine, x) /\ Append(mine, x) # <<>>
      <3>1. Append(mine, x) # <<>>
        BY <2>4, <2>5, LastAppended
      <3>2. Numbered(more, no0) = Append(Numbered(s, no0), x)
        BY <1>6
      <3> QED
        BY <3>1, <3>2 DEF mine
    <2>12. \A no : no # no0 => Numbered(more, no) = Numbered(s, no)
      BY <1>6
    <2> HIDE DEF no0
    <2>13. DOMAIN v2.fields = DOMAIN v.fields \cup {no0} /\ v2.fields[no0] = y
           /\ \A no \in DOMAIN v.fields : no # no0 => v2.fields[no] = v.fields[no]
      BY <2>1, <2>8, <2>9 DEF SetAt
    <2>16. no0 \in Numbers(type)
      BY <1>8 DEF no0
    <2>14. \A no : no \in DOMAIN v2.fields <=> no \in Numbers(type) /\ Numbered(more, no) # <<>>
      <3>1. \A no : no \in DOMAIN v.fields <=> no \in Numbers(type) /\ Numbered(s, no) # <<>>
        BY DEF Holds
      <3> QED
        BY <2>11, <2>12, <2>13, <2>16, <3>1
    <2>15. \A no \in DOMAIN v2.fields : Agrees(DescriptorOf(type, no), v2.fields[no], Numbered(more, no))
      <3> SUFFICES ASSUME NEW no \in DOMAIN v2.fields
                   PROVE  Agrees(DescriptorOf(type, no), v2.fields[no], Numbered(more, no))
        OBVIOUS
      <3>1. CASE no = no0
        <4>1. Agrees(d, v2.fields[no], Numbered(more, no))
          BY <2>8, <2>11, <2>13, <3>1
        <4> QED
          BY <3>1, <4>1 DEF d
      <3>2. CASE no # no0
        <4>1. no \in DOMAIN v.fields
          BY <2>13, <3>2
        <4>2. Agrees(DescriptorOf(type, no), v.fields[no], Numbered(s, no))
          BY <4>1 DEF Holds
        <4> QED
          BY <2>12, <2>13, <3>2, <4>1, <4>2
      <3> QED
        BY <3>1, <3>2
    <2> QED
      BY <2>9, <2>10, <2>14, <2>15 DEF Holds, v2, more
  <1> QED
    BY <1>7, <1>8

\* Decoding loses nothing of a message of such wire fields.
LEMMA DecodedHolds ==
  ASSUME NEW type \in DOMAIN Schema, NEW P, \A w \in P : WireFine(type, w), NEW s \in Seq(P)
  PROVE  Holds(type, s, DecodeMessage(type, s))
  <1> DEFINE T == {u \in Seq(P) : Holds(type, u, DecodeMessage(type, u))}
  <1>1. <<>> \in T
    <2>1. <<>> \in Seq(P)
      OBVIOUS
    <2> QED
      BY <2>1, DecodeNothing, HoldsNothing
  <1>2. \A u \in T, x \in P : Append(u, x) \in T
    <2> SUFFICES ASSUME NEW u \in T, NEW x \in P PROVE Append(u, x) \in T
      OBVIOUS
    <2>1. Append(u, x) \in Seq(P)
      BY Appended
    <2>2. Holds(type, Append(u, x), TakeField(type, DecodeMessage(type, u), x))
      BY HoldsOne
    <2>3. DecodeMessage(type, Append(u, x)) = TakeField(type, DecodeMessage(type, u), x)
      BY DecodeOne
    <2> QED
      BY <2>1, <2>2, <2>3
  <1>3. T \in SUBSET Seq(P)
    OBVIOUS
  <1> HIDE DEF T
  <1>4. T = Seq(P)
    BY <1>1, <1>2, <1>3, SeqInductive
  <1> QED
    BY <1>4 DEF T
-----------------------------------------------------------------------------
(* A field of the object onto the wire.                                     *)

\* SetToSeq lists a finite set without repetition.
ListsAll(keys, S) ==
  /\ keys = [k \in 1..Len(keys) |-> keys[k]] /\ Len(keys) \in Nat
  /\ \A k \in 1..Len(keys) : keys[k] \in S
  /\ \A j, k \in 1..Len(keys) : keys[j] = keys[k] => j = k
  /\ \A x \in S : \E k \in 1..Len(keys) : keys[k] = x

\* SetToSeq of a finite set does.
LEMMA SetListed ==
  ASSUME NEW S, IsFiniteSet(S)
  PROVE  ListsAll(SetToSeq(S), S)
  <1> DEFINE n == Cardinality(S)
             keys == SetToSeq(S)
  <1>1. n \in Nat /\ ExistsBijection(1..n, S)
    BY FS_CardinalityType
  <1> HIDE DEF n
  <1>2. \E f \in [1..n -> S] : IsInjective(f)
    <2>1. PICK f : f \in Bijection(1..n, S)
      BY <1>1 DEF ExistsBijection
    <2>2. f \in Injection(1..n, S)
      BY <2>1 DEF Bijection
    <2> QED
      BY <2>2 DEF Injection
  <1>3. keys \in [1..n -> S] /\ IsInjective(keys)
    BY <1>2 DEF SetToSeq, n
  <1> HIDE DEF keys
  <1>4. keys \in Injection(1..n, S)
    BY <1>3 DEF Injection
  <1>5. IsFiniteSet(1..n) /\ Cardinality(1..n) = n
    BY <1>1, FS_Interval
  <1>6. keys \in Surjection(1..n, S)
    <2> DEFINE D == 1..n
    <2>1. keys \in Injection(D, S) /\ Cardinality(D) = Cardinality(S)
      BY <1>4, <1>5 DEF n
    <2> HIDE DEF D
    <2>2. keys \in Surjection(D, S)
      BY <2>1, FS_Injection
    <2> QED
      BY <2>2 DEF D
  <1>7. \A x \in S : \E k \in 1..n : keys[k] = x
    BY <1>6 DEF Surjection
  <1>8. keys = [k \in 1..n |-> keys[k]] /\ DOMAIN keys = 1..n /\ \A k \in 1..n : keys[k] \in S
    BY <1>3
  <1>9. \A j, k \in 1..n : keys[j] = keys[k] => j = k
    BY <1>3, <1>8 DEF IsInjective
  <1>10. Len(keys) = n
    BY <1>1, <1>8, MadeIsSeq
  <1> QED
    BY <1>1, <1>7, <1>8, <1>9, <1>10 DEF ListsAll, keys

\* An object has finitely many keys.
LEMMA KeysFinite ==
  ASSUME NEW P, NEW s \in Seq(P)
  PROVE  IsFiniteSet(KeysOf(s))
  <1> DEFINE n == Len(s)
             S == KeysOf(s)
             D == 1..n
             key(k) == EntryKey(s[k])
             f == [k \in D |-> key(k)]
  <1>1. n \in Nat /\ DOMAIN s = D
    OBVIOUS
  <1>2. S = {key(k) : k \in D}
    BY <1>1 DEF KeysOf
  <1>3. IsFiniteSet(D)
    BY <1>1, FS_Interval
  <1> HIDE DEF n, S, D, key
  <1>4. f \in Surjection(D, S)
    BY <1>2 DEF Surjection
  <1> HIDE DEF f
  <1>5. IsFiniteSet(S)
    BY <1>3, <1>4, FS_Surjection
  <1> QED
    BY <1>5 DEF S

\* A list of fields that are not packed has an element for each.
OnesListed(d, s) ==
  /\ IsSeq(ListMeaning(d, s)) /\ Len(ListMeaning(d, s)) = Len(s)
  /\ \A k \in 1..Len(s) : ListMeaning(d, s)[k] = OneMeaning(d, s[k])

\* And each element is that of one wire field.
LEMMA ListOfOnes ==
  ASSUME NEW d, NEW P, \A w \in P : w.form # "packed", NEW s \in Seq(P)
  PROVE  OnesListed(d, s)
  <1> DEFINE Fine(u) == /\ IsSeq(ListMeaning(d, u)) /\ Len(ListMeaning(d, u)) = Len(u)
                        /\ \A k \in 1..Len(u) : ListMeaning(d, u)[k] = OneMeaning(d, u[k])
             T == {u \in Seq(P) : Fine(u)}
  <1>0. \A w \in P : PartOf(d, w) = <<OneMeaning(d, w)>> /\ IsSeq(PartOf(d, w))
    <2> SUFFICES ASSUME NEW w \in P PROVE PartOf(d, w) = <<OneMeaning(d, w)>> /\ IsSeq(PartOf(d, w))
      OBVIOUS
    <2> DEFINE y == OneMeaning(d, w)
    <2>1. PartOf(d, w) = <<y>>
      BY DEF PartOf
    <2> HIDE DEF y
    <2>2. IsSeq(<<y>>)
      BY Single
    <2> QED
      BY <2>1, <2>2 DEF y
  <1>1. <<>> \in T
    <2>1. <<>> \in Seq(P) /\ Len(<<>>) = 0 /\ (\A i : i \notin 1..0) /\ <<>> \in Seq({})
      OBVIOUS
    <2>2. ListMeaning(d, <<>>) = <<>> /\ IsSeq(<<>>)
      BY <2>1, ListMeaningNothing, SeqIsSeq
    <2> QED
      BY <2>1, <2>2
  <1>2. ASSUME NEW u \in Seq(P), Fine(u), NEW x \in P
        PROVE  Fine(Append(u, x))
    <2> DEFINE more == Append(u, x)
               a == ListMeaning(d, u)
               b == PartOf(d, x)
               c == a \o b
               n == Len(u)
    <2>1. /\ more \in Seq(P) /\ Len(more) = n + 1 /\ n \in Nat
          /\ \A i \in 1..(n + 1) : more[i] = IF i = n + 1 THEN x ELSE u[i]
      BY Appended
    <2>2. ListMeaning(d, more) = c
      <3>1. \A w \in P : IsSeq(PartOf(d, w))
        BY <1>0
      <3>2. ListMeaning(d, Append(u, x)) = ListMeaning(d, u) \o PartOf(d, x)
        BY <3>1, ListMeaningOne, Zenon
      <3> QED
        BY <3>2
    <2>3. IsSeq(a) /\ Len(a) = n /\ \A k \in 1..n : a[k] = OneMeaning(d, u[k])
      BY <1>2
    <2>4. IsSeq(b) /\ Len(b) = 1 /\ b[1] = OneMeaning(d, x)
      <3> DEFINE y == OneMeaning(d, x)
      <3>1. b = <<y>>
        BY <1>0
      <3> HIDE DEF b, y
      <3>2. IsSeq(<<y>>) /\ Len(<<y>>) = 1 /\ <<y>>[1] = y
        BY Single
      <3> QED
        BY <3>1, <3>2 DEF y
    <2> HIDE DEF more, a, b, n
    <2>5. IsSeq(c) /\ Len(c) = n + 1 /\ \A k \in 1..(n + 1) : c[k] = IF k <= n THEN a[k] ELSE b[k - n]
      <3>1. /\ IsSeq(c) /\ Len(c) = Len(a) + Len(b)
            /\ \A k \in 1..(Len(a) + Len(b)) : c[k] = IF k <= Len(a) THEN a[k] ELSE b[k - Len(a)]
        BY <2>3, <2>4, JoinedIsSeq
      <3> HIDE DEF c
      <3> QED
        BY <2>3, <2>4, <3>1
    <2> HIDE DEF c
    <2>6. ASSUME NEW k \in 1..(n + 1) PROVE c[k] = OneMeaning(d, more[k])
      <3>1. CASE k = n + 1
        <4>1. more[k] = x /\ ~(k <= n) /\ k - n = 1
          BY <2>1, <3>1
        <4> QED
          BY <2>4, <2>5, <4>1
      <3>2. CASE k # n + 1
        <4>1. k \in 1..n /\ k <= n /\ more[k] = u[k]
          BY <2>1, <3>2
        <4> QED
          BY <2>3, <2>5, <4>1
      <3> QED
        BY <3>1, <3>2
    <2>7. Fine(more)
      BY <2>1, <2>2, <2>5, <2>6
    <2> QED
      BY <2>7 DEF more
  <1>3. \A u \in T, x \in P : Append(u, x) \in T
    <2> SUFFICES ASSUME NEW u \in T, NEW x \in P PROVE Append(u, x) \in T
      OBVIOUS
    <2>1. Append(u, x) \in Seq(P)
      BY Appended
    <2>2. Fine(u)
      OBVIOUS
    <2> HIDE DEF Fine
    <2>3. Fine(Append(u, x))
      BY <1>2, <2>2
    <2> QED
      BY <2>1, <2>3
  <1>4. T \in SUBSET Seq(P)
    OBVIOUS
  <1> HIDE DEF Fine, T
  <1>5. T = Seq(P)
    BY <1>1, <1>3, <1>4, SeqInductive
  <1> QED
    BY <1>5 DEF T, Fine, OnesListed

\* What is written for a field is all of its number and says what the object
\* holds; only an empty list leaves no trace.
WrittenAs(d, enc, mine) ==
  /\ IsSeq(enc) /\ \A k \in 1..Len(enc) : enc[k].no = d.no
  /\ enc # <<>> => FieldMeaning(d, enc) = FieldMeaning(d, mine)
  /\ enc = <<>> <=> d.kind # "map" /\ d.repeated /\ FieldMeaning(d, mine) = <<>>

LEMMA EmptyLength ==
  ASSUME NEW s, IsSeq(s)
  PROVE  (s = <<>> <=> Len(s) = 0) /\ Len(s) \in Nat
  BY DEF IsSeq

\* One field for each element.
LEMMA EachWritten ==
  ASSUME NEW d, d.kind # "map", d.repeated, NEW x, NEW mine, Agrees(d, x, mine), NEW enc,
         enc = [k \in 1..Len(x) |-> enc[k]],
         \A k \in 1..Len(x) : enc[k].no = d.no /\ enc[k].form # "packed" /\ OneMeaning(d, enc[k]) = MeaningOf(d, x[k])
  PROVE  WrittenAs(d, enc, mine)
  <1> DEFINE n == Len(x)
             a == ListMeaning(d, mine)
             b == ListMeaning(d, enc)
             P == {w \in ToSet(enc) : w.form # "packed"}
  <1>1. IsSeq(x) /\ IsSeq(a) /\ Len(a) = n /\ n \in Nat /\ \A k \in 1..n : MeaningOf(d, x[k]) = a[k]
    BY EmptyLength DEF Agrees
  <1>2. IsSeq(enc) /\ Len(enc) = n
    <2> HIDE DEF n
    <2>1. enc = [k \in 1..n |-> enc[k]]
      BY DEF n
    <2> QED
      BY <1>1, <2>1, MadeIsSeq
  <1>3. enc \in Seq(P)
    <2>1. enc \in Seq(ToSet(enc))
      BY <1>2 DEF IsSeq
    <2>2. \A w \in ToSet(enc) : w.form # "packed"
      <3>1. DOMAIN enc = 1..n
        BY <1>2, <2>1
      <3> HIDE DEF n
      <3>2. \A k \in 1..n : enc[k].form # "packed"
        BY DEF n
      <3> QED
        BY <3>1, <3>2 DEF ToSet
    <2>3. P = ToSet(enc)
      BY <2>2
    <2> HIDE DEF P
    <2> QED
      BY <2>1, <2>3
  <1>4. \A w \in P : w.form # "packed"
    OBVIOUS
  <1> HIDE DEF a, b, P
  <1>5. IsSeq(b) /\ Len(b) = Len(enc) /\ \A k \in 1..Len(enc) : b[k] = OneMeaning(d, enc[k])
    <2>1. OnesListed(d, enc)
      BY <1>3, <1>4, ListOfOnes
    <2> QED
      BY <2>1 DEF OnesListed, b
  <1>6. \A k \in 1..n : enc[k].no = d.no /\ OneMeaning(d, enc[k]) = MeaningOf(d, x[k])
    OBVIOUS
  <1> HIDE DEF n
  <1>7. \A k \in 1..n : b[k] = a[k]
    BY <1>1, <1>2, <1>5, <1>6
  <1>8. a = b
    <2> DEFINE Q == ToSet(a) \cup ToSet(b)
    <2>1. a \in Seq(Q) /\ b \in Seq(Q)
      <3>1. ToSet(a) \in SUBSET Q /\ ToSet(b) \in SUBSET Q /\ a \in Seq(ToSet(a)) /\ b \in Seq(ToSet(b))
        BY <1>1, <1>5 DEF IsSeq
      <3> HIDE DEF Q
      <3> QED
        BY <3>1, SeqWidened
    <2> HIDE DEF Q
    <2> QED
      BY <1>1, <1>2, <1>5, <1>7, <2>1, SameSequence
  <1>9. FieldMeaning(d, enc) = b /\ FieldMeaning(d, mine) = a
    BY DEF FieldMeaning, a, b
  <1>10. (enc = <<>> <=> n = 0) /\ (a = <<>> <=> n = 0)
    BY <1>1, <1>2, EmptyLength
  <1>11. \A k \in 1..Len(enc) : enc[k].no = d.no
    BY <1>2, <1>6
  <1> QED
    BY <1>2, <1>8, <1>9, <1>10, <1>11 DEF WrittenAs
-----------------------------------------------------------------------------
\* A list of messages or texts is written as one field for each.
LEMMA RepeatedWritten ==
  ASSUME NEW d, WellDescribed(d), d.repeated, d.kind = "message" \/ (d.kind = "scalar" /\ d.type = "string"),
         NEW x, NEW mine, Agrees(d, x, mine)
  PROVE  WrittenAs(d, EncodeField(d, x), mine)
  <1> DEFINE n == Len(x)
  <1>1. CASE d.kind = "message"
    <2> DEFINE one(k) == EncodeNested(d, d.no, x[k])
               enc == [k \in 1..n |-> one(k)]
    <2>1. EncodeField(d, x) = enc
      BY <1>1 DEF EncodeField
    <2>2. \A k \in 1..n : one(k).no = d.no /\ one(k).form # "packed" /\ OneMeaning(d, one(k)) = MeaningOf(d, x[k])
      BY <1>1, NestedWritten
    <2> HIDE DEF one, n
    <2>3. enc = [k \in 1..n |-> enc[k]] /\ \A k \in 1..n : enc[k] = one(k)
      OBVIOUS
    <2> HIDE DEF enc
    <2>4. WrittenAs(d, enc, mine)
      BY <1>1, <2>2, <2>3, EachWritten DEF n
    <2> QED
      BY <2>1, <2>4
  <1>2. CASE d.kind = "scalar" /\ d.type = "string"
    <2> DEFINE one(k) == WriteScalar(d.no, d.type, x[k])
               enc == [k \in 1..n |-> one(k)]
    <2>1. EncodeField(d, x) = enc
      BY <1>2 DEF EncodeField
    <2>2. \A k \in 1..n : one(k).no = d.no /\ one(k).form # "packed" /\ OneMeaning(d, one(k)) = MeaningOf(d, x[k])
      <3>1. d.kind # "message" /\ d.type \in ScalarTypes
        BY <1>2 DEF ScalarTypes
      <3>2. ASSUME NEW k PROVE one(k).no = d.no /\ one(k).form # "packed" /\ OneMeaning(d, one(k)) = MeaningOf(d, x[k])
        <4> DEFINE y == x[k]
        <4> HIDE DEF y
        <4>1. /\ OneMeaning(d, WriteScalar(d.no, d.type, y)) = MeaningOf(d, y)
              /\ WriteScalar(d.no, d.type, y).no = d.no /\ WriteScalar(d.no, d.type, y).form # "packed"
          BY <3>1, ScalarWritten
        <4> QED
          BY <4>1 DEF y
      <3> QED
        BY <3>2
    <2> HIDE DEF one, n
    <2>3. enc = [k \in 1..n |-> enc[k]] /\ \A k \in 1..n : enc[k] = one(k)
      OBVIOUS
    <2> HIDE DEF enc
    <2>4. WrittenAs(d, enc, mine)
      BY <1>2, <2>2, <2>3, EachWritten DEF n
    <2> QED
      BY <2>1, <2>4
  <1> QED
    BY <1>1, <1>2

\* A list of numbers is written as one packed field, an empty one as none.
LEMMA PackedWritten ==
  ASSUME NEW d, WellDescribed(d), d.repeated, d.kind = "scalar", d.type # "string",
         NEW x, NEW mine, Agrees(d, x, mine)
  PROVE  WrittenAs(d, EncodeField(d, x), mine)
  <1> DEFINE n == Len(x)
             a == ListMeaning(d, mine)
             numbers == [k \in 1..n |-> EncodeScalar(d.type, x[k])]
             w == Packed(d.no, numbers)
  <1>1. IsSeq(x) /\ IsSeq(a) /\ Len(a) = n /\ n \in Nat /\ \A k \in 1..n : MeaningOf(d, x[k]) = a[k]
    BY EmptyLength DEF Agrees
  <1>2. FieldMeaning(d, mine) = a
    BY DEF FieldMeaning
  <1> HIDE DEF a
  <1>3. CASE x = <<>>
    <2>1. EncodeField(d, x) = <<>>
      BY <1>3 DEF EncodeField
    <2>2. a = <<>>
      BY <1>1, <1>3, EmptyLength
    <2>3. IsSeq(<<>>) /\ Len(<<>>) = 0
      <3>1. <<>> \in Seq({}) /\ Len(<<>>) = 0
        OBVIOUS
      <3> QED
        BY <3>1, SeqIsSeq
    <2>4. \A k : k \notin 1..0
      OBVIOUS
    <2> DEFINE none == <<>>
    <2> HIDE DEF none
    <2>5. EncodeField(d, x) = none /\ IsSeq(none) /\ Len(none) = 0 /\ a = none
      BY <2>1, <2>2, <2>3 DEF none
    <2>6. WrittenAs(d, none, mine)
      BY <1>2, <2>2, <2>3, <2>4 DEF WrittenAs, none
    <2> QED
      BY <2>5, <2>6
  <1>4. CASE x # <<>>
    <2>1. EncodeField(d, x) = <<w>>
      BY <1>4 DEF EncodeField
    <2>2. w.no = d.no /\ w.form = "packed" /\ w.holds = numbers
      BY DEF Packed
    <2> HIDE DEF w
    <2> DEFINE part(k) == ScalarMeaning(d.type, Number(d.no, EncodeScalar(d.type, x[k])))
               b == [k \in 1..n |-> part(k)]
    <2>3. PartOf(d, w) = b
      <3> HIDE DEF n
      <3>1. Len(numbers) = n
        <4>1. numbers = [k \in 1..n |-> numbers[k]]
          OBVIOUS
        <4> HIDE DEF numbers
        <4> QED
          BY <1>1, <4>1, MadeIsSeq
      <3>2. \A k \in 1..n : numbers[k] = EncodeScalar(d.type, x[k])
        OBVIOUS
      <3> HIDE DEF numbers
      <3> DEFINE old(k) == ScalarMeaning(d.type, Number(d.no, numbers[k]))
      <3>3. PartOf(d, w) = [k \in 1..n |-> old(k)]
        BY <2>2, <3>1 DEF PartOf
      <3>4. \A k \in 1..n : old(k) = part(k)
        BY <3>2
      <3> HIDE DEF old, part
      <3> QED
        BY <3>3, <3>4
    <2>4. ASSUME NEW k \in 1..n PROVE part(k) = a[k]
      <3> DEFINE u == Number(d.no, EncodeScalar(d.type, x[k]))
                 v == WireScalar(d.type, x[k])
      <3>1. u.form = "number" /\ u.holds = EncodeScalar(d.type, x[k])
        BY DEF Number
      <3>2. v.form = "number" /\ v.holds = EncodeScalar(d.type, x[k])
        BY DEF WireScalar, FormOf
      <3> HIDE DEF u, v
      <3>3. d.type \in ScalarTypes
        BY DEF WellDescribed
      <3>4. ScalarMeaning(d.type, u) = ScalarMeaning(d.type, v)
        BY <3>1, <3>2 DEF ScalarMeaning
      <3>5. MeaningOf(d, x[k]) = ScalarMeaning(d.type, v)
        BY DEF MeaningOf, v
      <3> QED
        BY <1>1, <3>4, <3>5 DEF u
    <2> HIDE DEF part, n
    <2>5. b = [k \in 1..n |-> b[k]] /\ \A k \in 1..n : b[k] = part(k)
      OBVIOUS
    <2> HIDE DEF b
    <2>6. IsSeq(b) /\ Len(b) = n
      BY <1>1, <2>5, MadeIsSeq
    <2>7. a = b
      <3> DEFINE Q == ToSet(a) \cup ToSet(b)
      <3>1. a \in Seq(Q) /\ b \in Seq(Q)
        <4>1. ToSet(a) \in SUBSET Q /\ ToSet(b) \in SUBSET Q /\ a \in Seq(ToSet(a)) /\ b \in Seq(ToSet(b))
          BY <1>1, <2>6 DEF IsSeq
        <4> HIDE DEF Q
        <4> QED
          BY <4>1, SeqWidened
      <3> HIDE DEF Q
      <3>2. \A k \in 1..n : a[k] = b[k]
        BY <2>4, <2>5
      <3> QED
        BY <1>1, <2>6, <3>1, <3>2, SameSequence
    <2>8. a # <<>>
      BY <1>1, <1>4, EmptyLength DEF n
    <2>9. IsSeq(<<w>>) /\ Len(<<w>>) = 1 /\ <<w>>[1] = w
      BY Single
    <2>10. ListMeaning(d, <<w>>) = b
      <3> DEFINE P == {w}
      <3>1. w \in P /\ <<>> \in Seq(P) /\ <<w>> = Append(<<>>, w)
        OBVIOUS
      <3>2. \A u \in P : IsSeq(PartOf(d, u))
        BY <2>3, <2>6
      <3> HIDE DEF P
      <3>3. ListMeaning(d, Append(<<>>, w)) = ListMeaning(d, <<>>) \o PartOf(d, w)
        BY <3>1, <3>2, ListMeaningOne, Zenon
      <3>4. <<>> \o b = b
        <4>1. b \in Seq(ToSet(b))
          BY <2>6 DEF IsSeq
        <4> QED
          BY <4>1, Associative
      <3>5. ListMeaning(d, <<>>) \o PartOf(d, w) = b
        BY <2>3, <3>4, ListMeaningNothing, Zenon
      <3> QED
        BY <3>1, <3>3, <3>5, Zenon
    <2> DEFINE enc == <<w>>
    <2>11. EncodeField(d, x) = enc
      BY <2>1
    <2>12. IsSeq(enc) /\ Len(enc) = 1 /\ enc[1] = w /\ ListMeaning(d, enc) = b
      BY <2>9, <2>10
    <2> HIDE DEF enc
    <2>13. \A k \in 1..Len(enc) : enc[k].no = d.no
      BY <2>2, <2>12
    <2>14. enc # <<>>
      BY <2>12, EmptyLength
    <2>15. FieldMeaning(d, enc) = a
      BY <2>7, <2>12 DEF FieldMeaning
    <2>16. WrittenAs(d, enc, mine)
      BY <1>2, <2>8, <2>12, <2>13, <2>14, <2>15 DEF WrittenAs
    <2> QED
      BY <2>11, <2>16
  <1> QED
    BY <1>3, <1>4

\* A field of its own.
LEMMA OneWritten ==
  ASSUME NEW d, WellDescribed(d), ~d.repeated, d.kind # "map",
         NEW x, NEW mine, Agrees(d, x, mine)
  PROVE  WrittenAs(d, EncodeField(d, x), mine)
  <1> DEFINE w == IF d.kind = "message" THEN EncodeNested(d, d.no, x) ELSE WriteScalar(d.no, d.type, x)
             enc == <<w>>
  <1>1. EncodeField(d, x) = enc
    BY DEF EncodeField, WellDescribed
  <1>2. OneMeaning(d, w) = MeaningOf(d, x) /\ w.no = d.no
    <2>1. CASE d.kind = "message"
      BY <2>1, NestedWritten
    <2>2. CASE d.kind # "message"
      <3>1. d.type \in ScalarTypes
        BY <2>2 DEF WellDescribed
      <3> QED
        BY <2>2, <3>1, ScalarWritten
    <2> QED
      BY <2>1, <2>2
  <1> HIDE DEF w
  <1>3. IsSeq(enc) /\ Len(enc) = 1 /\ enc[1] = w
    BY Single
  <1> HIDE DEF enc
  <1>4. \A k \in 1..Len(enc) : enc[k].no = d.no
    BY <1>2, <1>3
  <1>5. enc # <<>>
    BY <1>3, EmptyLength
  <1>6. Last(enc) = w
    BY <1>3 DEF Last
  <1>7. FieldMeaning(d, enc) = FieldMeaning(d, mine)
    BY <1>2, <1>6 DEF FieldMeaning, Agrees
  <1>8. WrittenAs(d, enc, mine)
    BY <1>3, <1>4, <1>5, <1>7 DEF WrittenAs
  <1> QED
    BY <1>1, <1>8
-----------------------------------------------------------------------------
\* What an entry written for a key is read as.
EntryRead(d, w, key, x) ==
  /\ w.no = d.no /\ EntryKey(w) = key
  /\ OneMeaning(d.value, EntryValue(d, w)) = MeaningOf(d.value, x)

\* An entry of two fields has each of them.
LEMMA TwoFields ==
  ASSUME NEW a, NEW b, a.no = 1, b.no = 2
  PROVE  LET both == <<a, b>>
         IN Numbered(both, 1) = <<a>> /\ Numbered(both, 2) = <<b>>
  <1> DEFINE P == {a, b}
             none == <<>>
             first == <<a>>
  <1>1. none \in Seq(P) /\ a \in P /\ b \in P /\ first \in Seq(P) /\ first = Append(none, a) /\ <<a, b>> = Append(first, b)
    OBVIOUS
  <1>2. Append(none, b) = <<b>>
    OBVIOUS
  <1>3. \A nos : OfNumbers(none, nos) = none
    BY OfNumbersNothing
  <1> HIDE DEF P, none
  <1>4. \A nos : OfNumbers(first, nos) = IF a.no \in nos THEN Append(none, a) ELSE none
    <2> HIDE DEF first
    <2>1. \A nos : OfNumbers(Append(none, a), nos) = IF a.no \in nos THEN Append(OfNumbers(none, nos), a) ELSE OfNumbers(none, nos)
      BY <1>1, OfNumbersOne
    <2> QED
      BY <1>1, <1>3, <2>1
  <1>5. \A nos : OfNumbers(<<a, b>>, nos) = IF b.no \in nos THEN Append(OfNumbers(first, nos), b) ELSE OfNumbers(first, nos)
    <2> HIDE DEF first
    <2>2. first \in Seq(P) /\ b \in P
      BY <1>1
    <2>1. \A nos : OfNumbers(Append(first, b), nos) = IF b.no \in nos THEN Append(OfNumbers(first, nos), b) ELSE OfNumbers(first, nos)
      BY <2>2, OfNumbersOne
    <2> QED
      BY <1>1, <2>1
  <1>6. a.no \in {1} /\ a.no \notin {2} /\ b.no \in {2} /\ b.no \notin {1}
    OBVIOUS
  <1> DEFINE both == <<a, b>>
  <1>7. \A nos : OfNumbers(both, nos) = IF b.no \in nos THEN Append(OfNumbers(first, nos), b) ELSE OfNumbers(first, nos)
    BY <1>5
  <1> HIDE DEF both, first
  <1>8. OfNumbers(both, {1}) = Append(none, a)
    BY <1>4, <1>6, <1>7
  <1>9. OfNumbers(both, {2}) = Append(none, b)
    BY <1>4, <1>6, <1>7
  <1> QED
    BY <1>1, <1>2, <1>8, <1>9 DEF Numbered, both, first

\* An entry that is written is read with its key and its value.
LEMMA EntryWritten ==
  ASSUME NEW d, WellDescribed(d), d.kind = "map", d.value.kind # "message" => d.value.type # "enum",
         NEW key, NEW x
  PROVE  EntryRead(d, Nested(d.no, <<Text(1, key), WriteMapValue(d.value, x)>>), key, x)
  <1> DEFINE a == Text(1, key)
             b == WriteMapValue(d.value, x)
             both == <<a, b>>
             w == Nested(d.no, both)
  <1>1. a.no = 1 /\ a.holds = key
    BY DEF Text
  <1>2. b.no = 2 /\ OneMeaning(d.value, b) = MeaningOf(d.value, x)
    <2> DEFINE dv == d.value
    <2>1. CASE dv.kind = "message"
      <3>1. b = EncodeNested(dv, 2, x)
        BY <2>1 DEF WriteMapValue
      <3> HIDE DEF dv, b
      <3> QED
        BY <2>1, <3>1, NestedWritten DEF dv
    <2>2. CASE dv.kind # "message"
      <3>1. dv.type \in ScalarTypes /\ dv.type # "enum"
        BY <2>2 DEF WellDescribed
      <3>2. b = WriteScalar(2, dv.type, x)
        BY <2>2, <3>1 DEF WriteMapValue
      <3> HIDE DEF dv, b
      <3> QED
        BY <2>2, <3>1, <3>2, ScalarWritten DEF dv
    <2> QED
      BY <2>1, <2>2
  <1>3. w.no = d.no /\ w.holds = both
    BY DEF Nested
  <1> HIDE DEF a, b, w
  <1>4. Numbered(both, 1) = <<a>> /\ Numbered(both, 2) = <<b>>
    BY <1>1, <1>2, TwoFields
  <1>5. Last(<<a>>) = a /\ <<a>> # <<>> /\ Last(<<b>>) = b /\ <<b>> # <<>>
    <2>1. Len(<<a>>) = 1 /\ Len(<<b>>) = 1 /\ <<a>>[1] = a /\ <<b>>[1] = b /\ <<a>> # <<>> /\ <<b>> # <<>>
      OBVIOUS
    <2> QED
      BY <2>1 DEF Last
  <1> HIDE DEF both
  <1>6. EntryKey(w) = key
    <2>1. LatestOf(both, 1, Text(1, <<>>)) = a
      BY <1>4, <1>5, Zenon DEF LatestOf
    <2> QED
      BY <1>1, <1>3, <2>1 DEF EntryKey
  <1>7. EntryValue(d, w) = b
    <2>1. LatestOf(both, 2, Unset(d.value)) = b
      BY <1>4, <1>5, Zenon DEF LatestOf
    <2> QED
      BY <1>3, <2>1 DEF EntryValue
  <1>8. EntryRead(d, w, key, x)
    BY <1>2, <1>3, <1>6, <1>7 DEF EntryRead
  <1> QED
    BY <1>8 DEF w, both, a, b

\* A map is written as one entry for each key.
LEMMA MapWritten ==
  ASSUME NEW d, WellDescribed(d), d.kind = "map", d.value.kind # "message" => d.value.type # "enum",
         NEW P, NEW mine \in Seq(P), mine # <<>>, NEW x, Agrees(d, x, mine)
  PROVE  WrittenAs(d, EncodeField(d, x), mine)
  <1> DEFINE S == DOMAIN x
             keys == SetToSeq(S)
             n == Len(keys)
             entry(k) == Nested(d.no, <<Text(1, keys[k]), WriteMapValue(d.value, x[keys[k]])>>)
             enc == [k \in 1..n |-> entry(k)]
             a == MapMeaning(d, mine)
             b == MapMeaning(d, enc)
  <1>1. S = KeysOf(mine) /\ \A key \in S : MeaningOf(d.value, x[key]) = a[key]
    BY DEF Agrees
  <1>2. IsFiniteSet(S)
    BY <1>1, KeysFinite
  <1>3. EncodeField(d, x) = enc
    BY DEF EncodeField
  <1>4. FieldMeaning(d, enc) = b /\ FieldMeaning(d, mine) = a
    BY DEF FieldMeaning
  <1> HIDE DEF S
  <1>5. ListsAll(keys, S)
    BY <1>2, SetListed
  <1>6. ASSUME NEW k \in 1..n PROVE EntryRead(d, entry(k), keys[k], x[keys[k]])
    <2> DEFINE key == keys[k]
               y == x[key]
    <2> HIDE DEF key, y
    <2>1. EntryRead(d, Nested(d.no, <<Text(1, key), WriteMapValue(d.value, y)>>), key, y)
      BY EntryWritten
    <2> QED
      BY <2>1 DEF key, y
  <1> HIDE DEF keys, entry, n
  <1>7. /\ n \in Nat /\ \A k \in 1..n : keys[k] \in S
        /\ \A j, k \in 1..n : keys[j] = keys[k] => j = k
        /\ \A key \in S : \E k \in 1..n : keys[k] = key
    BY <1>5 DEF ListsAll, n
  <1>8. enc = [k \in 1..n |-> enc[k]] /\ DOMAIN enc = 1..n /\ \A k \in 1..n : enc[k] = entry(k)
    OBVIOUS
  <1> HIDE DEF enc, a, b
  <1>9. IsSeq(enc) /\ Len(enc) = n
    BY <1>7, <1>8, MadeIsSeq
  <1>10. \A k \in 1..n : EntryKey(enc[k]) = keys[k] /\ enc[k].no = d.no
                         /\ OneMeaning(d.value, EntryValue(d, enc[k])) = MeaningOf(d.value, x[keys[k]])
    BY <1>6, <1>8 DEF EntryRead
  <1>11. KeysOf(enc) = S
    BY <1>7, <1>8, <1>10 DEF KeysOf
  <1>12. ASSUME NEW key \in S PROVE b[key] = a[key]
    <2>1. PICK k \in 1..n : keys[k] = key
      BY <1>7
    <2>2. k \in DOMAIN enc /\ DOMAIN enc \subseteq Int /\ EntryKey(enc[k]) = key
      BY <1>8, <1>10, <2>1
    <2>3. \A j \in DOMAIN enc : EntryKey(enc[j]) = key => j <= k
      BY <1>7, <1>8, <1>10, <2>1
    <2>4. MapMeaning(d, enc)[key] = OneMeaning(d.value, EntryValue(d, enc[k]))
      BY <2>2, <2>3, LatestAt
    <2> QED
      BY <1>1, <1>10, <2>1, <2>4 DEF b
  <1>13. a = b
    <2>1. a = [key \in KeysOf(mine) |-> a[key]]
      BY MapMeaningKeys DEF a
    <2>2. b = [key \in KeysOf(enc) |-> b[key]]
      BY MapMeaningKeys DEF b
    <2> QED
      BY <1>1, <1>11, <1>12, <2>1, <2>2
  <1>14. n # 0
    <2>1. IsSeq(mine) /\ DOMAIN mine = 1..Len(mine)
      BY SeqIsSeq
    <2>2. Len(mine) \in Nat /\ Len(mine) # 0
      BY <2>1, EmptyLength
    <2>3. 1 \in DOMAIN mine
      BY <2>1, <2>2
    <2>4. EntryKey(mine[1]) \in S
      BY <1>1, <2>3 DEF KeysOf
    <2> QED
      BY <1>7, <2>4
  <1>15. enc # <<>>
    BY <1>9, <1>14, EmptyLength
  <1>16. \A k \in 1..Len(enc) : enc[k].no = d.no
    BY <1>9, <1>10
  <1>17. WrittenAs(d, enc, mine)
    BY <1>4, <1>9, <1>13, <1>15, <1>16 DEF WrittenAs
  <1> QED
    BY <1>3, <1>17

\* A field of any kind is written as its wire fields were meant.
LEMMA FieldWritten ==
  ASSUME NEW d, WellDescribed(d), NEW P, \A u \in P : FieldFine(d, u),
         NEW mine \in Seq(P), mine # <<>>, NEW x, Agrees(d, x, mine)
  PROVE  WrittenAs(d, EncodeField(d, x), mine)
  <1>1. CASE d.kind = "map"
    <2>1. \E u : u \in P
      <3>1. Len(mine) \in Nat /\ Len(mine) # 0
        BY SeqIsSeq, EmptyLength
      <3>2. 1 \in 1..Len(mine)
        BY <3>1
      <3>3. mine[1] \in P
        BY <3>2
      <3> QED
        BY <3>3
    <2>2. d.value.kind # "message" => d.value.type # "enum"
      BY <1>1, <2>1 DEF FieldFine
    <2> QED
      BY <1>1, <2>2, MapWritten
  <1>2. CASE d.kind # "map" /\ ~d.repeated
    BY <1>2, OneWritten
  <1>3. CASE d.kind # "map" /\ d.repeated /\ (d.kind = "message" \/ d.type = "string")
    <2>1. d.kind = "message" \/ (d.kind = "scalar" /\ d.type = "string")
      BY <1>3 DEF WellDescribed
    <2> QED
      BY <1>3, <2>1, RepeatedWritten
  <1>4. CASE d.kind # "map" /\ d.repeated /\ d.kind # "message" /\ d.type # "string"
    <2>1. d.kind = "scalar"
      BY <1>4 DEF WellDescribed
    <2> QED
      BY <1>4, <2>1, PackedWritten
  <1>5. d.repeated \in BOOLEAN
    BY DEF WellDescribed
  <1> QED
    BY <1>1, <1>2, <1>3, <1>4, <1>5
-----------------------------------------------------------------------------
(* The message onto the wire.                                               *)

\* Wire fields that all have one number.
AllNumbered(s, no) == IsSeq(s) /\ \A k \in 1..Len(s) : s[k].no = no

\* What an object has beside its described fields.
FitToWrite(type, v) ==
  /\ IsSeq(v.unknown) /\ \A w \in ToSet(v.unknown) : w.no \notin Numbers(type)
  /\ \A d \in ToSet(Schema[type]) : d.no \in DOMAIN v.fields => AllNumbered(EncodeField(d, v.fields[d.no]), d.no)

FieldOnWire(d, v) == IF d.no \in DOMAIN v.fields THEN EncodeField(d, v.fields[d.no]) ELSE <<>>

\* Where all have one number, all or none are found.
LEMMA NumberedAll ==
  ASSUME NEW s, NEW no, AllNumbered(s, no), NEW nos
  PROVE  OfNumbers(s, nos) = IF no \in nos THEN s ELSE <<>>
  <1> DEFINE P == ToSet(s)
  <1>1. s \in Seq(P)
    BY DEF AllNumbered, IsSeq
  <1>2. DOMAIN s = 1..Len(s)
    BY <1>1
  <1>3. \A w \in P : w.no = no
    BY <1>2 DEF AllNumbered, ToSet
  <1> HIDE DEF P
  <1>4. CASE no \in nos
    <2>1. \A w \in P : w.no \in nos
      BY <1>3, <1>4
    <2>2. OfNumbers(s, nos) = s
      BY <1>1, <2>1, OfNumbersAll
    <2> QED
      BY <1>4, <2>2
  <1>5. CASE no \notin nos
    <2>1. \A w \in P : w.no \notin nos
      BY <1>3, <1>5
    <2>2. OfNumbers(s, nos) = <<>>
      BY <1>1, <2>1, OfNumbersNone
    <2> QED
      BY <1>5, <2>2
  <1> QED
    BY <1>4, <1>5

\* On the wire each described field is found as it was written, and what the
\* schema lacks as it was.
OnWire(type, v, enc) ==
  /\ Lacking(type, enc) = v.unknown
  /\ \A d \in ToSet(Schema[type]) : Numbered(enc, d.no) = FieldOnWire(d, v)

\* encodeMessage (message-codec.ts:212) mixes no two fields up and loses none.
LEMMA MessageOnWire ==
  ASSUME NEW type \in DOMAIN Schema, NEW v, FitToWrite(type, v)
  PROVE  OnWire(type, v, EncodeMessage(type, v))
  <1> DEFINE ds == Schema[type]
             m == Len(ds)
             piece(k) == FieldOnWire(ds[k], v)
             pieces == [k \in 1..m |-> piece(k)]
             unknown == v.unknown
             enc == FlattenSeq(pieces) \o unknown
             A == UNION {ToSet(piece(k)) : k \in 1..m}
             B == ToSet(unknown)
             U == A \cup B
             known == Numbers(type)
  <1>0. EncodeMessage(type, v) = enc
    BY DEF EncodeMessage, FieldOnWire
  <1>1. m \in Nat /\ DOMAIN ds = 1..m
    <2>1. ds \in Seq(ToSet(ds))
      BY SchemaAssumption
    <2> HIDE DEF ds
    <2> QED
      BY <2>1
  <1>2. \A k \in 1..m : ds[k] \in ToSet(ds) /\ ds[k].no \in known
    <2>1. \A k \in 1..m : ds[k] \in ToSet(ds)
      BY <1>1 DEF ToSet
    <2> QED
      BY <2>1, Descriptors
  <1>3. \A j, k \in 1..m : ds[j].no = ds[k].no => j = k
    BY <1>1, SchemaAssumption
  <1>4. unknown \in Seq(B) /\ \A w \in B : w.no \notin known
    BY DEF FitToWrite, IsSeq
  <1>5. ASSUME NEW k \in 1..m PROVE AllNumbered(piece(k), ds[k].no)
    <2>1. CASE ds[k].no \in DOMAIN v.fields
      <3>1. piece(k) = EncodeField(ds[k], v.fields[ds[k].no])
        BY <2>1 DEF FieldOnWire
      <3> QED
        BY <1>2, <2>1, <3>1 DEF FitToWrite
    <2>2. CASE ds[k].no \notin DOMAIN v.fields
      <3>1. piece(k) = <<>>
        BY <2>2 DEF FieldOnWire
      <3>2. <<>> \in Seq({}) /\ Len(<<>>) = 0 /\ \A i : i \notin 1..0
        OBVIOUS
      <3>3. AllNumbered(<<>>, ds[k].no)
        BY <3>2, SeqIsSeq DEF AllNumbered
      <3> QED
        BY <3>1, <3>3
    <2> QED
      BY <2>1, <2>2
  <1> HIDE DEF ds, m, piece, known
  <1>6. \A k \in 1..m : piece(k) \in Seq(A)
    <2> SUFFICES ASSUME NEW k \in 1..m PROVE piece(k) \in Seq(A)
      OBVIOUS
    <2>1. piece(k) \in Seq(ToSet(piece(k)))
      BY <1>5 DEF AllNumbered, IsSeq
    <2>2. ToSet(piece(k)) \in SUBSET A
      OBVIOUS
    <2> HIDE DEF A
    <2> QED
      BY <2>1, <2>2, SeqWidened
  <1>7. \A w \in A : w.no \in known
    <2> SUFFICES ASSUME NEW w \in A PROVE w.no \in known
      OBVIOUS
    <2>1. PICK k \in 1..m : w \in ToSet(piece(k))
      OBVIOUS
    <2>2. DOMAIN piece(k) = 1..Len(piece(k))
      <3>1. piece(k) \in Seq(A)
        BY <1>6
      <3> HIDE DEF A
      <3> QED
        BY <3>1
    <2>3. w.no = ds[k].no
      BY <1>5, <2>1, <2>2 DEF AllNumbered, ToSet
    <2> QED
      BY <1>2, <2>3
  <1>8. pieces \in Seq(Seq(A)) /\ Len(pieces) = m /\ \A k \in 1..m : pieces[k] = piece(k)
    <2> DEFINE Q == Seq(A)
    <2>1. \A k \in 1..m : piece(k) \in Q
      BY <1>6
    <2> HIDE DEF Q
    <2>2. pieces \in Seq(Q) /\ Len(pieces) = m /\ \A k \in 1..m : pieces[k] = piece(k)
      BY <1>1, <2>1
    <2> QED
      BY <2>2 DEF Q
  <1> HIDE DEF A, B, pieces
  <1> DEFINE all == FlattenSeq(pieces)
  <1>9. all \in Seq(A)
    BY <1>8, FlattenTyped
  <1>10. all \in Seq(U) /\ unknown \in Seq(U)
    <2>1. A \in SUBSET U /\ B \in SUBSET U
      OBVIOUS
    <2> HIDE DEF U
    <2> QED
      BY <1>4, <1>9, <2>1, SeqWidened
  <1> HIDE DEF unknown
  <1>11. enc \in Seq(U) /\ \A nos : OfNumbers(enc, nos) = OfNumbers(all, nos) \o OfNumbers(unknown, nos)
    <2> HIDE DEF U, all
    <2>1. all \o unknown \in Seq(U)
      BY <1>10, Concatenated
    <2>2. \A nos : OfNumbers(all \o unknown, nos) = OfNumbers(all, nos) \o OfNumbers(unknown, nos)
      BY <1>10, OfNumbersJoined
    <2> QED
      BY <2>1, <2>2 DEF all
  <1> HIDE DEF all, enc
  <1>12. Lacking(type, enc) = unknown
    <2> DEFINE lacks == {w.no : w \in U} \ known
    <2>1. Lacking(type, enc) = OfNumbers(enc, lacks)
      BY <1>11, LackingOf DEF known
    <2>2. (\A w \in A : w.no \notin lacks) /\ (\A w \in B : w.no \in lacks)
      BY <1>4, <1>7
    <2> HIDE DEF lacks, U
    <2>3. OfNumbers(all, lacks) = <<>>
      BY <1>9, <2>2, OfNumbersNone
    <2>4. OfNumbers(unknown, lacks) = unknown
      BY <1>4, <2>2, OfNumbersAll
    <2>5. <<>> \o unknown = unknown
      BY <1>4, Associative
    <2>6. Lacking(type, enc) = OfNumbers(all, lacks) \o OfNumbers(unknown, lacks)
      BY <1>11, <2>1
    <2> QED
      BY <2>3, <2>4, <2>5, <2>6, Zenon
  <1>13. ASSUME NEW i \in 1..m PROVE Numbered(enc, ds[i].no) = piece(i)
    <2> DEFINE no == ds[i].no
               nos == {no}
    <2>1. OfNumbers(piece(i), nos) = piece(i)
      BY <1>5, NumberedAll
    <2>2. \A k \in 1..m : k # i => OfNumbers(piece(k), nos) = <<>>
      <3> SUFFICES ASSUME NEW k \in 1..m, k # i PROVE OfNumbers(piece(k), nos) = <<>>
        OBVIOUS
      <3>1. ds[k].no \notin nos
        BY <1>3
      <3> HIDE DEF nos
      <3> QED
        BY <1>5, <3>1, NumberedAll
    <2>3. \A w \in B : w.no \notin nos
      BY <1>2, <1>4
    <2> HIDE DEF nos
    <2>4. Elsewhere(pieces, i, nos)
      BY <1>8, <2>2 DEF Elsewhere
    <2>5. i \in 0..Len(pieces) /\ i # 0
      BY <1>1, <1>8
    <2>6. OfNumbers(all, nos) = OfNumbers(pieces[i], nos)
      BY <1>8, <2>4, <2>5, OfNumbersInOne DEF all
    <2>7. OfNumbers(unknown, nos) = <<>>
      BY <1>4, <2>3, OfNumbersNone
    <2>8. OfNumbers(all, nos) = piece(i)
      BY <1>8, <2>1, <2>6
    <2>9. piece(i) \o <<>> = piece(i)
      BY <1>6, Associative
    <2>10. OfNumbers(enc, nos) = OfNumbers(all, nos) \o OfNumbers(unknown, nos)
      BY <1>11
    <2>11. OfNumbers(enc, nos) = piece(i)
      BY <2>7, <2>8, <2>9, <2>10, Zenon
    <2> QED
      BY <2>11 DEF Numbered, nos
  <1>14. \A d \in ToSet(ds) : Numbered(enc, d.no) = FieldOnWire(d, v)
    <2> SUFFICES ASSUME NEW d \in ToSet(ds) PROVE Numbered(enc, d.no) = FieldOnWire(d, v)
      OBVIOUS
    <2>1. PICK i \in 1..m : d = ds[i]
      BY <1>1 DEF ToSet
    <2> QED
      BY <1>13, <2>1 DEF piece
  <1>15. OnWire(type, v, enc)
    BY <1>12, <1>14 DEF OnWire, unknown, ds
  <1> QED
    BY <1>0, <1>15 DEF enc, all
-----------------------------------------------------------------------------
(* A message that is decoded and encoded says what it said.                 *)

\* The object with its field e, at most, another.
EditedAt(type, v, v2, e) ==
  /\ v2.unknown = v.unknown
  /\ \A no : no # e => (no \in DOMAIN v2.fields <=> no \in DOMAIN v.fields)
  /\ \A no \in DOMAIN v.fields : no # e => v2.fields[no] = v.fields[no]
  /\ \A d \in ToSet(Schema[type]) :
       d.no = e /\ e \in DOMAIN v2.fields => AllNumbered(EncodeField(d, v2.fields[e]), e)

\* One message says what the other does, but for the field e.
SaysSame(type, was, is, e) ==
  /\ Meaning(type, is).unknown = Meaning(type, was).unknown
  /\ \A no \in DOMAIN Meaning(type, was).fields : no # e =>
       no \in DOMAIN Meaning(type, is).fields /\ Meaning(type, is).fields[no] = Meaning(type, was).fields[no]
  /\ DOMAIN Meaning(type, is).fields \subseteq DOMAIN Meaning(type, was).fields \cup {e}

\* A field that says something.
Speaks(d, mine) == mine # <<>> /\ (d.kind # "map" /\ d.repeated => FieldMeaning(d, mine) # <<>>)

\* What a message says, field by field.
LEMMA MeaningFields ==
  ASSUME NEW type \in DOMAIN Schema, NEW s
  PROVE  /\ \A no : no \in DOMAIN Meaning(type, s).fields
                      <=> no \in Numbers(type) /\ Speaks(DescriptorOf(type, no), Numbered(s, no))
         /\ \A no \in DOMAIN Meaning(type, s).fields :
              Meaning(type, s).fields[no] = FieldMeaning(DescriptorOf(type, no), Numbered(s, no))
         /\ Meaning(type, s).unknown = Lacking(type, s)
         /\ Meaning(type, s) = [fields |-> Meaning(type, s).fields, unknown |-> Meaning(type, s).unknown]
         /\ Meaning(type, s).fields = [no \in DOMAIN Meaning(type, s).fields |-> Meaning(type, s).fields[no]]
  <1> DEFINE S == {d.no : d \in Says(type, s)}
             at(no) == FieldMeaning(DescriptorOf(type, no), Numbered(s, no))
             f == [no \in S |-> at(no)]
             u == Lacking(type, s)
  <1>1. Meaning(type, s) = [fields |-> f, unknown |-> u]
    BY DEF Meaning
  <1>2. \A no : no \in S <=> no \in Numbers(type) /\ Speaks(DescriptorOf(type, no), Numbered(s, no))
    <2>1. \A d \in ToSet(Schema[type]) : d \in Says(type, s) <=> Speaks(d, Numbered(s, d.no))
      BY DEF Says, Speaks
    <2>2. \A d \in Says(type, s) : d \in ToSet(Schema[type])
      BY DEF Says
    <2>3. ASSUME NEW no \in S PROVE no \in Numbers(type) /\ Speaks(DescriptorOf(type, no), Numbered(s, no))
      <3>1. PICK d \in Says(type, s) : d.no = no
        OBVIOUS
      <3> QED
        BY <2>1, <2>2, <3>1, Descriptors
    <2>4. ASSUME NEW no \in Numbers(type), Speaks(DescriptorOf(type, no), Numbered(s, no)) PROVE no \in S
      <3> DEFINE d == DescriptorOf(type, no)
      <3>1. d \in ToSet(Schema[type]) /\ d.no = no
        BY DescriptorKnown
      <3> HIDE DEF d
      <3>2. d \in Says(type, s)
        BY <2>1, <2>4, <3>1 DEF d
      <3> QED
        BY <3>1, <3>2
    <2> HIDE DEF S
    <2> QED
      BY <2>3, <2>4
  <1> HIDE DEF S, at, u
  <1>3. DOMAIN f = S /\ (\A no \in S : f[no] = at(no)) /\ f = [no \in DOMAIN f |-> f[no]]
    OBVIOUS
  <1> HIDE DEF f
  <1>4. Meaning(type, s).fields = f /\ Meaning(type, s).unknown = u
    BY <1>1
  <1> QED
    BY <1>1, <1>2, <1>3, <1>4 DEF at, u

\* A field of the decoded object is written as it came.
LEMMA DecodedFits ==
  ASSUME NEW type \in DOMAIN Schema, NEW P, \A w \in P : WireFine(type, w), NEW s \in Seq(P),
         NEW no \in DOMAIN DecodeMessage(type, s).fields
  PROVE  /\ no \in Numbers(type) /\ Numbered(s, no) # <<>>
         /\ WrittenAs(DescriptorOf(type, no), EncodeField(DescriptorOf(type, no), DecodeMessage(type, s).fields[no]),
                      Numbered(s, no))
  <1> DEFINE v == DecodeMessage(type, s)
             d == DescriptorOf(type, no)
             mine == Numbered(s, no)
             Q == {w \in P : w.no \in {no}}
             x == v.fields[no]
  <1>1. Holds(type, s, v)
    BY DecodedHolds
  <1> HIDE DEF v
  <1>2. no \in Numbers(type) /\ mine # <<>> /\ Agrees(d, x, mine)
    <2>1. no \in DOMAIN v.fields
      BY DEF v
    <2> QED
      BY <1>1, <2>1 DEF Holds
  <1>3. d \in ToSet(Schema[type]) /\ d.no = no
    BY <1>2, DescriptorKnown
  <1>4. WellDescribed(d)
    BY <1>3, Descriptors
  <1>5. \A u \in Q : FieldFine(d, u)
    BY <1>2 DEF WireFine
  <1>6. mine \in Seq(Q)
    BY OfNumbersFrom DEF Numbered
  <1> HIDE DEF d, mine, Q, x
  <1>7. WrittenAs(d, EncodeField(d, x), mine)
    BY <1>2, <1>4, <1>5, <1>6, FieldWritten
  <1> QED
    BY <1>2, <1>7 DEF d, mine, x, v

\* At one level of nesting: a message decoded, with one field of the object another
\* and encoded again, says what it said but for that field.
LEMMA Level ==
  ASSUME NEW type \in DOMAIN Schema, NEW P, \A w \in P : WireFine(type, w), NEW s \in Seq(P),
         NEW e, NEW v2, EditedAt(type, DecodeMessage(type, s), v2, e)
  PROVE  SaysSame(type, s, EncodeMessage(type, v2), e)
  <1> DEFINE v == DecodeMessage(type, s)
             enc == EncodeMessage(type, v2)
             lacks == {w.no : w \in P} \ Numbers(type)
  <1>1. Holds(type, s, v)
    BY DecodedHolds
  <1>2. v.unknown = OfNumbers(s, lacks)
    BY <1>1, LackingOf DEF Holds
  <1>3. v.unknown \in Seq({w \in P : w.no \in lacks})
    BY <1>2, OfNumbersFrom
  <1> HIDE DEF v
  <1>4. IsSeq(v.unknown) /\ \A w \in ToSet(v.unknown) : w.no \notin Numbers(type)
    <2> DEFINE Q == {w \in P : w.no \in lacks}
    <2>1. \A w \in Q : w.no \notin Numbers(type)
      OBVIOUS
    <2>2. v.unknown \in Seq(Q)
      BY <1>3
    <2> HIDE DEF Q
    <2>3. IsSeq(v.unknown) /\ ToSet(v.unknown) \subseteq Q
      BY <2>2, SeqIsSeq
    <2> QED
      BY <2>1, <2>3
  <1> HIDE DEF lacks
  <1>5. /\ v2.unknown = v.unknown
        /\ \A no : no # e => (no \in DOMAIN v2.fields <=> no \in DOMAIN v.fields)
        /\ \A no \in DOMAIN v.fields : no # e => v2.fields[no] = v.fields[no]
        /\ \A d \in ToSet(Schema[type]) :
             d.no = e /\ e \in DOMAIN v2.fields => AllNumbered(EncodeField(d, v2.fields[e]), e)
    BY DEF EditedAt, v
  <1>6. \A no : no \in DOMAIN v.fields <=> no \in Numbers(type) /\ Numbered(s, no) # <<>>
    BY <1>1 DEF Holds
  <1>7. \A no \in DOMAIN v.fields :
           WrittenAs(DescriptorOf(type, no), EncodeField(DescriptorOf(type, no), v.fields[no]), Numbered(s, no))
    BY DecodedFits DEF v
  <1>8. ASSUME NEW d \in ToSet(Schema[type]), d.no \in DOMAIN v2.fields
        PROVE  AllNumbered(EncodeField(d, v2.fields[d.no]), d.no)
    <2>1. CASE d.no = e
      BY <1>5, <1>8, <2>1
    <2>2. CASE d.no # e
      <3>1. d.no \in DOMAIN v.fields /\ v2.fields[d.no] = v.fields[d.no]
        BY <1>5, <1>8, <2>2
      <3>2. DescriptorOf(type, d.no) = d
        BY Descriptors
      <3>3. WrittenAs(d, EncodeField(d, v.fields[d.no]), Numbered(s, d.no))
        BY <1>7, <3>1, <3>2
      <3> QED
        BY <3>1, <3>3 DEF WrittenAs, AllNumbered
    <2> QED
      BY <2>1, <2>2
  <1>9. FitToWrite(type, v2)
    BY <1>4, <1>5, <1>8 DEF FitToWrite
  <1>10. Lacking(type, enc) = v2.unknown /\ \A d \in ToSet(Schema[type]) : Numbered(enc, d.no) = FieldOnWire(d, v2)
    BY <1>9, MessageOnWire DEF OnWire
  <1> HIDE DEF enc
  <1>11. Lacking(type, enc) = Lacking(type, s)
    BY <1>1, <1>5, <1>10 DEF Holds
  <1>12. ASSUME NEW no \in Numbers(type), no # e
         PROVE  LET d == DescriptorOf(type, no)
                IN /\ Speaks(d, Numbered(enc, no)) <=> Speaks(d, Numbered(s, no))
                   /\ Speaks(d, Numbered(s, no)) => FieldMeaning(d, Numbered(enc, no)) = FieldMeaning(d, Numbered(s, no))
    <2> DEFINE d == DescriptorOf(type, no)
               old == Numbered(s, no)
               new == Numbered(enc, no)
    <2>1. d \in ToSet(Schema[type]) /\ d.no = no
      BY DescriptorKnown
    <2>2. new = FieldOnWire(d, v2)
      BY <1>10, <2>1
    <2> HIDE DEF new, old
    <2>3. CASE no \notin DOMAIN v.fields
      <3>1. old = <<>>
        BY <1>6, <2>3 DEF old
      <3>2. new = <<>>
        <4> HIDE DEF d
        <4> QED
          BY <1>5, <1>12, <2>1, <2>2, <2>3 DEF FieldOnWire
      <3> QED
        BY <3>1, <3>2 DEF Speaks, old, new
    <2>4. CASE no \in DOMAIN v.fields
      <3>1. old # <<>>
        BY <1>6, <2>4 DEF old
      <3>2. WrittenAs(d, EncodeField(d, v.fields[no]), old)
        BY <1>7, <2>4 DEF old
      <3> HIDE DEF d
      <3>3. new = EncodeField(d, v.fields[no])
        BY <1>5, <1>12, <2>1, <2>2, <2>4 DEF FieldOnWire
      <3>4. WrittenAs(d, new, old)
        BY <3>2, <3>3
      <3>5. (Speaks(d, new) <=> Speaks(d, old)) /\ (Speaks(d, old) => FieldMeaning(d, new) = FieldMeaning(d, old))
        BY <3>1, <3>4 DEF WrittenAs, Speaks
      <3> QED
        BY <3>5 DEF d, old, new
    <2> QED
      BY <2>3, <2>4
  <1> DEFINE was == Meaning(type, s)
             is == Meaning(type, enc)
  <1>13. /\ \A no : no \in DOMAIN was.fields <=> no \in Numbers(type) /\ Speaks(DescriptorOf(type, no), Numbered(s, no))
         /\ \A no \in DOMAIN was.fields : was.fields[no] = FieldMeaning(DescriptorOf(type, no), Numbered(s, no))
         /\ was.unknown = Lacking(type, s)
    BY MeaningFields
  <1>14. /\ \A no : no \in DOMAIN is.fields <=> no \in Numbers(type) /\ Speaks(DescriptorOf(type, no), Numbered(enc, no))
         /\ \A no \in DOMAIN is.fields : is.fields[no] = FieldMeaning(DescriptorOf(type, no), Numbered(enc, no))
         /\ is.unknown = Lacking(type, enc)
    BY MeaningFields
  <1> HIDE DEF was, is
  <1>15. is.unknown = was.unknown
    BY <1>11, <1>13, <1>14
  <1>16. ASSUME NEW no \in DOMAIN was.fields, no # e PROVE no \in DOMAIN is.fields /\ is.fields[no] = was.fields[no]
    BY <1>12, <1>13, <1>14, <1>16
  <1>17. DOMAIN is.fields \subseteq DOMAIN was.fields \cup {e}
    BY <1>12, <1>13, <1>14
  <1>18. SaysSame(type, s, enc, e)
    BY <1>15, <1>16, <1>17 DEF SaysSame, was, is
  <1> QED
    BY <1>18 DEF enc

\* Without an edit the meaning is the same.
LEMMA LevelKept ==
  ASSUME NEW type \in DOMAIN Schema, NEW P, \A w \in P : WireFine(type, w), NEW s \in Seq(P)
  PROVE  Meaning(type, EncodeMessage(type, DecodeMessage(type, s))) = Meaning(type, s)
  <1> DEFINE v == DecodeMessage(type, s)
             enc == EncodeMessage(type, v)
             was == Meaning(type, s)
             is == Meaning(type, enc)
  <1>1. \A d \in ToSet(Schema[type]) : d.no # 0
    BY Descriptors DEF WellDescribed
  <1>2. \A no \in Numbers(type) : no # 0
    BY <1>1 DEF Numbers
  <1>3. EditedAt(type, v, v, 0)
    BY <1>1 DEF EditedAt
  <1>4. SaysSame(type, s, enc, 0)
    BY <1>3, Level
  <1> HIDE DEF enc
  <1>5. /\ \A no \in DOMAIN is.fields : no \in Numbers(type)
        /\ is = [fields |-> is.fields, unknown |-> is.unknown]
        /\ is.fields = [no \in DOMAIN is.fields |-> is.fields[no]]
    BY MeaningFields
  <1>6. /\ \A no \in DOMAIN was.fields : no \in Numbers(type)
        /\ was = [fields |-> was.fields, unknown |-> was.unknown]
        /\ was.fields = [no \in DOMAIN was.fields |-> was.fields[no]]
    BY MeaningFields
  <1>7. /\ is.unknown = was.unknown
        /\ \A no \in DOMAIN was.fields : no # 0 => no \in DOMAIN is.fields /\ is.fields[no] = was.fields[no]
        /\ DOMAIN is.fields \subseteq DOMAIN was.fields \cup {0}
    BY <1>4 DEF SaysSame
  <1> HIDE DEF was, is
  <1>8. DOMAIN is.fields = DOMAIN was.fields
    BY <1>2, <1>5, <1>6, <1>7
  <1>9. \A no \in DOMAIN was.fields : is.fields[no] = was.fields[no]
    BY <1>2, <1>6, <1>7
  <1>10. is.fields = was.fields
    <2> DEFINE f == is.fields
               g == was.fields
    <2>1. f = [no \in DOMAIN f |-> f[no]] /\ g = [no \in DOMAIN g |-> g[no]] /\ DOMAIN f = DOMAIN g
          /\ \A no \in DOMAIN g : f[no] = g[no]
      BY <1>5, <1>6, <1>8, <1>9
    <2> HIDE DEF f, g
    <2> QED
      BY <2>1 DEF f, g
  <1>11. is = was
    <2>1. is = [fields |-> is.fields, unknown |-> is.unknown] /\ was = [fields |-> was.fields, unknown |-> was.unknown]
      BY <1>5, <1>6
    <2> QED
      BY <1>7, <1>10, <2>1
  <1> QED
    BY <1>11 DEF is, was, enc
-----------------------------------------------------------------------------
(* The messages that are kept.                                              *)

\* A default is in the form of its type.
LEMMA UnsetProper ==
  ASSUME NEW dv, dv.kind = "message" \/ (dv.kind = "scalar" /\ dv.type \in ScalarTypes)
  PROVE  ProperOne(dv, Unset(dv))
  <1>1. 0 \in 0..(Half - 1) /\ 0 \in 0..(Word - 1)
    BY Halves
  <1>2. CASE dv.kind = "message"
    BY <1>2 DEF Unset, Nested, ProperOne
  <1>3. CASE dv.kind # "message" /\ dv.type = "string"
    <2>1. Unset(dv).form = "text" /\ Unset(dv).holds = <<>>
      BY <1>3 DEF Unset, Text
    <2>2. <<>> \in Seq(ToSet(<<>>))
      OBVIOUS
    <2> QED
      BY <1>3, <2>1, <2>2 DEF ProperOne
  <1>4. CASE dv.kind # "message" /\ dv.type # "string"
    <2>1. Unset(dv).form = "number" /\ Unset(dv).holds = 0
      BY <1>4 DEF Unset, Number
    <2>2. ProperScalar(dv.type, 0)
      BY <1>1, <1>4 DEF ProperScalar
    <2> QED
      BY <1>4, <2>1, <2>2 DEF ProperOne
  <1> QED
    BY <1>2, <1>3, <1>4

\* So is what an entry is read for, whether it is there or not.
LEMMA EntryProper ==
  ASSUME NEW d, WellDescribed(d), d.kind = "map", NEW w, Proper(d, w)
  PROVE  ProperOne(d.value, EntryValue(d, w))
  <1> DEFINE s == w.holds
             S == ToSet(s)
             Q == {u \in S : u.no \in {2}}
             two == Numbered(s, 2)
  <1>1. s \in Seq(S) /\ \A k \in DOMAIN s : s[k].no = 2 => ProperOne(d.value, s[k])
    BY DEF Proper
  <1>2. \A u \in Q : ProperOne(d.value, u)
    <2> SUFFICES ASSUME NEW u \in Q PROVE ProperOne(d.value, u)
      OBVIOUS
    <2>1. PICK k \in DOMAIN s : u = s[k]
      BY DEF ToSet
    <2> QED
      BY <1>1, <2>1
  <1> HIDE DEF S
  <1>3. two \in Seq(Q)
    BY <1>1, OfNumbersFrom DEF Numbered
  <1> HIDE DEF Q, two
  <1>4. CASE two = <<>>
    <2>1. EntryValue(d, w) = Unset(d.value)
      BY <1>4 DEF EntryValue, LatestOf, two
    <2>2. d.value.kind = "message" \/ (d.value.kind = "scalar" /\ d.value.type \in ScalarTypes)
      BY DEF WellDescribed
    <2> DEFINE dv == d.value
    <2>3. dv.kind = "message" \/ (dv.kind = "scalar" /\ dv.type \in ScalarTypes)
      BY <2>2
    <2> HIDE DEF dv
    <2>4. ProperOne(dv, Unset(dv))
      BY <2>3, UnsetProper
    <2> QED
      BY <2>1, <2>4 DEF dv
  <1>5. CASE two # <<>>
    <2>1. EntryValue(d, w) = Last(two)
      BY <1>5 DEF EntryValue, LatestOf, two
    <2>2. IsSeq(two) /\ Len(two) \in Nat /\ Len(two) # 0
      BY <1>3, <1>5, SeqIsSeq, EmptyLength
    <2>3. Len(two) \in 1..Len(two)
      BY <2>2
    <2>4. two[Len(two)] \in Q
      BY <1>3, <2>3
    <2> QED
      BY <1>2, <2>1, <2>4 DEF Last
  <1> QED
    BY <1>4, <1>5

\* The key of an entry is a text, whether it is there or not.
LEMMA KeyProper ==
  ASSUME NEW d, d.kind = "map", NEW w, Proper(d, w)
  PROVE  IsSeq(EntryKey(w))
  <1> DEFINE s == w.holds
             S == ToSet(s)
             Q == {u \in S : u.no \in {1}}
             one == Numbered(s, 1)
             none == Text(1, <<>>)
  <1>1. s \in Seq(S) /\ \A k \in DOMAIN s : s[k].no = 1 => IsSeq(s[k].holds)
    BY DEF Proper, IsSeq
  <1>2. \A u \in Q : IsSeq(u.holds)
    <2> SUFFICES ASSUME NEW u \in Q PROVE IsSeq(u.holds)
      OBVIOUS
    <2>1. PICK k \in DOMAIN s : u = s[k]
      BY DEF ToSet
    <2> QED
      BY <1>1, <2>1
  <1> HIDE DEF S
  <1>3. one \in Seq(Q)
    BY <1>1, OfNumbersFrom DEF Numbered
  <1>4. none.holds = <<>> /\ IsSeq(<<>>)
    BY DEF Text, IsSeq
  <1>5. EntryKey(w) = (IF one = <<>> THEN none ELSE Last(one)).holds
    BY DEF EntryKey, LatestOf
  <1> HIDE DEF Q, one, none
  <1>6. CASE one = <<>>
    BY <1>4, <1>5, <1>6
  <1>7. CASE one # <<>>
    <2>1. IsSeq(one) /\ Len(one) \in Nat /\ Len(one) # 0
      BY <1>3, <1>7, SeqIsSeq, EmptyLength
    <2>2. Len(one) \in 1..Len(one)
      BY <2>1
    <2>3. one[Len(one)] \in Q
      BY <1>3, <2>2
    <2> QED
      BY <1>2, <1>5, <1>7, <2>3 DEF Last
  <1> QED
    BY <1>6, <1>7

\* A clean text is read as it is.
LEMMA TextKept ==
  ASSUME NEW v, IsSeq(v), Clean(v)
  PROVE  DecodeText(v) = v
  <1>1. v = [k \in DOMAIN v |-> v[k]]
    BY DEF IsSeq
  <1>2. [k \in DOMAIN v |-> IF v[k] = Invalid THEN Replacement ELSE v[k]] = v
    BY <1>1 DEF Clean
  <1> QED
    BY <1>2 DEF DecodeText, Clean

\* In a message that can be sent and that the codec does not change, with nested
\* messages that it does not change either, every wire field is one it keeps.
LEMMA SentFine ==
  ASSUME NEW type \in DOMAIN Schema, NEW s, IsSeq(s),
         \A k \in Described(type, s) : Proper(DescriptorOf(type, s[k].no), s[k]),
         ~Changed(type, s), \A m \in Inside(type, s) : Restores(m[1], m[2]),
         NEW k \in DOMAIN s
  PROVE  WireFine(type, s[k])
  <1> SUFFICES ASSUME s[k].no \in Numbers(type)
               PROVE  FieldFine(DescriptorOf(type, s[k].no), s[k])
    BY DEF WireFine
  <1> DEFINE w == s[k]
             no == w.no
             d == DescriptorOf(type, no)
             mine == Numbered(s, no)
  <1>1. d \in ToSet(Schema[type]) /\ d.no = no
    BY DescriptorKnown
  <1>2. WellDescribed(d)
    BY <1>1, Descriptors
  <1>3. k \in Described(type, s)
    BY DEF Described
  <1>4. Proper(d, w)
    BY <1>3
  <1>5. \A t \in InField(d, w) : t[1] \in DOMAIN Schema => Restores(t[1], t[2])
    BY <1>3 DEF Inside
  <1>6. \E j \in DOMAIN mine : mine[j] = w
    <2>1. s \in Seq(ToSet(s)) /\ DOMAIN s = 1..Len(s)
      BY DEF IsSeq
    <2> DEFINE P == ToSet(s)
               nos == {no}
    <2>2. s \in Seq(P) /\ k \in 1..Len(s) /\ s[k].no \in nos
      BY <2>1
    <2> HIDE DEF P, nos
    <2>3. \E j \in 1..Len(OfNumbers(s, nos)) : OfNumbers(s, nos)[j] = s[k]
      BY <2>2, OfNumbersHas
    <2>4. OfNumbers(s, nos) \in Seq(P)
      BY <2>2, OfNumbersTyped
    <2>5. DOMAIN OfNumbers(s, nos) = 1..Len(OfNumbers(s, nos))
      BY <2>4
    <2> QED
      BY <2>3, <2>5 DEF Numbered, nos
  <1>7. d.kind = "scalar" /\ d.type = "enum" => ~(w.form = "number" /\ w.holds > Exact)
    BY <1>1, <1>6 DEF Changed
  <1>8. ~(d.kind = "map" /\ d.value.kind = "scalar" /\ d.value.type = "enum")
    <2>1. mine # <<>>
      <3>1. DOMAIN <<>> = {}
        OBVIOUS
      <3> HIDE DEF mine
      <3> QED
        BY <1>6, <3>1
    <2> QED
      BY <1>1, <2>1 DEF Changed
  <1>8a. \A v \in TextsOf(d, w) : Clean(v)
    BY <1>1, <1>6 DEF Changed
  <1> HIDE DEF w, d, mine
  <1>9. ASSUME d.kind # "map", ProperOne(d, w) PROVE OneFine(d, w)
    <2>1. CASE d.kind = "message"
      <3>1. <<d.type, w.holds>> \in InField(d, w)
        BY <2>1 DEF InField
      <3>2. d.type \in DOMAIN Schema => Restores(d.type, w.holds)
        BY <1>5, <3>1
      <3> QED
        BY <1>9, <2>1, <3>2 DEF OneFine
    <2>2. CASE d.kind # "message"
      <3>1. d.kind = "scalar" /\ d.type \in ScalarTypes
        BY <1>2, <1>9, <2>2 DEF WellDescribed
      <3>2. ASSUME d.type = "enum" PROVE w.holds <= Exact
        <4>1. w.form = "number" /\ w.holds \in 0..(Word - 1)
          BY <1>9, <2>2, <3>2 DEF ProperOne, ProperScalar
        <4>2. ~(w.holds > Exact)
          BY <1>7, <3>1, <3>2, <4>1
        <4> QED
          BY <4>1, <4>2, Halves
      <3>3. ASSUME d.type = "string" PROVE DecodeText(w.holds) = w.holds
        <4>1. w.holds \in TextsOf(d, w)
          BY <3>1, <3>3 DEF TextsOf
        <4>2. IsSeq(w.holds)
          BY <1>9, <2>2, <3>3 DEF ProperOne, IsSeq
        <4> QED
          BY <1>8a, <4>1, <4>2, TextKept
      <3> QED
        BY <1>9, <2>2, <3>1, <3>2, <3>3 DEF OneFine
    <2> QED
      BY <2>1, <2>2
  <1>10. CASE d.kind = "map"
    <2> DEFINE dv == d.value
               u == EntryValue(d, w)
    <2>1. ProperOne(dv, u)
      BY <1>2, <1>4, <1>10, EntryProper
    <2>2. dv.kind = "message" \/ (dv.kind = "scalar" /\ dv.type \in ScalarTypes)
      BY <1>2, <1>10 DEF WellDescribed
    <2>3. dv.kind # "message" => dv.type # "enum"
      BY <1>8, <1>10, <2>2
    <2>4. ASSUME dv.kind = "message", dv.type \in DOMAIN Schema PROVE Restores(dv.type, u.holds)
      <3>1. <<dv.type, u.holds>> \in InField(d, w)
        BY <1>10, <2>4 DEF InField
      <3> QED
        BY <1>5, <2>4, <3>1
    <2>4a. ASSUME dv.kind # "message", dv.type = "string" PROVE DecodeText(u.holds) = u.holds
      <3>1. u.holds \in TextsOf(d, w)
        BY <1>10, <2>2, <2>4a DEF TextsOf
      <3> HIDE DEF dv, u
      <3>2. IsSeq(u.holds)
        BY <2>1, <2>4a DEF ProperOne, IsSeq
      <3> QED
        BY <1>8a, <3>1, <3>2, TextKept
    <2>4b. DecodeText(EntryKey(w)) = EntryKey(w)
      <3>1. EntryKey(w) \in TextsOf(d, w)
        BY <1>10 DEF TextsOf
      <3>2. IsSeq(EntryKey(w))
        BY <1>4, <1>10, KeyProper
      <3> QED
        BY <1>8a, <3>1, <3>2, TextKept
    <2> HIDE DEF dv, u
    <2>5. OneFine(dv, u)
      BY <2>1, <2>2, <2>3, <2>4, <2>4a DEF OneFine
    <2>6. FieldFine(d, w)
      BY <1>10, <2>3, <2>5, <2>4b DEF FieldFine, dv, u
    <2> QED
      BY <2>6 DEF d, w
  <1>11. CASE d.kind # "map" /\ d.kind = "scalar" /\ d.repeated /\ w.form = "packed"
    <2>1. w.holds \in Seq(0..(Word - 1)) /\ \A i \in DOMAIN w.holds : ProperScalar(d.type, w.holds[i])
      BY <1>4, <1>11 DEF Proper
    <2>2. DOMAIN w.holds = 1..Len(w.holds) /\ Len(w.holds) \in Nat
      BY <2>1
    <2>3. d.type \in ScalarTypes
      BY <1>2, <1>11 DEF WellDescribed
    <2>4. FieldFine(d, w)
      BY <1>11, <2>1, <2>2, <2>3 DEF FieldFine, ListFine
    <2> QED
      BY <2>4 DEF d, w
  <1>12. CASE d.kind # "map" /\ ~(d.kind = "scalar" /\ d.repeated /\ w.form = "packed")
    <2>1. ProperOne(d, w)
      BY <1>4, <1>12 DEF Proper
    <2>2. OneFine(d, w)
      BY <1>9, <1>12, <2>1
    <2>3. w.form # "packed"
      BY <2>1 DEF ProperOne
    <2>4. FieldFine(d, w)
      BY <1>12, <2>2, <2>3 DEF FieldFine, ListFine
    <2> QED
      BY <2>4 DEF d, w
  <1> QED
    BY <1>10, <1>11, <1>12

\* A message that can be sent and is not one of those the codec changes.
Undisturbed(type, s) ==
  /\ type \in DOMAIN Schema /\ IsSeq(s)
  /\ \A k \in Described(type, s) : Proper(DescriptorOf(type, s[k].no), s[k])
  /\ ~Changed(type, s) /\ \A m \in Inside(type, s) : Restores(m[1], m[2])

LEMMA UndisturbedFine ==
  ASSUME NEW type, NEW s, Undisturbed(type, s)
  PROVE  type \in DOMAIN Schema /\ s \in Seq(ToSet(s)) /\ \A w \in ToSet(s) : WireFine(type, w)
  <1>1. \A k \in DOMAIN s : WireFine(type, s[k])
    BY SentFine DEF Undisturbed
  <1> QED
    BY <1>1 DEF Undisturbed, IsSeq, ToSet

\* A nested message of that kind comes out as it went in.
LEMMA UndisturbedRestored ==
  ASSUME NEW m \in Messages, Undisturbed(m[1], m[2])
  PROVE  Restores(m[1], m[2])
  <1> DEFINE type == m[1]
             s == m[2]
             object == DecodeMessage(type, s)
             again == EncodeMessage(type, object)
             P == ToSet(s)
  <1>1. type \in DOMAIN Schema /\ s \in Seq(P) /\ \A w \in P : WireFine(type, w)
    BY UndisturbedFine
  <1>2. /\ DecodeInner(type, s) = object /\ EncodeInner(type, object) = again
        /\ InnerMeaning(type, s) = Meaning(type, s) /\ InnerMeaning(type, again) = Meaning(type, again)
    BY NestingAssumption
  <1> HIDE DEF type, s, P
  <1>3. Meaning(type, again) = Meaning(type, s)
    BY <1>1, LevelKept
  <1> HIDE DEF object, again
  <1>4. Restores(type, s)
    BY <1>2, <1>3 DEF Restores
  <1> QED
    BY <1>4 DEF type, s
-----------------------------------------------------------------------------
\* The messages that are kept when those directly inside them are among these.
KeptWith(inner) == {m \in Messages : ~Changed(m[1], m[2]) /\ Inside(m[1], m[2]) \subseteq inner}

\* Kept, level by level.
LEMMA KeptSteps ==
  Kept[0] = KeptWith({}) /\ \A n \in Nat : Kept[n + 1] = KeptWith(Kept[n])
  <1> DEFINE V == SUBSET Messages
             base == KeptWith({})
             advance == [i \in Nat |-> [v \in V |-> KeptWith(v)]]
             step(f, n) == KeptWith(IF n = 0 THEN {} ELSE f[n - 1])
             IsKept(f) == f = [n \in Nat |-> step(f, n)]
  <1>1. base \in V /\ \A v \in V : KeptWith(v) \in V
    BY DEF KeptWith
  <1>2. advance \in [Nat -> [V -> V]]
    <2> HIDE DEF V
    <2>1. [v \in V |-> KeptWith(v)] \in [V -> V]
      BY <1>1
    <2> QED
      BY <2>1
  <1>3. \A i \in Nat, v \in V : advance[i][v] = KeptWith(v)
    <2> HIDE DEF V
    <2>1. \A i \in Nat : advance[i] = [v \in V |-> KeptWith(v)]
      OBVIOUS
    <2> QED
      BY <2>1
  <1> HIDE DEF V, base, advance
  <1>4. PICK g : Runs(g, V, base, advance)
    BY <1>1, <1>2, RunsOn
  <1>5. g \in [Nat -> V] /\ g[0] = base /\ \A i \in Nat : g[i + 1] = advance[i + 1][g[i]]
    BY <1>4 DEF Runs
  <1>6. \A i \in Nat : g[i + 1] = KeptWith(g[i])
    <2> SUFFICES ASSUME NEW i \in Nat PROVE g[i + 1] = KeptWith(g[i])
      OBVIOUS
    <2>1. g[i] \in V /\ i + 1 \in Nat
      BY <1>5
    <2> QED
      BY <1>3, <1>5, <2>1
  <1>7. \A n \in Nat : g[n] = step(g, n)
    <2> SUFFICES ASSUME NEW n \in Nat PROVE g[n] = step(g, n)
      OBVIOUS
    <2>1. CASE n = 0
      BY <1>5, <2>1 DEF base
    <2>2. CASE n # 0
      <3>1. n - 1 \in Nat /\ n = (n - 1) + 1
        BY <2>2
      <3>2. g[(n - 1) + 1] = KeptWith(g[n - 1])
        BY <1>6, <3>1
      <3> QED
        BY <2>2, <3>1, <3>2
    <2> QED
      BY <2>1, <2>2
  <1>8. IsKept(g)
    <2> HIDE DEF step
    <2>1. g = [n \in Nat |-> g[n]]
      BY <1>5
    <2> DEFINE at(n) == step(g, n)
    <2>2. \A n \in Nat : g[n] = at(n)
      BY <1>7
    <2> HIDE DEF at
    <2>3. g = [n \in Nat |-> at(n)]
      BY <2>1, <2>2
    <2> QED
      BY <2>3 DEF at
  <1>9. Kept = CHOOSE f : IsKept(f)
    BY Zenon DEF Kept, KeptWith
  <1>10. IsKept(Kept)
    <2> HIDE DEF IsKept
    <2> QED
      BY <1>8, <1>9
  <1>11. \A n \in Nat : Kept[n] = step(Kept, n)
    <2> DEFINE kept == Kept
               at(n) == step(kept, n)
    <2>1. kept = [n \in Nat |-> at(n)]
      BY <1>10
    <2> HIDE DEF kept, at
    <2>2. \A f : f = [n \in Nat |-> at(n)] => \A n \in Nat : f[n] = at(n)
      OBVIOUS
    <2>3. \A n \in Nat : kept[n] = at(n)
      BY <2>1, <2>2, Zenon
    <2> QED
      BY <2>3 DEF kept, at
  <1>12. Kept[0] = KeptWith({})
    BY <1>11
  <1>13. ASSUME NEW n \in Nat PROVE Kept[n + 1] = KeptWith(Kept[n])
    <2>1. n + 1 \in Nat /\ n + 1 # 0 /\ (n + 1) - 1 = n
      OBVIOUS
    <2>2. Kept[n + 1] = step(Kept, n + 1)
      BY <1>11, <2>1
    <2> QED
      BY <2>1, <2>2
  <1> QED
    BY <1>12, <1>13

\* By induction over the depth: what is kept comes out as it went in.
LEMMA KeptRestored ==
  ASSUME NEW n \in Nat
  PROVE  \A m \in Kept[n] : Restores(m[1], m[2])
  <1> DEFINE T == {j \in Nat : \A m \in Kept[j] : Restores(m[1], m[2])}
  <1>1. ASSUME NEW inner, \A m \in inner : Restores(m[1], m[2]), NEW m \in KeptWith(inner)
        PROVE  Restores(m[1], m[2])
    <2>1. m \in Messages /\ ~Changed(m[1], m[2]) /\ Inside(m[1], m[2]) \subseteq inner
      BY DEF KeptWith
    <2>2. Sendable(m[1], m[2])
      BY <2>1, MessagesAssumption
    <2>3. Undisturbed(m[1], m[2])
      BY <1>1, <2>1, <2>2 DEF Undisturbed, Sendable, IsSeq
    <2> QED
      BY <2>1, <2>3, UndisturbedRestored
  <1>2. 0 \in T
    BY <1>1, KeptSteps
  <1>3. \A j \in T : j + 1 \in T
    <2> SUFFICES ASSUME NEW j \in T PROVE j + 1 \in T
      OBVIOUS
    <2>1. j \in Nat /\ \A m \in Kept[j] : Restores(m[1], m[2])
      OBVIOUS
    <2>2. Kept[j + 1] = KeptWith(Kept[j])
      BY <2>1, KeptSteps
    <2>3. \A m \in Kept[j + 1] : Restores(m[1], m[2])
      BY <1>1, <2>1, <2>2
    <2> QED
      BY <2>1, <2>3
  <1>4. T \in SUBSET Nat
    OBVIOUS
  <1> HIDE DEF T
  <1>5. T = Nat
    BY <1>2, <1>3, <1>4, Inductive
  <1> QED
    BY <1>5 DEF T

-----------------------------------------------------------------------------
\* The object is what came, decoded, with the edited field set in it; what goes
\* on is the object, encoded.
CodecInv ==
  /\ wireIn \in Seq(WireFields)
  /\ codecStep = "wire" => edit = NoEdit
  /\ codecStep # "wire" =>
       \/ edit = NoEdit /\ value = DecodeMessage("Top", wireIn)
       \/ /\ edit \in Edits
          /\ value = [DecodeMessage("Top", wireIn) EXCEPT !.fields = Assign(@, edit.no, edit.to)]
  /\ codecStep = "encoded" => wireOut = EncodeMessage("Top", value)

\* The inductive invariant holds of every state.
LEMMA CodecInvariant == CodecSpec => []CodecInv
  <1>1. CodecInit => CodecInv
    <2> SUFFICES ASSUME CodecInit PROVE CodecInv
      OBVIOUS
    <2>1. PICK m \in 0..WireLimit : wireIn \in [1..m -> WireFields]
      BY CodecAssumption DEF CodecInit, BoundedSeq, SeqOf
    <2>2. m \in Nat
      BY CodecAssumption
    <2>3. wireIn \in Seq(WireFields)
      BY <2>1, <2>2
    <2> QED
      BY <2>3 DEF CodecInit, CodecInv
  <1>2. CodecInv /\ [CodecNext]_codecVars => CodecInv'
    <2> SUFFICES ASSUME CodecInv, [CodecNext]_codecVars PROVE CodecInv'
      OBVIOUS
    <2>1. CASE Decode
      <3>1. edit' = NoEdit /\ value' = DecodeMessage("Top", wireIn') /\ wireIn' = wireIn /\ codecStep' = "value"
        BY <2>1 DEF Decode, CodecInv
      <3> QED
        BY <3>1 DEF CodecInv
    <2>2. CASE EditField
      <3>1. wireIn' = wireIn /\ codecStep' = "value" /\ edit' \in Edits
        BY <2>2 DEF EditField
      <3>2. value = DecodeMessage("Top", wireIn)
        <4>1. \A e \in Edits : e # NoEdit
          BY SchemaAssumption DEF NoEdit
        <4> QED
          BY <2>2, <4>1 DEF EditField, CodecInv
      <3>3. value' = [DecodeMessage("Top", wireIn') EXCEPT !.fields = Assign(@, edit'.no, edit'.to)]
        BY <2>2, <3>1, <3>2 DEF EditField
      <3> QED
        BY <3>1, <3>3 DEF CodecInv
    <2>3. CASE Encode
      <3>1. /\ edit' = edit /\ value' = value /\ wireIn' = wireIn /\ codecStep = "value" /\ codecStep' = "encoded"
            /\ wireOut' = EncodeMessage("Top", value')
        BY <2>3 DEF Encode
      <3>2. \/ edit' = NoEdit /\ value' = DecodeMessage("Top", wireIn')
            \/ /\ edit' \in Edits
               /\ value' = [DecodeMessage("Top", wireIn') EXCEPT !.fields = Assign(@, edit'.no, edit'.to)]
        BY <3>1 DEF CodecInv
      <3> QED
        BY <3>1, <3>2 DEF CodecInv
    <2>4. CASE UNCHANGED codecVars
      BY <2>4 DEF codecVars, CodecInv
    <2> QED
      BY <2>1, <2>2, <2>3, <2>4 DEF CodecNext
  <1> QED
    BY <1>1, <1>2, PTL DEF CodecSpec

\* EditField changes that field of the object and no other.
LEMMA TopEdited ==
  ASSUME NEW v, v = [fields |-> v.fields, unknown |-> v.unknown], NEW e \in Edits
  PROVE  EditedAt("Top", v, [v EXCEPT !.fields = Assign(@, e.no, e.to)], e.no)
  <1> DEFINE no0 == e.no
             x == e.to
             g == Assign(v.fields, no0, x)
             v2 == [v EXCEPT !.fields = g]
  <1>1. SetAt(g, v.fields, no0, x)
    <2> HIDE DEF no0, x
    <2> QED
      BY Put
  <1>2. \A d \in ToSet(Schema["Top"]) : d.no = no0 => d.kind = "scalar" /\ ~d.repeated
    BY SchemaAssumption
  <1> HIDE DEF no0, x, g
  <1>3. v2.fields = g /\ v2.unknown = v.unknown
    OBVIOUS
  <1> HIDE DEF v2
  <1>4. DOMAIN g = DOMAIN v.fields \cup {no0} /\ g[no0] = x /\ \A no \in DOMAIN v.fields : no # no0 => g[no] = v.fields[no]
    BY <1>1 DEF SetAt
  <1>5. ASSUME NEW d \in ToSet(Schema["Top"]), d.no = no0 PROVE AllNumbered(EncodeField(d, x), no0)
    <2> DEFINE w == WriteScalar(d.no, d.type, x)
    <2>1. d.kind = "scalar" /\ ~d.repeated
      BY <1>2, <1>5
    <2>2. EncodeField(d, x) = <<w>>
      BY <2>1 DEF EncodeField
    <2>3. w.no = no0
      BY <1>5 DEF WriteScalar, Text, Number
    <2> HIDE DEF w
    <2>4. IsSeq(<<w>>) /\ Len(<<w>>) = 1 /\ <<w>>[1] = w
      BY Single
    <2> DEFINE enc == <<w>>
    <2>5. IsSeq(enc) /\ Len(enc) = 1 /\ enc[1] = w
      BY <2>4
    <2> HIDE DEF enc
    <2>6. \A k \in 1..Len(enc) : enc[k].no = no0
      BY <2>3, <2>5
    <2>7. AllNumbered(enc, no0)
      BY <2>5, <2>6 DEF AllNumbered
    <2> QED
      BY <2>2, <2>7 DEF enc
  <1>6. EditedAt("Top", v, v2, no0)
    BY <1>3, <1>4, <1>5 DEF EditedAt
  <1> QED
    BY <1>6 DEF v2, g, no0, x

\* A message that comes is made of wire fields that can be sent.
LEMMA TopSent ==
  ASSUME wireIn \in Seq(WireFields), ~Changed("Top", wireIn), Inside("Top", wireIn) \subseteq Kept[Depth]
  PROVE  Undisturbed("Top", wireIn)
  <1>1. "Top" \in DOMAIN Schema
    BY SchemaAssumption
  <1>2. IsSeq(wireIn)
    BY SeqIsSeq
  <1>3. ASSUME NEW k \in Described("Top", wireIn) PROVE Proper(DescriptorOf("Top", wireIn[k].no), wireIn[k])
    <2> DEFINE w == wireIn[k]
               one == <<w>>
    <2>1. w \in WireFields /\ w.no \in Numbers("Top")
      BY DEF Described
    <2> HIDE DEF w
    <2>2. one[1] = w /\ 1 \in DOMAIN one
      OBVIOUS
    <2>3. Sendable("Top", one)
      BY <2>1, MessagesAssumption
    <2> HIDE DEF one
    <2>4. 1 \in Described("Top", one)
      BY <2>1, <2>2 DEF Described
    <2>5. Proper(DescriptorOf("Top", one[1].no), one[1])
      BY <2>3, <2>4 DEF Sendable
    <2>6. Proper(DescriptorOf("Top", w.no), w)
      BY <2>2, <2>5
    <2> QED
      BY <2>6 DEF w
  <1>4. \A m \in Inside("Top", wireIn) : Restores(m[1], m[2])
    BY CodecAssumption, KeptRestored
  <1> QED
    BY <1>1, <1>2, <1>3, <1>4 DEF Undisturbed

\* Decoding a request, editing one field and encoding it again drops nothing.
THEOREM CodecRoundTrip == CodecSpec => []RoundTrip
  <1>1. CodecInv => RoundTrip
    <2> SUFFICES ASSUME CodecInv, codecStep = "encoded", ~Changed("Top", wireIn), Inside("Top", wireIn) \subseteq Kept[Depth]
                 PROVE  SaysSame("Top", wireIn, wireOut, edit.no)
      BY DEF RoundTrip, SaysSame
    <2> DEFINE v == DecodeMessage("Top", wireIn)
               P == ToSet(wireIn)
    <2>1. "Top" \in DOMAIN Schema /\ wireIn \in Seq(P) /\ \A w \in P : WireFine("Top", w)
      BY TopSent, UndisturbedFine DEF CodecInv
    <2> HIDE DEF P
    <2>2. v = [fields |-> v.fields, unknown |-> v.unknown]
      BY <2>1, DecodedHolds DEF Holds
    <2>3. EditedAt("Top", v, value, edit.no)
      <3>1. CASE edit = NoEdit /\ value = v
        <4>1. edit.no = 0
          BY <3>1 DEF NoEdit
        <4>2. \A d \in ToSet(Schema["Top"]) : d.no # 0
          BY <2>1, Descriptors DEF WellDescribed
        <4> HIDE DEF v
        <4> QED
          BY <3>1, <4>1, <4>2 DEF EditedAt
      <3>2. CASE edit \in Edits /\ value = [v EXCEPT !.fields = Assign(@, edit.no, edit.to)]
        <4> HIDE DEF v
        <4> QED
          BY <2>2, <3>2, TopEdited
      <3> QED
        BY <3>1, <3>2 DEF CodecInv
    <2>4. wireOut = EncodeMessage("Top", value)
      BY DEF CodecInv
    <2> QED
      BY <2>1, <2>3, <2>4, Level
  <1> QED
    BY <1>1, CodecInvariant, PTL
=============================================================================
