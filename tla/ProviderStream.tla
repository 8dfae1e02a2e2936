--------------------------- MODULE ProviderStream ---------------------------
(***************************************************************************)
(* A provider's streamed answer: the bytes of a server-sent event stream    *)
(* cut into chunks anywhere, the parser that finds the blocks again         *)
(* (packages/providers/src/transport/sse.ts), and the three adapters that   *)
(* make one list of events of their payloads (adapters/openai.ts,           *)
(* anthropic.ts, gemini.ts).                                               *)
(*                                                                         *)
(* The body is a sequence of symbols: the line a block carries, and the two *)
(* that end lines.  A payload is its kind; the block's number stands for    *)
(* its text.                                                               *)
(***************************************************************************)
EXTENDS Naturals, Sequences, SequencesExt

CONSTANTS
  Adapters,      \* the adapters considered
  BlockPayloads, \* what the lines of an answer carry
  ParallelCalls, \* bound: calls of one answer, by their index from 0
  BlockLimit     \* bound: blocks of an answer

Indices == 0..(ParallelCalls - 1)

ASSUME StreamAssumption ==
  /\ Adapters \subseteq {"openai", "anthropic", "gemini"}
  /\ ParallelCalls \in Nat /\ BlockLimit \in Nat
  /\ \A p \in BlockPayloads : p.is = "call" => p.index \in Indices /\ p.opens \in BOOLEAN

VARIABLES
  given,      \* the provider's side: its adapter, blocks and line ends
  received,   \* symbols that arrived
  unparsed,   \* the parser's buffer: symbols not yet part of a block
  slots,      \* index |-> the call being put together
  reason,     \* the finish reason so far, or "none"
  yielded,    \* events given to the turn
  streaming   \* "reading", "over" or "failed"

streamVars == <<given, received, unparsed, slots, reason, yielded, streaming>>

NoSlot == [opened |-> FALSE, args |-> <<>>, used |-> FALSE]

\* A line by the number of its block, and the symbols that end lines.
Line(n) == [end |-> "no", line |-> n]
CR == [end |-> "CR", line |-> 0]
LF == [end |-> "LF", line |-> 0]

\* One block on the wire: its line, and the blank line that ends it.
LineEnd == IF given.crlf THEN <<CR, LF>> ELSE <<LF>>
Block(n) == <<Line(n)>> \o LineEnd \o LineEnd

\* The last block may lack its blank line, and the end of its line.
AllBlocks == FlattenSeq([n \in 1..Len(given.blocks) |-> Block(n)])
Body ==
  IF given.blocks = <<>> THEN <<>>
  ELSE SubSeq(AllBlocks, 1, Len(AllBlocks) - given.lacks * Len(LineEnd))

\* The members of a set of numbers below each number, in their order.
InOrder(S) ==
  LET below[n \in Nat] ==
        IF n = 0 THEN <<>>
        ELSE IF n - 1 \in S THEN Append(below[n - 1], n - 1) ELSE below[n - 1]
  IN below

StreamInit ==
  /\ given \in [by : Adapters, crlf : BOOLEAN, lacks : 0..2,
                 blocks : BoundedSeq(BlockPayloads, BlockLimit)]
  /\ received = 0
  /\ unparsed = <<>>
  /\ slots = [i \in Indices |-> NoSlot]
  /\ reason = "none"
  /\ yielded = <<>>
  /\ streaming = "reading"

-----------------------------------------------------------------------------
(* The parser.                                                             *)

LFLF(i) == i + 1 <= Len(unparsed) /\ unparsed[i] = LF /\ unparsed[i + 1] = LF
CRLFCRLF(i) ==
  /\ i + 3 <= Len(unparsed)
  /\ unparsed[i] = CR /\ unparsed[i + 1] = LF /\ unparsed[i + 2] = CR /\ unparsed[i + 3] = LF

Boundaries == {i \in DOMAIN unparsed : LFLF(i) \/ CRLFCRLF(i)}
FindBoundary == CHOOSE i \in Boundaries : \A j \in Boundaries : i <= j
BoundaryLength(i) == IF CRLFCRLF(i) THEN 4 ELSE 2

\* A block is its lines; only one alone is a payload, since two joined by a
\* newline are no JSON.
ParseBlock(raw) == {k \in DOMAIN raw : raw[k] \notin {CR, LF}}
Number(raw) == raw[CHOOSE k \in ParseBlock(raw) : TRUE].line
ParsedPayload(raw) ==
  IF \E k \in ParseBlock(raw) : ParseBlock(raw) = {k} THEN given.blocks[Number(raw)]
  ELSE [is |-> "garbled"]

-----------------------------------------------------------------------------
(* The adapters.                                                           *)

Yield(event) == yielded' = Append(yielded, event)
Event(type, n) == [type |-> type, of |-> <<n>>]

\* Text, reasoning and usage are passed on as they come.
PassOn(p, n) ==
  /\ p.is \in {"text", "reasoning", "usage"}
  /\ Yield(Event(p.is, n))
  /\ UNCHANGED <<slots, reason, streaming>>

\* Faulty: a fragment takes the place of those before it.
FragmentOver(p, n) ==
  /\ p.is = "call"
  /\ given.by # "gemini"
  /\ slots' = [slots EXCEPT ![p.index] =
                [opened |-> @.opened \/ p.opens, args |-> <<n>>, used |-> TRUE]]
  /\ UNCHANGED <<reason, yielded, streaming>>

\* OpenAI and Anthropic send a call in fragments.  An OpenAI fragment opens
\* its slot and may carry arguments at once; an Anthropic delta is for a slot
\* its block start opened, and a start begins the slot anew.
Fragment(p, n) ==
  /\ p.is = "call"
  /\ given.by # "gemini"
  /\ slots' = [slots EXCEPT ![p.index] =
       CASE given.by = "openai" ->
              [opened |-> @.opened \/ p.opens, args |-> Append(@.args, n), used |-> TRUE]
         [] given.by = "anthropic" /\ p.opens -> [opened |-> TRUE, args |-> <<>>, used |-> TRUE]
         [] given.by = "anthropic" /\ ~p.opens ->
              IF @.used THEN [@ EXCEPT !.args = Append(@, n)] ELSE @]
  /\ UNCHANGED <<reason, yielded, streaming>>

\* Gemini sends a call whole, and the adapter passes it on at once.
WholeCall(p, n) ==
  /\ p.is = "call"
  /\ given.by = "gemini"
  /\ Yield(Event("call", n))
  /\ UNCHANGED <<slots, reason, streaming>>

\* The finish reason is kept for the end; Gemini has none for calls.
FinishReason(p) ==
  /\ p.is = "finish"
  /\ reason' = IF given.by = "gemini" /\ p.reason = "tool-calls" THEN "stop" ELSE p.reason
  /\ UNCHANGED <<slots, yielded, streaming>>

\* An error in the stream is thrown.
ErrorFrame(p) ==
  /\ p.is = "error"
  /\ streaming' = "failed"
  /\ UNCHANGED <<slots, reason, yielded>>

\* What is no JSON is skipped: a comment, an event without data, a fragment of
\* a line; and for the other two, the end marker of OpenAI.
Skip(p) ==
  /\ p.is = "garbled" \/ (p.is = "done" /\ given.by # "openai")
  /\ UNCHANGED <<slots, reason, yielded, streaming>>

\* The calls put together, in the order of their indices.
Pending == InOrder({i \in Indices : slots[i].used})[ParallelCalls]
Calls == [k \in 1..Len(Pending) |-> [type |-> "call", of |-> slots[Pending[k]].args]]

HadCalls == Pending # <<>> \/ \E k \in DOMAIN yielded : yielded[k].type = "call"

\* OpenAI's own reason goes before the calls it saw; with the others, calls win.
DoneReason ==
  IF given.by = "openai" /\ reason # "none" THEN reason
  ELSE IF HadCalls THEN "tool-calls"
  ELSE IF reason = "none" THEN "stop" ELSE reason

FinishStream(tail) ==
  /\ yielded' = tail \o Calls \o <<[type |-> "done", reason |-> DoneReason]>>
  /\ streaming' = "over"
  /\ UNCHANGED <<slots, reason>>

\* OpenAI's end marker breaks the loop: what follows is not read.
EndMarker(p) ==
  /\ p.is = "done"
  /\ given.by = "openai"
  /\ FinishStream(yielded)

Consume(p, n) ==
  \/ PassOn(p, n)
  \/ Fragment(p, n)
  \/ WholeCall(p, n)
  \/ FinishReason(p)
  \/ ErrorFrame(p)
  \/ Skip(p)
  \/ EndMarker(p)

-----------------------------------------------------------------------------
(* The loop: every block in the buffer before the next chunk is read.      *)

Receive ==
  /\ streaming = "reading"
  /\ Boundaries = {}
  /\ \E upTo \in (received + 1)..Len(Body) :
       /\ unparsed' = unparsed \o SubSeq(Body, received + 1, upTo)
       /\ received' = upTo
  /\ UNCHANGED <<given, slots, reason, yielded, streaming>>

TakeBlock ==
  /\ streaming = "reading"
  /\ Boundaries # {}
  /\ LET raw == SubSeq(unparsed, 1, FindBoundary - 1)
     IN /\ unparsed' = SubSeq(unparsed, FindBoundary + BoundaryLength(FindBoundary), Len(unparsed))
        /\ Consume(ParsedPayload(raw), Number(raw))
  /\ UNCHANGED <<given, received>>

\* The stream ended: what is left is a block too, then the answer is done.
TakeTail ==
  /\ streaming = "reading"
  /\ received = Len(Body)
  /\ unparsed # <<>>
  /\ Boundaries = {}
  /\ unparsed' = <<>>
  /\ Consume(ParsedPayload(unparsed), Number(unparsed))
  /\ UNCHANGED <<given, received>>

StreamDone ==
  /\ streaming = "reading"
  /\ received = Len(Body)
  /\ unparsed = <<>>
  /\ FinishStream(yielded)
  /\ UNCHANGED <<given, received, unparsed>>

StreamNext == Receive \/ TakeBlock \/ TakeTail \/ StreamDone

StreamSpec == StreamInit /\ [][StreamNext]_streamVars

-----------------------------------------------------------------------------
(* What the answer says, read from the provider's blocks alone.            *)

\* The blocks before the one that ends the stream early, if any does.
Ends(p) == p.is = "error" \/ (p.is = "done" /\ given.by = "openai")
Read == {n \in DOMAIN given.blocks : \A m \in 1..n : ~Ends(given.blocks[m])}
Numbers(blocks) == InOrder(blocks)[Len(given.blocks) + 1]

\* What of some blocks is passed on at once.
PassedOn == {"text", "reasoning", "usage"} \cup (IF given.by = "gemini" THEN {"call"} ELSE {})
Straight(read) == Numbers({n \in read : given.blocks[n].is \in PassedOn})
Events(numbers) ==
  [k \in 1..Len(numbers) |-> Event(given.blocks[numbers[k]].is, numbers[k])]

\* The fragments of a call: with Anthropic, those after its last start.
Fragments(read, i) == {n \in read : given.blocks[n].is = "call" /\ given.blocks[n].index = i}
Opens(read, i) == {n \in Fragments(read, i) : given.blocks[n].opens}
Parts(read, i) ==
  {n \in Fragments(read, i) :
     given.by = "anthropic" => Opens(read, i) # {} /\ \A m \in Opens(read, i) : m < n}
Begun(read, i) ==
  \/ given.by = "openai" /\ Parts(read, i) # {}
  \/ given.by = "anthropic" /\ Opens(read, i) # {}
Gathered(read) == InOrder({i \in Indices : Begun(read, i)})[ParallelCalls]
WholeCalls(read) ==
  [k \in 1..Len(Gathered(read)) |->
     [type |-> "call", of |-> Numbers(Parts(read, Gathered(read)[k]))]]

Meant == Events(Straight(Read)) \o WholeCalls(Read)

Fails == \E n \in DOMAIN given.blocks :
  given.blocks[n].is = "error" /\ \A m \in 1..(n - 1) : ~Ends(given.blocks[m])

\* However the bytes are cut, and whether or not the last line is ended, the
\* turn is given what the provider said: each text in order and once, each
\* call whole, in the order of the calls and behind the text it belongs to,
\* `done` last; and after an error what came before it, without the calls that
\* may be incomplete.
AnswerFaithful ==
  /\ streaming = "reading" => IsPrefix(yielded, Meant)
  /\ streaming = "over" => Front(yielded) = Meant /\ Last(yielded).type = "done" /\ ~Fails
  /\ streaming = "failed" => yielded = Events(Straight(Read)) /\ Fails
=============================================================================
