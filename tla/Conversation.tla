---------------------------- MODULE Conversation ----------------------------
(***************************************************************************)
(* A conversation on its way to the model: the client's history becomes     *)
(* chat messages (packages/server/src/agent/protocol.ts), and the messages  *)
(* become the request of one of three provider APIs                        *)
(* (packages/providers/src/adapters/openai.ts, anthropic.ts, gemini.ts).    *)
(*                                                                         *)
(* A part of the conversation is its kind and its place; "empty" is a text  *)
(* of no characters.  Both loops take one entry per step.                   *)
(***************************************************************************)
EXTENDS Naturals, Sequences, SequencesExt

CONSTANTS
  Apis,          \* the provider APIs considered
  UserContents,  \* part kinds a user entry of the history can hold
  ReplyContents, \* the same for an assistant entry
  ToolContents,  \* the same for a tool entry
  EntryLimit     \* bound: entries of a history

ASSUME ConversationAssumption ==
  /\ Apis \subseteq {"openai", "anthropic", "gemini"}
  /\ UserContents \cup ToolContents \subseteq Seq({"text", "empty", "image"})
  /\ ReplyContents \subseteq Seq({"text", "empty", "reasoning", "call"})
  /\ EntryLimit \in Nat

VARIABLES
  talk,      \* what the client sent, and the API the model is reached by
  stage,     \* "reading", "converting", "sent" or "refused"
  done,      \* entries or messages worked through in this stage
  messages,  \* the chat messages of the turn
  system,    \* the texts of the system prompt in the request
  turns      \* the messages of the provider's request

talkVars == <<talk, stage, done, messages, system, turns>>

Entry == [role : {"user"}, parts : UserContents]
         \cup [role : {"assistant"}, parts : ReplyContents]
         \cup [role : {"tool"}, parts : ToolContents]

TalkInit ==
  /\ talk \in [api : Apis, history : BoundedSeq(Entry, EntryLimit),
               latest : BOOLEAN, prompt : BOOLEAN]
  /\ stage = "reading"
  /\ done = 0
  /\ messages = <<>>
  /\ system = <<>>
  /\ turns = <<>>

-----------------------------------------------------------------------------
(* From the client's history to chat messages.                             *)

Part(kind, entry, place) == [kind |-> kind, at |-> <<entry, place>>]

\* The parts of some kinds, in their order.
Only(parts, kinds) ==
  LET only[n \in 0..Len(parts)] ==
        IF n = 0 THEN <<>>
        ELSE IF parts[n].kind \in kinds THEN Append(only[n - 1], parts[n]) ELSE only[n - 1]
  IN only[Len(parts)]

\* An entry without its reasoning, its calls apart from what it says.
ChatMessage(n) ==
  LET entry == talk.history[n]
      parts == [k \in 1..Len(entry.parts) |-> Part(entry.parts[k], n, k)]
  IN [role |-> entry.role, of |-> n,
      content |-> Only(parts, {"text", "empty", "image"}),
      calls |-> Only(parts, {"call"})]

ReadEntry ==
  /\ stage = "reading"
  /\ done < Len(talk.history)
  /\ messages' = Append(messages, ChatMessage(done + 1))
  /\ done' = done + 1
  /\ UNCHANGED <<talk, stage, system, turns>>

\* The newest user message comes outside the history, and the system prompt
\* goes first; a request that says nothing starts no turn.
Single(role, n) == [role |-> role, of |-> n, content |-> <<Part("text", n, 1)>>, calls |-> <<>>]
Latest == IF talk.latest THEN <<Single("user", Len(talk.history) + 1)>> ELSE <<>>
Prompt == IF talk.prompt THEN <<Single("system", 0)>> ELSE <<>>

Complete ==
  /\ stage = "reading"
  /\ done = Len(talk.history)
  /\ IF messages \o Latest = <<>>
     THEN /\ stage' = "refused"
          /\ UNCHANGED messages
     ELSE /\ stage' = "converting"
          /\ messages' = Prompt \o messages \o Latest
  /\ done' = 0
  /\ UNCHANGED <<talk, system, turns>>

-----------------------------------------------------------------------------
(* From chat messages to the request.                                      *)

\* The texts of a message, joined: an empty one adds nothing.
TextOf(message) == Only(message.content, {"text"})

\* What a tool returned is one block, with its texts in it.
ToolResult(message) == [kind |-> "result", at |-> <<message.of, 0>>, holds |-> TextOf(message)]

\* OpenAI takes the messages one to one; one that calls tools has its texts
\* joined, as has one without an image.
OpenAiContent(message) ==
  IF message.role = "tool" THEN <<ToolResult(message)>>
  ELSE IF message.calls # <<>> \/ Only(message.content, {"image"}) = <<>>
       THEN TextOf(message) \o message.calls
       ELSE message.content

\* The others take blocks; an empty text is none.
Blocks(message) ==
  IF message.role = "tool" THEN <<ToolResult(message)>>
  ELSE Only(message.content, {"text", "image"}) \o message.calls

\* Faulty: every message is a turn.
JoinNothing(role, blocks) == Append(turns, [role |-> role, blocks |-> blocks])

\* They ask for turns that alternate: blocks join the last turn of their role,
\* and a result counts as the user's.
Speaker(message) == IF message.role = "assistant" THEN "assistant" ELSE "user"
JoinTurn(role, blocks) ==
  IF turns # <<>> /\ Last(turns).role = role
  THEN [turns EXCEPT ![Len(turns)].blocks = @ \o blocks]
  ELSE Append(turns, [role |-> role, blocks |-> blocks])

\* The system prompt has a place of its own, but with OpenAI.
SplitSystem(message) ==
  /\ message.role = "system"
  /\ talk.api # "openai"
  /\ system' = system \o TextOf(message)
  /\ UNCHANGED turns

ToOpenAi(message) ==
  /\ talk.api = "openai"
  /\ turns' = Append(turns, [role |-> message.role, blocks |-> OpenAiContent(message)])
  /\ UNCHANGED system

ToTurns(message) ==
  /\ talk.api # "openai"
  /\ message.role # "system"
  /\ turns' = IF Blocks(message) = <<>> THEN turns ELSE JoinTurn(Speaker(message), Blocks(message))
  /\ UNCHANGED system

Convert ==
  /\ stage = "converting"
  /\ done < Len(messages)
  /\ LET message == messages[done + 1]
     IN SplitSystem(message) \/ ToOpenAi(message) \/ ToTurns(message)
  /\ done' = done + 1
  /\ UNCHANGED <<talk, stage, messages>>

Send ==
  /\ stage = "converting"
  /\ done = Len(messages)
  /\ stage' = "sent"
  /\ UNCHANGED <<talk, done, messages, system, turns>>

TalkNext == ReadEntry \/ Complete \/ Convert \/ Send

TalkSpec == TalkInit /\ [][TalkNext]_talkVars

-----------------------------------------------------------------------------
(* Properties.                                                             *)

\* "Anthropic requires alternating user/assistant turns" (anthropic.ts:210),
\* and Gemini is given the same: no two turns of one speaker follow each
\* other, and none is empty.
Alternates ==
  talk.api # "openai" =>
    /\ \A k \in 1..(Len(turns) - 1) : turns[k].role # turns[k + 1].role
    /\ \A k \in 1..Len(turns) : turns[k].role \in {"user", "assistant"} /\ turns[k].blocks # <<>>

\* What an entry of the history must be to the model: of a user or assistant
\* its texts and images and then its calls, in order; of a tool the result,
\* even an empty one.  Reasoning is not replayed, and of a tool's result only
\* the texts go along.
MeantBy(n) ==
  LET entry == talk.history[n]
      parts == [k \in 1..Len(entry.parts) |-> Part(entry.parts[k], n, k)]
  IN IF entry.role = "tool"
     THEN <<[kind |-> "result", at |-> <<n, 0>>, holds |-> Only(parts, {"text"})]>>
     ELSE Only(parts, {"text", "image"}) \o Only(parts, {"call"})

Conveyed ==
  (IF talk.prompt THEN <<Part("text", 0, 1)>> ELSE <<>>)
  \o FlattenSeq([n \in 1..Len(talk.history) |-> MeantBy(n)])
  \o (IF talk.latest THEN <<Part("text", Len(talk.history) + 1, 1)>> ELSE <<>>)

\* What a request says, of which empty texts are no part.
Heard == {"text", "image", "reasoning", "call", "result"}
Said == system \o Only(FlattenSeq([k \in 1..Len(turns) |-> turns[k].blocks]), Heard)

\* The request says what the client said, all of it, once and in its order,
\* whatever the API joins, splits off or leaves out.
HistoryKept == stage = "sent" => Said = Conveyed

\* What reaches the model is a conversation its API accepts and the one the
\* client had.
TalkConveyed == Alternates /\ HistoryKept
=============================================================================
