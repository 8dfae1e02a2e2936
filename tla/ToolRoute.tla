------------------------------ MODULE ToolRoute ------------------------------
(***************************************************************************)
(* The tools of one agent turn, from the run request that declares them to  *)
(* the delivery of a call: the protocol catalogue                           *)
(* (packages/server/src/agent/native-tools.ts), the MCP tools               *)
(* (mcp-tools.ts), the subagent that restricts them (request-context.ts),   *)
(* the assembly with the server's own tools (tool-assembly.ts,              *)
(* packages/core/src/tools/registry.ts), and the route a model's call takes *)
(* back (turn.ts, protocol.ts).                                             *)
(*                                                                         *)
(* A tool is its name and who declares it.  Every loop of the code is an    *)
(* action per element, so the lists are worked through in order.            *)
(***************************************************************************)
EXTENDS Naturals, Sequences, FiniteSetsExt

CONSTANTS
  ToolNames,     \* names a tool or a call can have
  NoName,        \* the name of a declaration without one
  Catalogue,     \* the tools of the ToolCall oneof, in the order of the sort
  NotOffered,    \* of which are left to Cursor's own orchestration
  AliasOf,       \* names models reach for |-> catalogue names
  Stem,          \* every name without separators and suffixes
  ServerTools,   \* the server's tools, provider after provider
  AgentTools,    \* the tool lists subagent definitions have; {} is no limit
  McpLists       \* the MCP declarations requests carry in one place

ASSUME ToolAssumption ==
  /\ NoName \notin ToolNames
  /\ Catalogue \in Seq(ToolNames)
  /\ AliasOf \in [DOMAIN AliasOf -> ToolNames]
  /\ DOMAIN Stem = ToolNames
  /\ ServerTools \in Seq(ToolNames)
  /\ McpLists \subseteq Seq(ToolNames \cup {NoName})

VARIABLES
  step,       \* what the turn is doing with its tools
  at,         \* elements of the list in hand already worked through
  policy,     \* the user's tool policy
  wanted,     \* what the request declares
  mcp,        \* MCP tools read so far
  declared,   \* the descriptors of the client's tools
  owner,      \* name |-> the descriptor the registry holds
  listed,     \* the registry's names, in the order the model sees them
  executors,  \* names the server runs itself
  sent        \* where the last call went

turnTools == <<mcp, declared, owner, listed, executors>>
toolVars == <<step, at, policy, wanted, turnTools, sent>>

Places == {"request", "context"}   \* where a request declares MCP tools
Descriptor == [name : ToolNames, by : Places \cup {"cursor", "server"}]
NoTool == [name |-> NoName, by |-> "nobody"]
Nowhere == [called |-> NoName, to |-> NoTool]

Names(tools) == {tools[i].name : i \in DOMAIN tools}
Elements(list) == {list[i] : i \in DOMAIN list}

ToolTypeOK ==
  /\ step \in {"reading", "declaring", "seeding", "adding", "calling"}
  /\ at \in Nat
  /\ mcp \in Seq(Descriptor)
  /\ declared \in Seq(Descriptor)
  /\ owner \in [ToolNames -> Descriptor \cup {NoTool}]
  /\ listed \in Seq(ToolNames)
  /\ executors \subseteq ToolNames

ToolInit ==
  /\ step = "reading"
  /\ at = 0
  /\ policy \in [preserve : BOOLEAN, augment : BOOLEAN, deny : SUBSET Elements(ServerTools)]
  /\ wanted \in [request : McpLists, context : McpLists, agent : AgentTools, struct : BOOLEAN]
  /\ mcp = <<>>
  /\ declared = <<>>
  /\ owner = [n \in ToolNames |-> NoTool]
  /\ listed = <<>>
  /\ executors = {}
  /\ sent = Nowhere

-----------------------------------------------------------------------------
(* Ingress: what the client declares.                                      *)

\* The request's MCP definitions, then its context's.
McpDefinitions ==
  [i \in 1..Len(wanted.request) |-> [name |-> wanted.request[i], by |-> "request"]]
  \o [i \in 1..Len(wanted.context) |-> [name |-> wanted.context[i], by |-> "context"]]

\* A definition is kept unless it has no name or one that was seen.
ReadMcp ==
  /\ step = "reading"
  /\ at < Len(McpDefinitions)
  /\ LET tool == McpDefinitions[at + 1]
     IN mcp' = IF tool.name = NoName \/ tool.name \in Names(mcp) THEN mcp ELSE Append(mcp, tool)
  /\ at' = at + 1
  /\ UNCHANGED <<step, policy, wanted, declared, owner, listed, executors, sent>>

McpRead ==
  /\ step = "reading"
  /\ at = Len(McpDefinitions)
  /\ step' = "declaring"
  /\ at' = 0
  /\ UNCHANGED <<policy, wanted, turnTools, sent>>

\* The catalogue the schema describes.
NativeNames == Elements(Catalogue) \ NotOffered
Native(name) == [name |-> name, by |-> "cursor"]

\* A subagent with a list of tools gets no other.
Permitted(tool) == wanted.agent = {} \/ tool.name \in wanted.agent

\* The catalogue comes before the MCP tools.
AllTools == [i \in 1..Len(Catalogue) |-> Native(Catalogue[i])] \o mcp

Declare ==
  /\ step = "declaring"
  /\ at < Len(AllTools)
  /\ LET tool == AllTools[at + 1]
         left == tool.by = "cursor" /\ tool.name \notin NativeNames
     IN declared' = IF left \/ ~Permitted(tool) THEN declared ELSE Append(declared, tool)
  /\ at' = at + 1
  /\ UNCHANGED <<step, policy, wanted, mcp, owner, listed, executors, sent>>

Declared ==
  /\ step = "declaring"
  /\ at = Len(AllTools)
  /\ step' = "seeding"
  /\ at' = 0
  /\ UNCHANGED <<policy, wanted, turnTools, sent>>

-----------------------------------------------------------------------------
(* Assembly: what the model is offered.                                    *)

\* The registry takes a tool under its name, after those it has.
Take(tool) ==
  /\ owner' = [owner EXCEPT ![tool.name] = tool]
  /\ listed' = Append(listed, tool.name)

\* The client's tools are seeded as declared; the first of a name stays.
Seed ==
  /\ step = "seeding"
  /\ policy.preserve
  /\ at < Len(declared)
  /\ LET tool == declared[at + 1]
     IN IF owner[tool.name] = NoTool THEN Take(tool) ELSE UNCHANGED <<owner, listed>>
  /\ at' = at + 1
  /\ UNCHANGED <<step, policy, wanted, mcp, declared, executors, sent>>

Seeded ==
  /\ step = "seeding"
  /\ ~policy.preserve \/ at = Len(declared)
  /\ step' = "adding"
  /\ at' = 0
  /\ UNCHANGED <<policy, wanted, turnTools, sent>>

\* Faulty: the server runs its tools also where their names were taken.
AugmentShadowing ==
  /\ step = "adding"
  /\ policy.augment
  /\ at < Len(ServerTools)
  /\ LET name == ServerTools[at + 1]
     IN /\ executors' = IF name \in policy.deny THEN executors ELSE executors \cup {name}
        /\ IF name \in policy.deny \/ owner[name] # NoTool
           THEN UNCHANGED <<owner, listed>>
           ELSE Take([name |-> name, by |-> "server"])
  /\ at' = at + 1
  /\ UNCHANGED <<step, policy, wanted, mcp, declared, sent>>

\* A server tool is added unless the policy denies it or its name is taken;
\* what was added is what the server will run.
Augment ==
  /\ step = "adding"
  /\ policy.augment
  /\ at < Len(ServerTools)
  /\ LET name == ServerTools[at + 1]
     IN IF name \in policy.deny \/ owner[name] # NoTool
        THEN UNCHANGED <<owner, listed, executors>>
        ELSE /\ Take([name |-> name, by |-> "server"])
             /\ executors' = executors \cup {name}
  /\ at' = at + 1
  /\ UNCHANGED <<step, policy, wanted, mcp, declared, sent>>

Assembled ==
  /\ step = "adding"
  /\ ~policy.augment \/ at = Len(ServerTools)
  /\ step' = "calling"
  /\ at' = 0
  /\ UNCHANGED <<policy, wanted, turnTools, sent>>

-----------------------------------------------------------------------------
(* Egress: where a call goes.  The model may call any name, offered or not. *)

\* The catalogue entry for a name: itself, its alias, or the first near miss.
ResolveTool(name) ==
  LET near == {i \in DOMAIN Catalogue : Catalogue[i] \notin NotOffered /\ Stem[Catalogue[i]] = Stem[name]}
  IN IF name \in NativeNames THEN Native(name)
     ELSE IF name \in DOMAIN AliasOf /\ AliasOf[name] \in NativeNames THEN Native(AliasOf[name])
     ELSE IF near # {} THEN Native(Catalogue[Min(near)]) ELSE NoTool

\* The MCP tool of a name, of which there is one at most, when the schema can
\* carry its arguments.
McpCall(name) ==
  IF wanted.struct /\ name \in Names(mcp)
  THEN mcp[CHOOSE i \in DOMAIN mcp : mcp[i].name = name] ELSE NoTool

\* The client's half: MCP before the catalogue; NoTool is a line of text.
ClientTool(name) == IF McpCall(name) # NoTool THEN McpCall(name) ELSE ResolveTool(name)

CallTool(name) ==
  /\ step = "calling"
  /\ sent' = [called |-> name,
              to |-> IF name \in executors THEN [name |-> name, by |-> "server"]
                     ELSE ClientTool(name)]
  /\ UNCHANGED <<step, at, policy, wanted, turnTools>>

ToolNext ==
  \/ ReadMcp
  \/ McpRead
  \/ Declare
  \/ Declared
  \/ Seed
  \/ Seeded
  \/ Augment
  \/ Assembled
  \/ \E name \in ToolNames : CallTool(name)

ToolSpec == ToolInit /\ [][ToolNext]_toolVars

-----------------------------------------------------------------------------
(* Properties.                                                             *)

\* The first descriptor of a name among those the client declared.
FirstDeclared(tool, i) ==
  /\ declared[i] = tool
  /\ \A j \in 1..(i - 1) : declared[j].name # tool.name

\* "Native descriptors can never be replaced, renamed or dropped by
\* augmentation" (registry.ts): a name belongs to the first tool the client
\* declared under it, and to the server only if the client declared none.
NativesKept ==
  /\ step \in {"adding", "calling"} /\ policy.preserve =>
       \A i \in DOMAIN declared : FirstDeclared(declared[i], i) =>
         /\ owner[declared[i].name] = declared[i]
         /\ declared[i].name \in Elements(listed)
  /\ \A n \in executors : owner[n] = [name |-> n, by |-> "server"]
  /\ \A n \in ToolNames : owner[n].by = "server" => n \in executors
  /\ \A n \in ToolNames : (owner[n] # NoTool) <=> (n \in Elements(listed))
  /\ \A i, j \in DOMAIN listed : i # j => listed[i] # listed[j]

\* The names both an MCP tool and the catalogue have.
Contested == Names(mcp) \cap NativeNames

\* A call goes to the tool the model was shown: to the server exactly for the
\* tools it added, to an MCP tool or to Cursor's own otherwise.  Two cases are
\* set apart: a name that is offered as Cursor's and called as the MCP tool's
\* (protocol.ts:181 and 364), and a schema that cannot carry an MCP tool's
\* arguments.
CallsReachOwner ==
  LET name == sent.called
      shown == owner[name]
  IN sent # Nowhere =>
       /\ sent.to.by = "server" <=> shown.by = "server"
       /\ shown # NoTool /\ name \notin Contested /\ (shown.by \in Places => wanted.struct) =>
            sent.to = shown

\* Offer and delivery agree: what the client declared is what the model is
\* shown, and what the model was shown is what its call reaches
\* (tool-assembly.ts, turn.ts:138).
OfferHolds == NativesKept /\ CallsReachOwner
=============================================================================
