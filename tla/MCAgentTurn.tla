----------------------------- MODULE MCAgentTurn -----------------------------
(***************************************************************************)
(* Bounds for AgentTurn and for the steps of a turn that have modules of    *)
(* their own: the tools it offers, the conversation it sends, the connection *)
(* it sends it on and the answer it reads.  A behaviour is one of the five; *)
(* the others rest at one of their initial states.                          *)
(*                                                                          *)
(* AgentTurn: two rounds of server tools instead of six, the three HTTP     *)
(* attempts of the code, and answers of up to three events before the last  *)
(* one, so that one answer can hold a text or a usage event, a client call  *)
(* and a server call.                                                       *)
(***************************************************************************)
EXTENDS AgentTurn, ToolRoute, Conversation, ProxyTunnel, ProviderStream

VARIABLE part   \* whose behaviour this is

mcVars == <<part, vars, toolVars, talkVars, tunnelVars, streamVars>>

-----------------------------------------------------------------------------
(* Tools: "search" is Cursor's and the server's, twice; "bash" is an alias  *)
(* and an MCP tool; "read_file" a near miss; "fetch" only the server's.     *)
MCToolNames == {"bash", "read", "read_file", "search", "fetch", "shell", "truncated"}
MCCatalogue == <<"read", "search", "shell", "truncated">>
MCAliasOf == [n \in {"bash"} |-> "shell"]
MCStem == [n \in MCToolNames |-> IF n = "read_file" THEN "read" ELSE n]
MCServerTools == <<"search", "fetch", "search">>
MCAgentTools == {{}, {"read"}, {"read", "search"}}
MCMcpLists == {<<>>, <<"bash">>, <<"search">>, <<"", "search", "bash">>}

(* A conversation of up to three entries.                                   *)
MCUserContents == {<<"text">>, <<"empty">>, <<"text", "image", "empty">>}
MCReplyContents == {<<"text">>, <<"reasoning">>, <<"call", "text", "call">>}
MCToolContents == {<<"text">>, <<"image">>}

(* Local, exempt and other hosts, some that only look it; proxies named by    *)
(* hand and by the variables of either scheme; refusals, agreements and      *)
(* headers that hold a number, cut short or not.                             *)
MCTargets ==
  [host : {<<"api", "corp">>, <<"mycorp">>, <<"a", "localhost">>, <<"127", "0", "0", "1">>, <<"127">>},
   secure : BOOLEAN, explicit : {"none", "p0"}]
MCEnvironments ==
  [proxies : {<<>>, [v \in {"HTTPS_PROXY"} |-> "p1"], [v \in {"http_proxy", "ALL_PROXY"} |-> "p2"]},
   except : {<<>>, <<<<>>, <<"corp">>>>, <<<<"*">>>>}]
MCReplies ==
  {<<>>, <<"2xx">>, <<"2xx", "blank">>, <<"2xx", "plain", "blank">>,
   <<"other", "2xx">>, <<"other", "2xx", "blank">>}

(* An answer of up to three blocks, each of every kind; of two parallel calls *)
(* one comes in fragments.                                                   *)
MCPayloads ==
  [is : {"text", "error", "done", "garbled"}]
  \cup {[is |-> "call", index |-> 0, opens |-> TRUE], [is |-> "call", index |-> 0, opens |-> FALSE],
        [is |-> "call", index |-> 1, opens |-> TRUE]}
  \cup {[is |-> "finish", reason |-> "length"]}

-----------------------------------------------------------------------------
TurnRests == ingress = "agent" /\ route = "direct" /\ closed = FALSE /\ Init
ToolsRest ==
  /\ policy = [preserve |-> TRUE, augment |-> TRUE, deny |-> {}]
  /\ wanted = [request |-> <<>>, context |-> <<>>, agent |-> {}, struct |-> TRUE]
  /\ ToolInit
TalkRests ==
  /\ talk = [api |-> "openai", history |-> <<>>, latest |-> TRUE, prompt |-> TRUE]
  /\ TalkInit
TunnelRests ==
  /\ TunnelInit
  /\ asked = [host |-> <<"127">>, secure |-> FALSE, explicit |-> "none"]
  /\ env = [proxies |-> <<>>, except |-> <<>>] /\ connectReply = <<>> /\ apiSpeaks = TRUE
StreamRests ==
  /\ given = [by |-> "openai", crlf |-> FALSE, lacks |-> 0, blocks |-> <<>>]
  /\ StreamInit

MCInit ==
  \/ part = "turn" /\ ToolsRest /\ TalkRests /\ TunnelRests /\ StreamRests /\ Init
  \/ part = "tools" /\ TurnRests /\ TalkRests /\ TunnelRests /\ StreamRests /\ ToolInit
  \/ part = "talk" /\ TurnRests /\ ToolsRest /\ TunnelRests /\ StreamRests /\ TalkInit
  \/ part = "tunnel" /\ TurnRests /\ ToolsRest /\ TalkRests /\ StreamRests /\ TunnelInit
  \/ part = "stream" /\ TurnRests /\ ToolsRest /\ TalkRests /\ TunnelRests /\ StreamInit

TurnSteps ==
  part = "turn" /\ Next /\ UNCHANGED <<part, toolVars, talkVars, tunnelVars, streamVars>>
ToolSteps ==
  part = "tools" /\ ToolNext /\ UNCHANGED <<part, vars, talkVars, tunnelVars, streamVars>>
TalkSteps ==
  part = "talk" /\ TalkNext /\ UNCHANGED <<part, vars, toolVars, tunnelVars, streamVars>>
TunnelSteps ==
  part = "tunnel" /\ TunnelNext /\ UNCHANGED <<part, vars, toolVars, talkVars, streamVars>>
StreamSteps ==
  part = "stream" /\ StreamNext /\ UNCHANGED <<part, vars, toolVars, talkVars, tunnelVars>>

MCNext == TurnSteps \/ ToolSteps \/ TalkSteps \/ TunnelSteps \/ StreamSteps

\* The runner owes its steps, and the connection those that nothing can keep from it.
MCFairness ==
  /\ WF_vars(part = "turn" /\ ~Held /\ Step)
  /\ WF_tunnelVars(part = "tunnel" /\ Moves)

MCSpec == MCInit /\ [][MCNext]_mcVars /\ MCFairness
=============================================================================
