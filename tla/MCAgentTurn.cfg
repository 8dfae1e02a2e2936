SPECIFICATION MCSpec
INVARIANTS NoNewWorkAfterClose CallsReachClient DoneIsLast OfferHolds TalkConveyed AnswerFaithful
PROPERTIES TurnEnds ImplementsReply TunnelSettles
CONSTANTS
  MaxRounds = 2
  Attempts = 3
  AnswerLength = 3
  Ingresses = {"agent", "stream", "buffered"}
  ToolNames <- MCToolNames
  NoName = ""
  Catalogue <- MCCatalogue
  NotOffered = {"truncated"}
  AliasOf <- MCAliasOf
  Stem <- MCStem
  ServerTools <- MCServerTools
  AgentTools <- MCAgentTools
  McpLists <- MCMcpLists
  Apis = {"openai", "anthropic", "gemini"}
  UserContents <- MCUserContents
  ReplyContents <- MCReplyContents
  ToolContents <- MCToolContents
  EntryLimit = 3
  Targets <- MCTargets
  Environments <- MCEnvironments
  Direct = "none"
  Replies <- MCReplies
  Adapters = {"openai", "anthropic", "gemini"}
  BlockPayloads <- MCPayloads
  ParallelCalls = 2
  BlockLimit = 3
CHECK_DEADLOCK FALSE
