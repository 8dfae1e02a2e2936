SPECIFICATION MCSpec
INVARIANTS AskedOnce AnswerUnderstood WireFaithful RoundTrip RoutedByConfig
PROPERTIES ImplementsHonestAnswer Settles PickedIsServed
CONSTANTS
  MaxParts = 3
  Base = 4
  Protocols = {"connect-unary", "connect-stream", "grpc", "grpc-web"}
  Payload <- MCPayload
  Codes = {1, 3}
  AnswerLimit = 2
  Group = 4
  WordSize = 32
  MostGroups = 4
  Fields <- MCFields
  FieldLimit = 2
  Word = 64
  Half = 8
  Exact = 16
  Schema <- MCSchema
  WireFields <- MCWireFields
  WireLimit = 2
  Edits <- MCEdits
  Messages <- MCMessages
  Depth = 2
  DecodeInner <- MCDecode
  EncodeInner <- MCEncode
  InnerMeaning <- MCMeaning
  Settings <- MCSettings
  Spelled <- MCSpelled
  Asked <- MCAsked
  NoPath <- MCNoPath
  Tokens <- MCTokens
  Dotted = {"s.x"}
  CacheLimit = 1
  Documents <- MCDocuments
  Official <- MCOfficial
  Cursor = "cursor"
  MaxEdits = 1
CHECK_DEADLOCK FALSE
