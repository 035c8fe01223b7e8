SPECIFICATION Spec
CONSTANTS
  Schema <- MCSchema
  MessageType <- MCMessageType
  Half32 = 4
  Half64 = 8
  PastMax <- MCPastMax
  Tokens <- MCTokens
  Json <- MCJson
  Commands <- MCCommands
  Answers <- MCAnswers
  Accepts <- MCAccepts
  ToMessage <- MCToMessage
  ToObject <- MCToObject
  Cuts <- MCCuts
  HasType <- MCHasType
  Says <- MCSays
INVARIANTS
  TypeOK
  NothingLost
  PrintedIsReadable
