SPECIFICATION Spec
CONSTANTS
  Bits32 = 10
  Bits64 = 15
  MaxFrame = 1000
  MaxCalls = 2
  Peers <- MCPeers
  Doors <- MCDoors
  FirstIntents <- MCFirstIntents
  LaterIntents <- MCLaterIntents
  Failures <- MCFailures
  Results <- MCResults
  CallBytes <- EncodeCall
  CallsIn <- DecodeCall
  ReplyBytes <- EncodeReply
  RepliesIn <- DecodeReply
CONSTRAINT Combined
INVARIANTS
  CallsArriveAsMade
  OwnReplyOrNone
  NothingUnreadable
  PartIsNoMessage
  DowngradedAsBuilt
  ContractDecides
  HandlersSeeTheName
CHECK_DEADLOCK FALSE
