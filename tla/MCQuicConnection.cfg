SPECIFICATION FairSpec
CONSTANTS
  Verdicts = {"uncertified", "stranger", "unversioned", "alpnless", "untrusted", "unenrolled", "welcome"}
  Versions = {8, 9}
  ReplyLengths = {1, 2, 3}
  MaxFrame = 2
  MaxCalls = 2
INVARIANTS
  StrangersHearNothing
  RepliesWhole
  ReplyBeatsClose
  LeftoversBounded
  RefusalsNamed
PROPERTIES
  FirstReasonStands
  EndIsTold
CHECK_DEADLOCK FALSE
