CONSTANTS
  image = image
  map = map
  NoMsg = NoMsg
  Files <- MCFiles
  Parts <- MCParts
  QueueLen = 2
  Handles = 2
  MaxEvents = 2
SPECIFICATION FairSpec
INVARIANTS RecoveryUnderway PayloadsAccounted NothingLostSilently
PROPERTIES CardRecovers
CHECK_DEADLOCK FALSE
