CONSTANTS
  NoMsg = NoMsg
  QueueLen <- MCQueueLen
  MaxReadings = 4
SPECIFICATION FairSpec
INVARIANTS HeapAccounted StateFollowsSession ErrorFreesOnlyStrings
PROPERTIES ImplementsFeed PathDrains
CHECK_DEADLOCK FALSE
