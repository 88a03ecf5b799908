CONSTANTS
  MaxPresses = 5
  Sizes = {0, 1, 3}
  Chunk = 2
  OldLen = 2
  MaxImages = 2
  MaxTime = 2
  MaxAir = 2
  Budgets <- MCBudgets
SPECIFICATION FairSpec
INVARIANTS ReceivedIsTaken FilesHoldImage ListenersCounted LossIsTold
PROPERTIES ImageArrives
CHECK_DEADLOCK FALSE
