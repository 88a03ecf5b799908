CONSTANTS
  NoMsg = NoMsg
  QueueLen <- MCQueueLen
  MaxReadings = 1
SPECIFICATION FairSpec
PROPERTIES AttemptsReconnect
CHECK_DEADLOCK FALSE
