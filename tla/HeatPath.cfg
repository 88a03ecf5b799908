CONSTANTS
  NoMsg = NoMsg
  QueueLen <- MCQueueLen
  Size <- MCSize
  BufLen = 3
  MaxFrames = 2
  Budgets <- MCBudgets
SPECIFICATION FairSpec
INVARIANTS HeapAccounted MapsOnceInOrder ToggledByPresses FaultOnlyAfterCut InStep
PROPERTIES MapArrives
CHECK_DEADLOCK FALSE
