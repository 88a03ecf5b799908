CONSTANTS
  p1 = p1
  p2 = p2
  None = None
  Peers = {p1, p2}
  MaxConn = 1
  QueueLen = 1
  CntMod = 2
  AttMtus = {23}
  Size <- MCSize
  Inputs = {"TOGGLE", "HEAT"}
  MaxEvents = 1
SPECIFICATION FairSpec
INVARIANTS ChunksConcatenate
PROPERTIES HeatSendEnds ButtonRecovers
CHECK_DEADLOCK FALSE
