CONSTANTS
  p1 = p1
  p2 = p2
  None = None
  Peers = {p1, p2}
  MaxConn = 2
  QueueLen = 1
  CntMod = 2
  AttMtus = {23}
  Size <- MCSize
  Inputs = {"TOGGLE", "UART"}
  MaxEvents = 1
SPECIFICATION Spec
SYMMETRY Symmetry
INVARIANTS TypeOK SlotsMatchPeers PayloadsAccounted OverrunsNeedLateMtu
PROPERTIES HeardWholeOrNot
CHECK_DEADLOCK FALSE
