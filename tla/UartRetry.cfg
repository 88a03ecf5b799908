CONSTANTS
  b1 = b1
  b2 = b2
  b3 = b3
  None = None
  Blocks = {b1, b2, b3}
  CdcBlocks = 2
  RingSize = 2
  TxLens = {1, 2}
  BleWrites = {}
  MaxEvents = 3
  MaxNet = 1
SPECIFICATION Spec
SYMMETRY Symmetry
INVARIANTS RxOnlyForSubscribers
