SPECIFICATION FairSpec
CONSTANTS
  Rows = 2
  Cols = 4
  EEs <- MCEEs
  Controls <- MCControls
  Cycle = 10
  Intervals = {0, 10}
INVARIANTS MapIsWhole ReadyMeansUsable
PROPERTIES HeatCycles
