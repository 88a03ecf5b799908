SPECIFICATION Spec
CONSTANTS
  Jobs <- MCJobs
  Cuts = {0, 1, 5}
  HashBits = 10
  MinBlock = 9
  MaxBlock = 10
  MaxStored = 8
INVARIANTS MatchesReachBack SearchSound CodesOptimal Restored
PROPERTY ImplementsMatcher
CHECK_DEADLOCK FALSE
