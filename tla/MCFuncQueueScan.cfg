SPECIFICATION Spec
CONSTANTS
  n_devs = 4
  TIME_NEVER = 9
  Times <- MCTimes
  Indexes <- MCIndexes
INVARIANTS
  ScanInv
  ScanFindsNext
