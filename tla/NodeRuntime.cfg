SPECIFICATION FairSpec
CONSTANTS
  n1 = n1
  n2 = n2
  b1 = b1
  b2 = b2
  b3 = b3
  Node = {n1, n2}
  NoNode = NoNode
  Branch = {b1, b2, b3}
  NoBranch = NoBranch
  Whole = Whole
  Flow <- MCFlow
  TimeMax = 2
  TriesMax = 2
  MaxFaults = 1
  MaxSignals = 2
CHECK_DEADLOCK FALSE
INVARIANTS
  TypeOK
  BranchAtMostOnce
  LoneBranchByReport
PROPERTIES
  WaitsItsTime
  DecidedByPost
  EveryBranchRuns
  SignalledLeaves
  NodesEnd
