SPECIFICATION FairSpec
CONSTANTS
  t1 = t1
  t2 = t2
  call = call
  wait = wait
  alt = alt
  Task = {t1, t2}
  Owner = {s1, s2}
  Node = {call, wait}
  NoOwner = NoOwner
  NoNode = NoNode
  NoTask = NoTask
  NoSignal = NoSignal
  LeaseTTL = 2
  AgeMax = 1
  Action <- MCAction
  EmptyAction <- MCEmpty
  DefaultAction <- MCDefault
  Edges <- MCEdges
  Start <- MCStart
  Emits <- MCEmitsFew
  MaxRetries <- MCNoRetries
  BadFlow = {}
  Cancelable = {t1}
  Signaled = {}
  RoundMax = 1
  MaxCrashes = 0
PROPERTIES
  CancelHonoured
