SPECIFICATION FairSpec
CONSTANTS
  t1 = t1
  t2 = t2
  call = call
  wait = wait
  alt = alt
  Task = {t1, t2}
  Owner = {s1, s2, s3}
  Node = {call, wait}
  NoOwner = NoOwner
  NoNode = NoNode
  NoTask = NoTask
  NoSignal = NoSignal
  LeaseTTL = 2
  AgeMax = 0
  Action <- MCAction
  EmptyAction <- MCEmpty
  DefaultAction <- MCDefault
  Edges <- MCEdges
  Start <- MCStartCall
  Emits <- MCEmitsNever
  MaxRetries <- MCNoRetries
  BadFlow = {}
  Cancelable = {}
  Signaled = {}
  RoundMax = 1
  MaxCrashes = 1
PROPERTIES
  EveryTaskAdvances
