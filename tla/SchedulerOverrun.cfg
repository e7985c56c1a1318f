SPECIFICATION Spec
CONSTANTS
  t1 = t1
  t2 = t2
  call = call
  wait = wait
  alt = alt
  Task = {t1, t2}
  Owner = {s1, s2}
  Node = {call, wait}
  NoOwner = NoOwner
  NoNode = NoNode
  NoTask = NoTask
  NoSignal = NoSignal
  LeaseTTL = 1
  AgeMax = 0
  Action <- MCAction
  EmptyAction <- MCEmpty
  DefaultAction <- MCDefault
  Edges <- MCEdges
  Start <- MCStart
  Emits <- MCEmits
  MaxRetries <- MCRetries
  BadFlow = {t2}
  Cancelable = {t1}
  Signaled = {}
  RoundMax = 2
  MaxCrashes = 1
SYMMETRY MCSymmetry
INVARIANTS
  EmptiedIsFinal
  FencedCursor
PROPERTIES
  MoveIsRecorded
