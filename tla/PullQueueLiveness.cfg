SPECIFICATION FairSpec
CONSTANTS
  t1 = t1
  t2 = t2
  fetch = fetch
  check = check
  store = store
  Task = {t1, t2}
  Node = {fetch, check, store}
  NoNode = NoNode
  QueueNode = {fetch, store}
  Start <- MCStart
  OkNext <- MCOkNext
  ErrNext <- MCErrNext
  Worker = {w1, w2}
  MaxJobs = 3
  MaxFaults = 0
CHECK_DEADLOCK FALSE
PROPERTIES
  JobsAreWorked
  SuspendedFirstResumes
