SPECIFICATION FairSpec
CONSTANTS
  first = first
  second = second
  other = other
  async1 = async1
  async2 = async2
  local = local
  Worker = {first, second, other, async1, async2, local}
  Type <- MCType
  URL <- MCURL
  Fleets <- MCFleets
  TTL = 2
  MaxCalls = 1
  MaxLost = 2
  MaxStops = 2
CHECK_DEADLOCK FALSE
INVARIANTS
  TypeOK
  ListedWhileBeating
  DeadIsDropped
  ExecutedOnceAnswered
  FailsWhenAllFail
PROPERTIES
  GoneGoesOffline
