CONSTANTS
  Callers = {p, q}
  QueueFrames = 1
  PeriodFrames = 1
  MaxClients = 2
  MaxOffered = 2
  MaxFlushes = 0
  NoCall = NoCall
SPECIFICATION FairSpec
PROPERTIES EnqueueReturns TeardownCompletes
CHECK_DEADLOCK FALSE
