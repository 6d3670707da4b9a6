CONSTANTS
  Callers = {p, q}
  QueueFrames = 3
  PeriodFrames = 2
  MaxClients = 1
  MaxOffered = 4
  MaxFlushes = 2
  NoCall = NoCall
SPECIFICATION Spec
SYMMETRY Symmetry
INVARIANTS Conservation NoLostWakeup
PROPERTIES NothingStaleIsHeard ImplementsFifo
CHECK_DEADLOCK FALSE
