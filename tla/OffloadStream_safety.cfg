CONSTANTS
  Format = "mpeg"
  Commands <- MCAll
  Connects <- MCConnected
  EarlyNotify = 1
  FlushMargin = 1
  NotifyAt = 1
  Bursts = {1}
  MaxFrames = 2
  MaxTasks = 1
SPECIFICATION Spec
INVARIANTS NoCallbackLeftBehind OnlyPromisedDrainReady
PROPERTIES WorkerOwnsState
CHECK_DEADLOCK FALSE
