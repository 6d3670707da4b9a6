CONSTANTS
  Format = "pcm"
  Commands <- MCNoFlush
  Connects <- MCConnected
  EarlyNotify = 1
  FlushMargin = 1
  NotifyAt = 1
  Bursts = {1}
  MaxFrames = 2
  MaxTasks = 1
SPECIFICATION FairSpec
PROPERTIES DrainEnds CommandAnswered
CHECK_DEADLOCK FALSE
