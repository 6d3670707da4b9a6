CONSTANTS
  InputFrames = 3
  AlsaKinds <- MCKinds
  AlsaFrames = 4
  AlsaDevices = {d1, d2}
  Formats <- MCFormats
  Kinds = {"plain", "keeping", "downmix"}
SPECIFICATION StreamsSpec
INVARIANTS DriverCallsAllowed OneCallAtATime
PROPERTIES FramesContinue EffectBurstsAreKept WaitsEnd
CHECK_DEADLOCK FALSE
