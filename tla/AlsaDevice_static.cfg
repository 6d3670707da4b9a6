CONSTANTS
  Sustainable = {48000, 96000}
  FccLimit = 2
  MaxChannels = 3
  WideDevices = FALSE
SPECIFICATION AlsaDeviceSpec
INVARIANTS StaticProfilesOpen
CHECK_DEADLOCK FALSE
