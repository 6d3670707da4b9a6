CONSTANTS
  InitialPorts <- MCPorts
  InitialRoutes <- MCRoutes
  Addresses = {"a", "b"}
  GainPorts = {3}
  MaxOpen = 1
  FirstId = 10
  LastId = 12
  LastPatch = 2
  StreamsMayFail = FALSE
  o1 = o1
  o2 = o2
  i1 = i1
  i2 = i2
  Outputs = {o1, o2}
  Inputs = {i1, i2}
  SubmixSessions <- MCSessions
  SubmixAddresses = {sm}
  ConfigOf <- OneConfig
  MaxRoutes = 2
  Reconnects = FALSE
  MixHandles = {1, 2}
  BtRates = {16, 44}
  LoadedRates <- MCLoaded
  MaxProxies = 2
  LastPortId = 2
  ConfiguresInUse = FALSE
  Sustainable = {96000, 192000}
  FccLimit = 2
  MaxChannels = 3
  WideDevices = FALSE
  UsbCards = {1, 2}
  Levels = {295, 1000}
  SwitcherDevices <- MCConnected
  StreamEffects = {"x"}
  LastParameter = 2
  Files <- MCFiles
  BurstSizes = {1, 2, 3, 4, 5, 7, 11}
  TagHeader = 3
  TagIdentifier = 2
  FrameHeader = 2
  FrameSamples = 6
  VolumesDb <- MCVolumes
  Energies = {0, 3, 6}
  LibraryElements <- MCLibraries
  EffectElements <- MCEffectElements
  ChainElements <- MCChains
  KnownEffects = {"volume"}
  Nil = "nil"
  MaxElements = 5
  Effects = {"e1", "e2", "e3"}
  TypeOf <- MCTypes
  Sessions = {s1, s2}
  NoSession = none
  MaxSessions = 2
  Moves = FALSE
  LevelMapping <- MCLevelMapping
  LPFMapping <- MCLPFMapping
  Presets <- MCPresets
  Settings <- MCSettings
  ChannelCounts = {1}
  Architectures <- MCArchitectures
  BandValues <- MCBands
  Gains = {2}
  Groups = {0}
  StagesSet = {"preEq", "postEq"}
  MaxConfigs = 1
  HalfFft = 3
  BlockSize = 3
  OverlapSize = 1
  DpBursts = {1, 3}
  BufSize = 4
  Sizes = {2, 4}
  Latencies = {0, 1, 2}
  Window = 2
  VzBursts = {1, 3}
  MaxFrames = 4
  ModuleElements <- MCModuleElements
  StrategyElements <- MCStrategyElements
  References <- MCReferences
  GroupElements <- MCGroupElements
  StreamVolumes <- MCStreamVolumes
  VolumeReferences <- MCVolumeReferences
  LegacyStrategies <- MCLegacy
  VendorStart = 1000
  Missing = missing
  MaxPolicyElements = 4
SPECIFICATION AudioSpec
INVARIANTS    MpegClipsAreExact  ReportedCanBeCreated OpenEffectHasInstance 
PROPERTIES RequestsAreFollowed
CHECK_DEADLOCK FALSE
