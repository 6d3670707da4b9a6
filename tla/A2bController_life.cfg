CONSTANTS
  Streams = {s1, s2}
  Profiles <- MCProfiles
  DefaultId = "bench"
  StartMuted <- MCStartMuted
  LoadResults <- MCAllResults
  NoProfile = "none"
  WrongProfile = "wrong"
SPECIFICATION FairSpec
INVARIANTS AudibleOnlyWhenReady SilencedAmplifier
PROPERTIES SelectionIsQuiet ClockFailureStops
