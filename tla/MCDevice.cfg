CONSTANTS
  HciClients = {h1, h2, h3}
  NoClient = none
  CecCallers = {t1, t2}
  CecAddresses = {playback}
  MaxQueued = 1
  StoreCallers = {c1, c2}
  StoreTexts = {v1, v2}
SPECIFICATION DeviceSpec
INVARIANTS FallbackIsConfirmed AnswersAreTrue ProfilesSurvive
PROPERTIES TrialFallsBack ServicesReact
CHECK_DEADLOCK FALSE
