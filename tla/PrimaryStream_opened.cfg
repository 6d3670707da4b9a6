CONSTANTS
  Streams = {s1}
  Cards = {ad242x, usb}
  A2bCard = ad242x
  Stub = stub
  None = none
  Outputs = {"usb"}
  A2bFormat = {s1}
  Routes = {"none", "speaker", "bus"}
  BurstStates <- MCAfterStart
  Attempts = 2
SPECIFICATION Spec
INVARIANTS DevicesAreOpened
CHECK_DEADLOCK FALSE
