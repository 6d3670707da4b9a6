CONSTANTS
  Streams = {s1}
  Cards = {ad242x, usb}
  A2bCard = ad242x
  Stub = stub
  None = none
  Outputs = {"rpi", "usb"}
  A2bFormat = {s1}
  Routes = {"none", "speaker", "bus"}
  BurstStates <- MCAfterStart
  Attempts = 2
SPECIFICATION FairSpec
INVARIANTS UsersMatchClients HeldSinksAreInUse
PROPERTIES StartEnds
CHECK_DEADLOCK FALSE
