SPECIFICATION SingleSpec
CONSTANTS
  None = None
  KeepsStep = {TRUE, FALSE}
  InBase = 4
  OutBase = 3
  PageSize = 5
  AddressBytes = 9
  AddressText = 15
  AddressEnd = 13
  Numbers64 <- MCNumbers64
  Numbers32 <- MCNumbers32
  Numbers8 <- MCNumbers8
  Ratios <- MCRatios
  Addresses <- MCAddresses
  PathIndex <- MCPathIndex
  Counters <- MCCounters
VIEW View
INVARIANTS
  SingleTypeOK
  ShownIsHashed
  TextsFit
  KeysAreThoseShown
