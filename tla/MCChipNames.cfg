SPECIFICATION NamesSpec
CONSTANTS
  Dir = {h1, h2}
  Dev = {d1, d2, d3}
  NoDevice = NoDevice
  MaxDeviceLinks = 3
  Places <- MCPlaces
INVARIANTS
  NamesTypeOK
  VirtualOnlyWithoutBus
  DistinctChipsDistinctNames
PROPERTIES
  WalkEnds
