SPECIFICATION Spec
CONSTANTS
  Datagrams <- SomeDatagrams
  Malformed <- SomeMalformed
  Rooms <- SomeRooms
  Prefix <- WellKnownPrefix
INVARIANT
  RdataNamesKept
CHECK_DEADLOCK FALSE
