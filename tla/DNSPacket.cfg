\* The test bed, with fakedns and with other name servers.
SPECIFICATION BedSpec
CONSTANTS
  Datagrams <- SomeDatagrams
  Malformed <- SomeMalformed
  Rooms <- SomeRooms
  Prefix <- WellKnownPrefix
  TestQueries <- SomeTestQueries
  Confs <- SomeConfs
  Leftovers <- SomeLeftovers
  Maxlengths = {48, 64, 75, 76}
  NoNumber = NoNumber
  NoClient = NoClient
INVARIANTS
  TypeOK
  PointersFollow
  RecordsKept
  SentWholeIfItFits
  ReplyAsConfigured
  
  LastFakeLineDecides
\* One packet is handled, then nothing happens any more.
CHECK_DEADLOCK FALSE
