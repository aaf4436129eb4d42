CONSTANTS
  p = p  q = q  mock = mock
  NoConfig = NoConfig
  Peers = {p, q}
  Unaddressed = {q}
  MockPeers = {mock}
  Files <- FewFiles
SPECIFICATION FairSpec
CHECK_DEADLOCK FALSE
INVARIANTS TypeOK OverviewNeverOverclaims ModeIsHonest PeersMatchMode CleanExit
PROPERTIES ShutdownReturns PeersFollow
