CONSTANTS
  p = p  q = q  mock = mock
  NoConfig = NoConfig
  Peers = {p, q}
  Unaddressed = {q}
  MockPeers = {mock}
  Files <- FewFiles
SPECIFICATION Spec
CHECK_DEADLOCK FALSE
INVARIANTS ProxyDials
