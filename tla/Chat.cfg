SPECIFICATION Spec
CONSTANTS
  p1 = p1  p2 = p2  m1 = m1  m2 = m2
  Peers <- TwoPeers
  Messages <- TwoMessages
  None = None
  MaxSwitches = 3
SYMMETRY ChatSymmetry
INVARIANTS TypeOK StaleOnlyAfterSwitch OrderKept HistoryIsPrefix
PROPERTIES ImplementsLog
