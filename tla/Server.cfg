CONSTANTS
  a1 = a1  a2 = a2  k1 = k1  k2 = k2  k3 = k3
  Callers = {a1, a2}
  Conns = {k1, k2}
  NoConn = NoConn
  MaxStarts = 3
SPECIFICATION FairSpec
CHECK_DEADLOCK FALSE
INVARIANTS TypeOK RunningIsServed ActiveConnsExact
PROPERTIES ImplementsPort StoppedEnds QueuedIsAnswered
