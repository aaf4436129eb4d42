CONSTANT MaxSent = 2
SPECIFICATION FairSpec
CHECK_DEADLOCK FALSE
INVARIANTS TypeOK TornDownWhenComplete
PROPERTIES CopiersExit LeavingEndsTunnel
