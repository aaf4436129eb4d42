CONSTANTS
  c1 = c1  c2 = c2  p1 = p1
  Peers = {p1}
  Calls = {c1, c2}
  NoRequest = NoRequest
  Requests <- LibraryRequests
SPECIFICATION FairSpec
INVARIANTS TypeOK OneProberPerPeer RelayIsProbed DirectIsEarned SwitchesCounted
PROPERTIES ImplementsLinkState EvaluationReturns NoDialerLeaks RelayHeals
