SPECIFICATION Spec
CONSTANTS
  p1 = p1
  p2 = p2
  Peers <- TwoPeers
  Default = p1
  Preset <- PresetPeer
  Refreshes = {r1, r2}
  Buttons = {b1, b2}
  Clicks = {c1, c2}
  Clients <- NoClients
  MaxInFlight = 2
INVARIANTS TypeOK SendsWhereShown BadgeIsOfHeader PortShownTruly
