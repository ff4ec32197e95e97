SPECIFICATION TunnelFairSpec
CONSTANTS
  Slots = {s1, s2}
  NoSlot = NoSlot
  Pumps = {p}
  Cap = 1
  Interval = 1
  StaleAfter = 1
INVARIANTS
  TunnelTypeOK
PROPERTIES
  SilenceNoticed
  SessionGivesWay
  EndedSocketsClose
