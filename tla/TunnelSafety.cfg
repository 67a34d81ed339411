SPECIFICATION Spec
CONSTANTS
  s1 = s1
  s2 = s2
  Sessions = {s1, s2}
  DataPlaneErrors = TRUE
  TunnelMsgs <- AnyTunnelMsg
  SessionMsgs <- AnySessionMsg
  MaxRecv = 3
  Closers = {s1, s2}
  TunnelCloses = TRUE
  XportFails = TRUE
  CausalPeer = FALSE
INVARIANTS SessionsGoneByTunnelDown SessionDataPlaneInTunnels EstablishedNeverPanics
PROPERTY EventsAsPromised
SYMMETRY Symmetry
CHECK_DEADLOCK FALSE
