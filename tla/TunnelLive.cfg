SPECIFICATION FairSpec
CONSTANTS
  s1 = s1
  s2 = s2
  Sessions = {s1, s2}
  DataPlaneErrors = TRUE
  TunnelMsgs = {"sccrp", "stopccn", "bad"}
  SessionMsgs = {"icrp"}
  MaxRecv = 3
  Closers = {}
  TunnelCloses = TRUE
  XportFails = FALSE
  CausalPeer = TRUE
PROPERTIES CloseReturns DeadReleasesTransport
CHECK_DEADLOCK FALSE
