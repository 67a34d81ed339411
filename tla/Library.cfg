SPECIFICATION LibrarySpec
CONSTANTS
  Callers = {c1, c2, c3}
  MaxCalls = 2
  Calls <- ThreeCalls
  Kind <- OneOfEachKind
  TunnelName <- DistinctTunnelNames
  WantID <- OneAllocated
  TunnelIDs <- FewIDs
  UserCloses <- ThreeCalls
  Overlap = TRUE
  XportsFail = TRUE
  Sessions <- ThreeSessions
  SessionName <- DistinctSessionNames
  SessionID <- SharedID
  DataPlaneErrors = TRUE
  ReaderFails = TRUE
  Handlers = {"h1", "h2", "h3"}
  Emitters = {"e1", "e2"}
  MaxEvents = 1
INVARIANTS AnswersOwnRequest  RegistryFollowsTunnels OneDownPerUp NoSessionLost RegisteredAreCalled
PROPERTIES  CallsReturn 
CHECK_DEADLOCK FALSE
