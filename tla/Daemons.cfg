SPECIFICATION DaemonsSpec
CONSTANTS
  Sessions <- OneOfEach
  PwType <- TypeOf
  BridgeFailures = {"pppoe socket", "pppoe channel", "pppol2tp socket", "bridge"}
  MaxSignals = 1
INVARIANTS NeverPanics  GracefulExitLeavesNothing
PROPERTIES  ClosedSessionsEnd 
CHECK_DEADLOCK FALSE
