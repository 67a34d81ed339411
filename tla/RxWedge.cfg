SPECIFICATION Spec
CONSTANTS
  SeqMod = 16
  CfgTxWindowSize = 2
  CfgMaxRetries = 1
  Sends <- OneWay3
  HelloNodes <- Nobody
  IOErrors <- Nobody
  CloseNodes <- Nobody
  AvpNodes <- Nobody
  MaxRxQueue = 2
INVARIANTS NothingHandleableLeft
CHECK_DEADLOCK FALSE
