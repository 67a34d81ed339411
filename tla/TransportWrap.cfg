SPECIFICATION Spec
CONSTANTS
  SeqMod = 4
  CfgTxWindowSize = 1
  CfgMaxRetries = 1
  Sends <- OneWay5
  HelloNodes <- Nobody
  IOErrors <- Nobody
  CloseNodes <- Nobody
  AvpNodes <- Nobody
  MaxRxQueue = 1
INVARIANTS NoGoodFrameRefused
PROPERTIES AtoBIsReliable
CHECK_DEADLOCK FALSE
