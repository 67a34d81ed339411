SPECIFICATION Spec
CONSTANTS
  SeqMod = 16
  CfgTxWindowSize = 1
  CfgMaxRetries = 1
  Sends <- OneWay1
  HelloNodes <- JustA
  IOErrors <- Both
  CloseNodes <- JustA
  AvpNodes <- JustA
  MaxRxQueue = 1
INVARIANTS NoCallerLeftWaiting
PROPERTIES AtoBIsReliable
CHECK_DEADLOCK FALSE
