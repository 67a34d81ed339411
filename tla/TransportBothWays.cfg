SPECIFICATION Spec
CONSTANTS
  SeqMod = 16
  CfgTxWindowSize = 1
  CfgMaxRetries = 1
  Sends <- BothWays
  HelloNodes <- Nobody
  IOErrors <- Nobody
  CloseNodes <- Nobody
  AvpNodes <- Nobody
  MaxRxQueue = 1
PROPERTIES BothWaysReliable
CHECK_DEADLOCK FALSE
