SPECIFICATION Spec
CONSTANTS
  SeqMod = 16
  CfgTxWindowSize = 2
  CfgMaxRetries = 2
  Sends <- OneWay3
  HelloNodes <- Nobody
  IOErrors <- Nobody
  CloseNodes <- Nobody
  AvpNodes <- Nobody
  MaxRxQueue = 2
INVARIANTS WindowInv AckQueueOrdered
PROPERTIES AckedNeverRetransmitted
CHECK_DEADLOCK FALSE
