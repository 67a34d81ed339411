SPECIFICATION FairSpec
CONSTANTS
  SeqMod = 16
  CfgTxWindowSize = 1
  CfgMaxRetries = 1
  Sends <- OneWay2
  HelloNodes <- Nobody
  IOErrors <- JustA
  CloseNodes <- Nobody
  AvpNodes <- Nobody
  MaxRxQueue = 1
PROPERTIES  DownTerminates
CHECK_DEADLOCK FALSE
