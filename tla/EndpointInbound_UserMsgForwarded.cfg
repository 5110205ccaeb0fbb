CONSTANTS
  UniScripts <- MCUniScripts
  BiScripts <- MCBiScripts
  MaxStreams = 2
  Cap = 1
SPECIFICATION InboundSpec
PROPERTY UserMsgForwarded
CHECK_DEADLOCK FALSE
