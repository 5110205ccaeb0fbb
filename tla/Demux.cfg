CONSTANTS
  UniScripts <- MCUniScripts
  BiScripts <- MCBiScripts
  MaxStreams = 2
  Cap = 1
SPECIFICATION Spec
INVARIANT TypeOK
INVARIANT RepliesMatchRequests
PROPERTY UserDelivered
PROPERTY EveryRequestAnswered
PROPERTY AppSeesEnd
PROPERTY InboundRefinement
CHECK_DEADLOCK FALSE
