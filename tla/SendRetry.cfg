CONSTANTS
  Calls <- MCCalls
  Policy <- MCPolicy
  MaxAttempts = 3
  MaxStreams = 4
SPECIFICATION Spec
INVARIANT TypeOK AtMostOnceDelivery
CHECK_DEADLOCK FALSE
