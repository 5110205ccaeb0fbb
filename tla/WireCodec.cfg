CONSTANTS
  Msgs <- MCMsgs
  BadRecords <- MCBadRecords
  MaxFrames = 2
SPECIFICATION Spec
INVARIANT TypeOK CodecRoundTrip
PROPERTY ReaderEnds
CHECK_DEADLOCK FALSE
