CONSTANTS
  UniScripts <- MCUniScripts
  BiScripts <- MCBiScripts
  MaxStreams = 2
  Cap = 1
SPECIFICATION Spec
INVARIANT BenignCloseSilent
CHECK_DEADLOCK FALSE
