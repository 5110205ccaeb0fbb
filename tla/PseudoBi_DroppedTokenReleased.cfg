CONSTANTS
  Peers <- MCPeers
  Tokens <- MCTokens
  NoToken = NoToken
SPECIFICATION Spec
PROPERTY DroppedTokenReleased
CHECK_DEADLOCK FALSE
