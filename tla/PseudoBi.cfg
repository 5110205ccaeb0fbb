CONSTANTS
  Peers <- MCPeers
  Tokens <- MCTokens
  NoToken = NoToken
SPECIFICATION Spec
INVARIANT TypeOK
INVARIANT RepliesReachOpener
PROPERTY OpenResolvesUnlessClosed
PROPERTY PseudoRequestDelivered
PROPERTY AbandonedTokenReleased
CHECK_DEADLOCK FALSE
