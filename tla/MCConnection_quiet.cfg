SPECIFICATION FairSpec
CONSTANTS
  Net = net
  Reg = reg
  NoThread = none
  MaxPackets = 7
  MaxIncoming = 3
  MaxKicks = 0
  Timeouts = FALSE
INVARIANTS EncryptedFromLogin
PROPERTIES PipeSpec PingEnds RefusedLeaves HandshakeAnswered
