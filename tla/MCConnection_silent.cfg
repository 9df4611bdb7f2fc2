SPECIFICATION FairSpec
CONSTANTS
  Net = net
  Reg = reg
  NoThread = none
  MaxPackets = 7
  MaxIncoming = 2
  MaxKicks = 0
  Timeouts = TRUE
PROPERTIES SilentIsRemoved
