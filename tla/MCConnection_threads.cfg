SPECIFICATION Spec
CONSTANTS
  Net = net
  Reg = reg
  NoThread = none
  MaxPackets = 7
  MaxIncoming = 3
  MaxKicks = 1
  Timeouts = FALSE
INVARIANTS TypeOK ProtocolScript OnceSerialised LivePlayerExists
