SPECIFICATION WriteSpec
CONSTANTS
  Threads = {net}
  Net = net
  NoThread = none
  Kinds = {k}
  MaxPackets = 5
INVARIANTS BufferExclusive SwitchedOnce
PROPERTY PipeSpec
