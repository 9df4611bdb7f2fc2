SPECIFICATION Spec
CONSTANTS
  Main = main
  Net = net
  Con = con
  Signal = signal
  Nobody = nobody
  Addresses = {a}
  MaxAccepts = 1
  Commands = {"stop"}
  MaxCommands = 1
  MaxSignals = 0
CHECK_DEADLOCK FALSE
INVARIANT AllKicked
