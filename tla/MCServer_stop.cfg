SPECIFICATION FairSpec
CONSTANTS
  Main = main
  Net = net
  Con = con
  Signal = signal
  Nobody = nobody
  Addresses = {a, b}
  MaxAccepts = 2
  Commands = {"kickall", "stop"}
  MaxCommands = 1
  MaxSignals = 1
CHECK_DEADLOCK FALSE
PROPERTIES StopEnds SignalEndsUnlessHeld DeadReaped
