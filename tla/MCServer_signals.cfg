SPECIFICATION Spec
CONSTANTS
  Main = main
  Net = net
  Con = con
  Signal = signal
  Nobody = nobody
  Addresses = {a, b}
  MaxAccepts = 3
  Commands = {"list", "kickall", "stop", "unknown"}
  MaxCommands = 2
  MaxSignals = 1
CHECK_DEADLOCK FALSE
INVARIANTS TypeOK RegistryOwns
PROPERTY RosterSpec
