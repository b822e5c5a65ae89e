SPECIFICATION Spec
CONSTANTS
  Procs = {p1}
  MaxCommands = 3
  MaxFaults = 0
INVARIANT AdviceHelps
CHECK_DEADLOCK FALSE
