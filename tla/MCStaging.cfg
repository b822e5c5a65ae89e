SPECIFICATION Spec
CONSTANTS
  Procs = {p1, p2}
  MaxCommands = 3
  MaxFaults = 1
INVARIANTS
  
  LoneBuildsHaveTheirBase
  RefusedForAReason
SYMMETRY Symmetry
CHECK_DEADLOCK FALSE
