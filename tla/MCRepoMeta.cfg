SPECIFICATION Spec
CONSTANTS
  Procs = {p1, p2}
  Repos <- MCRepos
  Binaries <- MCBinaries
  MaxCalls = 3
  Nobody = Nobody
SYMMETRY AnyProcess
INVARIANTS RowsOnce CommittedIsWhole
\* The calls are bounded: the system stops when they are used up.
CHECK_DEADLOCK FALSE
