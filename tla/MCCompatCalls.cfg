SPECIFICATION CompatSpec
CONSTANTS
  Threads = {t1, t2}
  Fds = {d1, d2, d3, d4}
  Functions = {"funopen", "fopencookie", "open_memstream"}
  Programs <- MCPrograms
  MaxCalls = 2
  InitialSize = 2
  MaxLine = 4
  MaxClock = 3
  None = None
SYMMETRY Alike
INVARIANTS NothingIsLeaked OnlyFunopenClosesForeign TimesAsAsked LinesAreSound
\* The calls are bounded: the system stops when they are used up.
CHECK_DEADLOCK FALSE
