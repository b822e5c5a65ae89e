SPECIFICATION Spec
CONSTANTS
  Callers = {t1, t2}
  Dirs = {home, d1}
  AtCwd = AtCwd
  Abs = Abs
  None = None
INVARIANTS NothingLeaked RightDirectory OpenReportsLoss
PROPERTIES CwdGivenBack
