SPECIFICATION BuildSpec
CONSTANTS
  Packages <- MCPackages
  Rpms <- MCRpmsSingle
  Owner <- MCOwnerSingle
  Glob <- MCGlobSingle
  Lookalike <- MCNoLookalike
  Lists <- MCLists
  Options <- MCPlain
  MaxRuns = 2
  None = None
INVARIANTS SkippedIsBuilt
CHECK_DEADLOCK FALSE
