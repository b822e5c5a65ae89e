SPECIFICATION FairBuildSpec
CONSTANTS
  Packages <- MCPackages
  Rpms <- MCRpms
  Owner <- MCOwner
  Glob <- MCGlob
  Lookalike <- MCLookalike
  Lists <- MCLists
  Options <- MCOptions
  MaxRuns = 2
  None = None
INVARIANTS ResultsFollowTasks PublishedFromSuccess SuccessIsPublished ErrorsStop
PROPERTIES BatchEnds
CHECK_DEADLOCK FALSE
