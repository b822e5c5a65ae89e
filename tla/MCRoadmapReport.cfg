SPECIFICATION ReportSpec
CONSTANTS
  Packages <- MCPackages
  Reqs <- MCReqs
  Target = 1
  Cases <- MCCases
  Sysroot = Sysroot
  Unknown = Unknown
INVARIANTS EveryNameHasItsPlace ReportIsComplete ComponentsAreComplete DependenciesFirst
CHECK_DEADLOCK FALSE
