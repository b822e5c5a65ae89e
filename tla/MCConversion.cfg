SPECIFICATION Spec
CONSTANTS
  foo1 = foo1  foo2 = foo2  bar1 = bar1
  Procs = {p1, p2}
  Srpms = {foo1, foo2, bar1}
  Packages <- MCPackages
  PackageOf <- MCPackageOf
  Files <- MCFiles
  OwnFiles <- MCOwnFiles
  Requires <- MCRequires
  Native <- MCNative
  RuleDirs <- MCRuleDirs
  Shared = {"crash"}
  Missing = {"gone"}
  BatchList <- MCBatchList
  MaxRuns = 2
  MaxEdits = 1
  MaxFaults = 1
  None = None
  Torn = Torn
SYMMETRY AnyProcess
INVARIANTS ResultsAreTrue NothingIsMissing BatchAccountsForAll TemporariesAreAccountedFor
\* Runs are bounded: the system stops when they are used up.
CHECK_DEADLOCK FALSE
