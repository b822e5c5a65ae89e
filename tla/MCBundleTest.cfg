SPECIFICATION FairSpec
CONSTANTS
  b1 = b1  b2 = b2  c1 = c1  c2 = c2  t1 = t1  t2 = t2
  Shells = {s1, s2}
  Bundles = {b1, b2}
  Commands = {c1, c2}
  Provides <- MCProvides
  MaxWork = 2
  MaxFaults = 1
  Tests = {t1, t2}
  Defects <- MCDefects
  Nobody = Nobody  Headed = Headed  NoFile = NoFile
INVARIANTS RegistryIsTrue CommandsLeadToBundles ReportIsHonest
PROPERTIES ImplementsOwners TestsReturn
\* The calls are bounded: the system stops when they are used up.
CHECK_DEADLOCK FALSE
