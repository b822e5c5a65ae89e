SPECIFICATION FairSpec
CONSTANTS
  t1 = t1  t2 = t2  t3 = t3  t4 = t4  p1 = p1  p2 = p2
  Threads = {t1, t2, t3, t4}
  Process <- MCProcess
  MaxCalls = 3
  None = None
INVARIANTS NothingLeft PairsAreConnected
PROPERTIES LoneCallsReturn
\* The calls are bounded: the system stops when they are used up.
CHECK_DEADLOCK FALSE
