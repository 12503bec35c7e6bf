SPECIFICATION FairSpec
CONSTANTS
  a = a
  b = b
  c = c
  s1 = s1
  None = None
  Thread = {a, b}
  Priorities = {0, 1}
  InitialPriority <- OwnPriority
  Sem = {s1}
  max_count = 1
  MaxCount = 2
  Apis = {"post", "release_all", "no_wait", "sleep", "timeout"}
  IsrApis = {"post", "release_all"}
PROPERTIES
  TimedCallReturns
