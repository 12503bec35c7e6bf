SPECIFICATION Spec
CONSTANTS
  a = a
  b = b
  c = c
  s1 = s1
  None = None
  Thread = {a, b, c}
  Priorities = {0, 1}
  InitialPriority <- SharedPriority
  Sem = {s1}
  max_count = 0
  MaxCount = 1
  Apis = {"post", "release_all", "no_wait", "sleep", "resume", "suspend", "delete", "change"}
  IsrApis = {"post", "release_all", "resume", "suspend"}
INVARIANTS
  TypeOK
  RunQueueMapped
  PendingWaits
  NoIdleWait
  NoPanic
PROPERTIES
  PendReturnsTruly
