SPECIFICATION FairSpec
CONSTANTS
  End = End
  Null = Null
  t1 = t1
  t2 = t2
  t3 = t3
  Timer = {t1, t2, t3}
  MaxTime = 3
  MaxDec = 1
  ThreadApis = {"schedule", "cancel"}
  CallbackApis = {"schedule", "cancel"}
  IsrApis = {}
INVARIANTS
  TypeOK
  ScanStaysInQueue
  HwArmed
PROPERTY
  TimerCalled
