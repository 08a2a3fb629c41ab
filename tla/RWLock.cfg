CONSTANTS
  Threads = {t1, t2, t3, t4}
  Nobody = Nobody
SPECIFICATION FairSpec
INVARIANTS
  TypeOK
  MutualExclusion
  NoLostWakeup
  CountIsExact
PROPERTIES
  StarvationNeedsTraffic
  ImplementsMutex
