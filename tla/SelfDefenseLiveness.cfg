SPECIFICATION FairSpec
CONSTANTS
  Threads = {t1, t2}
  Pids = {system, p1, p2}
  System = system
  Images = {protectedImage, plainImage}
  ProtectedPaths = {protectedImage}
  EmptyPath = noPath
  Absent = absent
  Nobody = nobody
  Requests = {"open", "setinfo"}
  Grace = 1
  MaxTime = 2
  ClockModulus = 4
ACTION_CONSTRAINT SmallStep
INVARIANT MutexDiscipline
PROPERTY CallbackReturns
PROPERTY GraceIsRecent
