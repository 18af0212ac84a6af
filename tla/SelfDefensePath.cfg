SPECIFICATION Spec
CONSTANTS
  Threads = {t1, t2}
  Pids = {system, p1, p2}
  System = system
  Images = {protectedImage, plainImage}
  ProtectedPaths = {protectedImage}
  EmptyPath = noPath
  Absent = absent
  Nobody = nobody
  Requests = {}
  Grace = 1
  MaxTime = 1
  ClockModulus = 4
SYMMETRY Symmetry
INVARIANT PathOfProcess
