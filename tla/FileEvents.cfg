CONSTANTS
  Objects = {o1, o2}
  Watched = {w1, w2}
  Elsewhere = "elsewhere"
  LogFile = "log"
  Pids = {p1, p2}
  Images = {i1}
  Self = self
  System = system
  Buffers = 2
  Threshold = 2
  MaxEvents = 4
SPECIFICATION Spec
INVARIANTS TypeOK Attribution CacheSettles
PROPERTY ComesToRest
CHECK_DEADLOCK FALSE
