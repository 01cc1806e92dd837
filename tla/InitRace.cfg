SPECIFICATION Spec
CONSTANTS
  p1 = p1
  p2 = p2
  p3 = p3
  r1 = r1
  r2 = r2
  r3 = r3
  Pods = {p1}
  Requests = {r1}
  PodOf <- SamePod
  PodObjects <- OneContent
  NoPod = NoPod
  TTLs = {1}
  JprofilerPortName = "jprofiler"
  DefaultMappingPort = 8849
  ControllerPort = 3343
  EarlyRequests = TRUE
  FailedReads = FALSE
  MaxPodChanges = 1
  MaxPodFaults = 0
  MaxPodForeign = 0
  MaxPodRestarts = 0
INVARIANTS OneServer
CHECK_DEADLOCK FALSE
