SPECIFICATION FairSpec
CONSTANTS
  p1 = p1
  p2 = p2
  p3 = p3
  r1 = r1
  r2 = r2
  r3 = r3
  Pods = {p1, p2}
  Requests = {r1, r2}
  PodOf <- OnePodEach
  PodObjects <- TwoContents
  NoPod = NoPod
  TTLs = {0, 1}
  JprofilerPortName = "jprofiler"
  DefaultMappingPort = 8849
  ControllerPort = 3343
  EarlyRequests = FALSE
  FailedReads = FALSE
  MaxPodChanges = 3
  MaxPodFaults = 1
  MaxPodForeign = 1
  MaxPodRestarts = 1
INVARIANTS OneServer PodTypeOK EntryComplete
PROPERTIES EntryGuarded RequestsEnd
CHECK_DEADLOCK FALSE
