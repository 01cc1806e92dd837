SPECIFICATION FairSystem
CONSTANTS
  p1 = p1
  r1 = r1
  s1 = s1
  s2 = s2
  Pods = {p1}
  Requests = {r1}
  PodOf <- PodOfAll
  PodObjects <- OnePod
  NoPod = NoPod
  TTLs = {1}
  JprofilerPortName = "jprofiler"
  DefaultMappingPort = 8849
  ControllerPort = 3343
  EarlyRequests = FALSE
  FailedReads = FALSE
  MaxPodChanges = 0
  MaxPodFaults = 0
  MaxPodForeign = 0
  MaxPodRestarts = 0
  Services = {s1}
  NamespaceOf <- AllDefault
  AllowedNamespaces = {"default"}
  TargetPortNames = {"debug"}
  ServiceObjects <- OneService
  NoService = NoService
  PortRangeStart = 9000
  PortRangeEnd = 9001
  MaxBatchSize = 2
  MaxChanges = 1
  MaxFaults = 0
  MaxForeign = 0
  MaxRestarts = 0
  EnableV1 = TRUE
  EnableV2 = TRUE
PROPERTIES BothUp
CHECK_DEADLOCK FALSE
