SPECIFICATION FairSpec
CONSTANTS
  s1 = s1
  s2 = s2
  s3 = s3
  Services = {s1, s2}
  NamespaceOf <- AllDefault
  AllowedNamespaces = {"default"}
  TargetPortNames = {"debug"}
  ServiceObjects <- OneObject
  NoService = NoService
  PortRangeStart = 9000
  PortRangeEnd = 9001
  MaxBatchSize = 2
  MaxChanges = 2
  MaxFaults = 1
  MaxForeign = 0
  MaxRestarts = 0
PROPERTIES KeysTaken
CHECK_DEADLOCK FALSE
