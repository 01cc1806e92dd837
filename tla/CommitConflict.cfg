SPECIFICATION FairSpec
CONSTANTS
  s1 = s1
  s2 = s2
  s3 = s3
  Services = {s1}
  NamespaceOf <- AllDefault
  AllowedNamespaces = {"default"}
  TargetPortNames = {"debug"}
  ServiceObjects <- OneObject
  NoService = NoService
  PortRangeStart = 9000
  PortRangeEnd = 9001
  MaxBatchSize = 1
  MaxChanges = 1
  MaxFaults = 0
  MaxForeign = 1
  MaxRestarts = 0
PROPERTIES EventuallyServed
CHECK_DEADLOCK FALSE
