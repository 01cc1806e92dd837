SPECIFICATION FairSpec
CONSTANTS
  s1 = s1
  s2 = s2
  s3 = s3
  Services = {s1, s2, s3}
  NamespaceOf <- LastForbidden
  AllowedNamespaces = {"default"}
  TargetPortNames = {"debug"}
  ServiceObjects <- AllObjects
  NoService = NoService
  PortRangeStart = 9000
  PortRangeEnd = 9001
  MaxBatchSize = 2
  MaxChanges = 3
  MaxFaults = 0
  MaxForeign = 0
  MaxRestarts = 0
INVARIANTS MissingPending Coherent RemovalsPending KeysReturned BindsExclusive
PROPERTIES EventuallyServed KeysTaken
CHECK_DEADLOCK FALSE
