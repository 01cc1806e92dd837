SPECIFICATION Spec
CONSTANTS
  s1 = s1
  s2 = s2
  s3 = s3
  Services = {s1, s2}
  NamespaceOf <- AllDefault
  AllowedNamespaces = {"default"}
  TargetPortNames = {"debug"}
  ServiceObjects <- OneObject
  NoService = NoService
  PortRangeStart = 9000
  PortRangeEnd = 9001
  MaxBatchSize = 2
  MaxChanges = 4
  MaxFaults = 1
  MaxForeign = 1
  MaxRestarts = 1
INVARIANTS TypeOK PortsAccounted PortsExclusive OrphansPending
PROPERTIES PortLeased
CHECK_DEADLOCK FALSE
