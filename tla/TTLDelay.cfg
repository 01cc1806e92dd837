SPECIFICATION TTLSpec
CONSTANTS
  MaxInt = 511
  Second = 16
  ThreeHours = 12
  MaxMappingTime = 12
INVARIANTS DelayExact NeverLonger
CHECK_DEADLOCK FALSE
