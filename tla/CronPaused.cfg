SPECIFICATION Spec
CONSTANTS
  r1 = r1
  r2 = r2
  hourly = hourly
  daily = daily
  broken = broken
  NoCron = NoCron
  Requests = {r1}
  Valid = {hourly, daily}
  Invalid = {broken}
  MaxCalls = 3
  MaxTicks = 1
  MaxAutoPauses = 1
  MaxFaults = 0
  MaxCrashes = 0
INVARIANTS
  PausedIsUnscheduled
CHECK_DEADLOCK FALSE
