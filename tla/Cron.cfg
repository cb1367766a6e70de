SPECIFICATION FairSpec
CONSTANTS
  r1 = r1
  r2 = r2
  hourly = hourly
  daily = daily
  broken = broken
  NoCron = NoCron
  Requests = {r1, r2}
  Valid = {hourly, daily}
  Invalid = {broken}
  MaxCalls = 3
  MaxTicks = 1
  MaxAutoPauses = 1
  MaxFaults = 1
  MaxCrashes = 1
INVARIANTS
  ScheduleFollowsStatus
  ReconciledIsScheduled
  OncePerOccurrence
PROPERTIES
  StartedWhileActive
  OccurrenceStarts
  RestartSchedules
CHECK_DEADLOCK FALSE
