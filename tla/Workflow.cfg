SPECIFICATION WorkflowSpec
CONSTANTS
  e1 = e1
  e2 = e2
  d1 = d1
  d2 = d2
  x1 = x1
  x2 = x2
  c1 = c1
  c2 = c2
  w1 = w1
  Editors = {e1, e2}
  Removers = {d1, d2}
  Runs = {x1, x2}
  Connections = {c1, c2}
  NoConnection = NoConnection
  MaxVersion = 4
  Workers = {w1}
  Threshold = 3
  MaxExecutions = 4
  MaxActivations = 1
  MaxFaults = 2
SYMMETRY Same
INVARIANTS
  PauseTypeOK
  RunsOneDefinition
  LostConnectionWasReplaced
  StreakIsPaused
PROPERTIES
  PauseIsJustified
CHECK_DEADLOCK FALSE
