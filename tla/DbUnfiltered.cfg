SPECIFICATION DataSpec
CONSTANTS
  n1 = n1
  n2 = n2
  n3 = n3
  n4 = n4
  c = c
  d = d
  t = t
  u = u
  x = x
  y = y
  left = left
  right = right
  A = A
  B = B
  Ids = {n1, n2, n3, n4}
  NoNode = NoNode
  MaxEdges = 4
  Keys = {"a", "a.0", "0th", "token", "0", "1"}
  Indices <- TheIndices
  Sensitive = {"token"}
  SegmentsOf <- TheSegments
  IndexOf <- TheIndexOf
  NoValue = NoValue
  MaxDepth = 1
  MaxBytes = 4
  MaxMembers = 3
  MaxItems = 5
  MaxUnits = 6
  Dbs = {c, d}
  NoDb = NoDb
  TablesOf <- TheTables
  ColumnsOf <- TheColumns
  NoTable = NoTable
  NoQuery = NoQuery
  MaxEdits = 3
  Pickers = {left, right}
  Shapes = {A, B}
  Nothing = Nothing
  Recent = 2
  MaxEvents = 5
INVARIANT UnfilteredIsWarnedOf
CHECK_DEADLOCK FALSE
