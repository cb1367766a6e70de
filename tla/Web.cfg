SPECIFICATION WebSpec
CONSTANTS
  Slots = {t, a, b}
  Trigger = t
  None = None
  Workflows = {w, n}
  Stored = {w}
  NewPage = NewPage
  Elsewhere = Elsewhere
  MaxVersion = 2
  MaxEdits = 2
  MaxCalls = 2
  MaxMounts = 1
  Habits <- TheHabits
  Flows = {w}
  Filters = {"ALL", "FAILED"}
  PageSize = 1
  NoRow = NoRow
  MaxRows = 2
  MaxClicks = 2
  RunCost = 2
  Conns = {a, b, c}
  Hits = {a}
  Used = {b}
  NoConn = NoConn
  Limit = 1
  MaxMoves = 3
  Cards = {a, b}
  NoCard = NoCard
  Matching = {a}
  MaxActs = 3
  MaxChanges = 1
  MaxLosses = 1
INVARIANTS
  EditorShowsWhatIs
  ListsShowTheChosen
  DashboardShowsWhatIs
PROPERTIES
  DraftKeepsItsOwn
  LoadingSignsEnd
CHECK_DEADLOCK FALSE
