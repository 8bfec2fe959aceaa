SPECIFICATION Spec
CONSTANTS
  MaxQueries = 2
  MaxSessions = 4
  Same = {1, 2}
  MaxTurns = 1
  ContextTurns = 1
  MaxCalls = 2
INVARIANTS TurnsAreRecent StateHasACause HistoryOwn ContextComplete
PROPERTIES Settles
CHECK_DEADLOCK FALSE
