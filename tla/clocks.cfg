SPECIFICATION ClockSpec
CONSTANTS
  MaxNodes = 2
  Manager = 9
  Worker <- MCOneWorker
  MaxTime <- MCOneMaxTime
  MaxLosses <- MCOneMaxLosses
INVARIANTS ClockTypeOK OwnFirst RoomKept NobodyAhead HeardRemembered
PROPERTIES TimeMovesOn
CHECK_DEADLOCK FALSE
