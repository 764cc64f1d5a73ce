SPECIFICATION ClockSpec
CONSTANTS
  MaxNodes = 3
  Manager = 9
  Worker <- MCWorker
  MaxTime <- MCMaxTime
  MaxLosses <- MCMaxLosses
INVARIANTS CausalKnowledge
CHECK_DEADLOCK FALSE
