SPECIFICATION LiveSpec
CONSTANTS
  Tid = {1}
  Port = {p1}
  Duplicates = FALSE
  MaxTransactions = 1
  MaxNodes = 2
  NodeCountMod = 4
  Sends = {"BEGINTX", "JOINTX", "COMMIT", "ABORT", "PREPARED", "ASK", "DELAY_RESPONSE", "COMMIT_CRASH",
           "ABORT_CRASH"}
  Reopens = TRUE
  Worker = {w1}
  Field = {"A"}
  Value = {0, 1}
  InitValue = 0
  NoPort = NoPort
  Commands = {"BEGINTX", "COMMIT", "CRASH", "NEW", "ABORT", "VOTE_ABORT"}
  QuietAfterVote = FALSE
  StackFlag = {FALSE}
  StackDelay = {TRUE, FALSE}
  MaxWorkerLog = 3
INVARIANTS SysTypeOK
PROPERTIES DoubtEnds RollbackRestores
