SPECIFICATION SysSpec
CONSTANTS
  Tid = {1}
  Port = {p1}
  Duplicates = FALSE
  MaxTransactions = 1
  MaxNodes = 2
  NodeCountMod = 4
  Sends = {"BEGINTX", "JOINTX", "COMMIT", "ABORT", "PREPARED", "ASK", "DELAY_RESPONSE", "COMMIT_CRASH",
           "ABORT_CRASH"}
  Reopens = TRUE
  Worker = {w1}
  Field = {"A"}
  Value = {0}
  InitValue = 0
  NoPort = NoPort
  Commands = {"BEGINTX", "COMMIT", "CRASH", "NEW", "ABORT", "COMMIT_CRASH", "ABORT_CRASH",
              "DELAY_RESPONSE"}
  QuietAfterVote = FALSE
  StackFlag = {TRUE, FALSE}
  StackDelay = {FALSE}
  MaxWorkerLog = 3
SYMMETRY Interchangeable
PROPERTIES ManagerSpecification
