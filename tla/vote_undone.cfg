SPECIFICATION SysSpec
CONSTANTS
  Tid = {1}
  Port = {p1}
  Duplicates = FALSE
  MaxTransactions = 1
  MaxNodes = 2
  NodeCountMod = 4
  Sends = {"BEGINTX", "JOINTX", "COMMIT", "ABORT", "PREPARED", "ASK", "DELAY_RESPONSE", "COMMIT_CRASH",
           "ABORT_CRASH"}
  Reopens = TRUE
  Worker = {w1}
  Field = {"A"}
  Value = {0}
  InitValue = 0
  NoPort = NoPort
  Commands = {"BEGINTX", "COMMIT", "ABORT"}
  QuietAfterVote = FALSE
  StackFlag = {FALSE}
  StackDelay = {FALSE}
  MaxWorkerLog = 4
SYMMETRY Interchangeable
INVARIANTS VoteHonoured
