SPECIFICATION ReliableSpec
CONSTANTS
  Tid = {1}
  Port = {p1, p2}
  Duplicates = FALSE
  MaxTransactions = 1
  MaxNodes = 2
  NodeCountMod = 4
  Sends = {"BEGINTX", "JOINTX", "COMMIT", "ABORT", "PREPARED", "ASK", "DELAY_RESPONSE", "COMMIT_CRASH",
           "ABORT_CRASH"}
  Reopens = TRUE
  Worker = {w1, w2}
  Field = {"A"}
  Value = {0}
  InitValue = 0
  NoPort = NoPort
  Commands = {"BEGINTX", "JOINTX", "COMMIT", "CRASH"}
  QuietAfterVote = TRUE
  StackFlag = {FALSE}
  StackDelay = {FALSE}
  MaxWorkerLog = 1
PROPERTIES NoBlocking
