SPECIFICATION MSpec
CONSTANTS
  Tid = {1}
  Port = {p1, p2}
  Duplicates = TRUE
  MaxTransactions = 1
  MaxNodes = 2
  NodeCountMod = 4
  Sends = {"BEGINTX", "JOINTX", "COMMIT", "PREPARED", "ABORT"}
  Reopens = FALSE
SYMMETRY PortSymmetry
INVARIANTS CommitUnanimous
