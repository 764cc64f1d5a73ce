SPECIFICATION MSpec
CONSTANTS
  Tid = {1, 2}
  Port = {p1, p2}
  Duplicates = FALSE
  MaxTransactions = 1
  MaxNodes = 2
  NodeCountMod = 4
  Sends = {"BEGINTX", "JOINTX", "COMMIT", "ABORT", "PREPARED", "ASK"}
  Reopens = FALSE
SYMMETRY PortSymmetry
INVARIANTS MTypeOK IInv DecisionStable CommitUnanimous CountBounded NoOrphan RepliesMatchLog JoinsExisting
PROPERTIES ImplementsAtomicCommit
