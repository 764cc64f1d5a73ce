SPECIFICATION ThreadsSpec
CONSTANTS
  Tid = {1, 2}
  Value = {0, 1}
  InitValue = 0
  Serial = TRUE
  PatientClient = TRUE
  MaxEntries = 5
INVARIANTS ThreadsTypeOK Recoverable PromiseRemembered
PROPERTIES AppendOnly
