SPECIFICATION ThreadsSpec
CONSTANTS
  Tid = {1}
  Value = {0, 1}
  InitValue = 0
  Serial = FALSE
  PatientClient = TRUE
  MaxEntries = 4
PROPERTIES AppendOnly
