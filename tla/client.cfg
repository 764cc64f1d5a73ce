SPECIFICATION ClientSpec
CONSTANTS
  Line <- MCLine
  tolower <- MCtolower
  NumberOf <- MCNumberOf
  Hosts <- MCHosts
  MaxArgs = 10
INVARIANTS ArgsInBounds SendsWhatIsAsked
CHECK_DEADLOCK FALSE
