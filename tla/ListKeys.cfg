SPECIFICATION Spec
CONSTANTS
  k1 = k1
  k2 = k2
  a = a
  b = b
  Key = {k1, k2}
  Value = {a, b}
  KeysOf <- Keys
  Instance <- Instances
  MaxLine = 16
INVARIANTS
  TypeOK
  ReadsWhatIsWritten
  SuggestedInstancesExist
  EveryInstanceIsOffered
  MessageIsTrueOfDataPaths
CHECK_DEADLOCK FALSE
