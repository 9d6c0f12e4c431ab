SPECIFICATION RequestsSpec
CONSTANTS
  Nil = Nil
  absent = absent
  Absent = absent
  AnyChar = 1
  FuzzyScore <- Fuzzy
  Servers = {1, 2}
  Clients = {1, 2}
  Dir <- TheDir
  Workloads <- TheWorkloads
  MaxResults = 4
  MaxInstalls = 1
  MaxFailures = 1
INVARIANTS
  AnswersTrue
  MetadataTrue
PROPERTIES
  CallsEnd
CHECK_DEADLOCK FALSE
