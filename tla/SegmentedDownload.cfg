SPECIFICATION DownloadSpec

CONSTANTS
  tag1 = tag1
  tag2 = tag2
  NoTag = NoTag
  NoFile = NoFile
  Histories <- MCHistories
  MaxConn = 3
  MinSegment = 2
  MaxAttempts = 3
  MaxFaults = 3

INVARIANTS
  NeverShort
  LeftoversOnlyWhenInterrupted

PROPERTIES
  FreshInstall
  EventuallyCurrent
