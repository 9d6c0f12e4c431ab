SPECIFICATION Spec

CONSTANTS
  Versions = {"v1", "v2"}
  Dates = {1, 2}
  MaxPrefixes = 1
  MaxVersions = 2
  MaxOptions = 1
  Attrs = {"hello"}
  MaxRetries = 2
  Updaters = {"u1", "u2"}
  MaxRecords = 2
  MaxReleases = 2
  MaxRuns = 2

CONSTRAINT
  SmallOrAlone

INVARIANTS
  InstalledReadable
  WarnsWhenOlder

PROPERTIES
  UpdateEnds

CHECK_DEADLOCK FALSE
