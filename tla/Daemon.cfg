SPECIFICATION Spec

CONSTANTS
  Missing = Missing
  Cut = Cut
  None = None
  MaxPublished = 2
  MaxBuilds = 2
  MaxFaults = 2

INVARIANTS
  ReloadKept
  LoadsWhole

PROPERTIES
  CurrentFollows
  LocalServed

CHECK_DEADLOCK FALSE
