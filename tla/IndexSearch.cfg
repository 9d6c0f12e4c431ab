SPECIFICATION Spec

CONSTANTS
  Indexes <- MCIndexes
  Directories <- MCDirectories
  Queries <- MCQueries
  Gram = 2
  TrigramLimit = 2
  Capacity = 1
  Widths = {1, 2, 9}
  None = None

INVARIANTS
  CacheExact
  NothingHidden
  AnswersLikeScan
