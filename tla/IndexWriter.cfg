SPECIFICATION WriterSpec

CONSTANTS
  SizeLists <- MCSizeLists
  Formats = {1, 2}
  Parallelisms = {1, 2, 3}
  ChunkSize = 4
  NoFile = NoFile
  Torn = Torn

INVARIANTS
  OpenableIsPrefix
  LookupExact

CHECK_DEADLOCK FALSE
