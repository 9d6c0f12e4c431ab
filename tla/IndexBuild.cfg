SPECIFICATION Spec

CONSTANTS
  a = a
  b = b
  c = c
  hello = hello
  Paths = {a, b, c}
  Programs = {hello}
  ValidPrograms = {hello}
  NoProgram = NoProgram
  Tree = Tree
  NoItem = NoItem
  Worlds = {}
  Inputs <- MCInputs
  MaxAttempts = 2
  LineRoom = 1
  MetaRoom = 1
  PkgRoom = 1
  MaxBuilds = 2
  MaxAge = 2

INVARIANTS
  CacheTruthful
  SuccessIsWhole

PROPERTIES
  BuildEnds

CHECK_DEADLOCK FALSE
