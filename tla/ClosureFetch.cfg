SPECIFICATION Spec

CONSTANTS
  bash = bash
  glibc = glibc
  gcc = gcc
  curl = curl
  git = git
  hello = hello
  badName = badName
  Paths = {bash, glibc, gcc, curl, git}
  Programs = {hello, badName}
  ValidPrograms = {hello}
  NoProgram = NoProgram
  Tree = Tree
  NoItem = NoItem
  Workers = {w1, w2}
  Worlds <- MCWorlds

INVARIANTS
  TypeOK
  InFlightExact
  NoEarlyClose
  NoLostWakeup
  OnlyDeservedListings

PROPERTIES
  Promise
  TasksEnd
