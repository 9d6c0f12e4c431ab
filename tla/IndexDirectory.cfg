SPECIFICATION DirectorySpec

CONSTANTS
  release = release
  local = local
  shorter = shorter
  Releases = {release, shorter}
  Locals = {local}
  Version <- MCVersion
  Frames <- MCFrames
  Missing = Missing
  Torn = Torn
  MaxStarted = 4
  MaxDeaths = 2

INVARIANTS
  DirectoryTypeOK
  SoundUntilOvertaken

PROPERTIES
  HashesCertify
  RebuildSettles

CHECK_DEADLOCK FALSE
