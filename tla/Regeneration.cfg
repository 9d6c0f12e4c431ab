CONSTANTS
  Base = 4
  Sizes = {2, 6, 9, 13, 17, 30}
  Pieces = {1, 2, 3, 5}
  MaxDepth = 2
  Gram = 2
  None = None
  PerFrame = 1
  Excluded <- MCExcluded
  Inputs <- MCInputs
  Earlier <- MCEarlier
  Bins <- MCBins
  Texts <- MCTexts
SPECIFICATION RegenerationSpec
INVARIANTS
  DecodesWhole
  SidecarsAnswer
  Reproduces
