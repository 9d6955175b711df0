SPECIFICATION Spec
CONSTANTS
  Texts <- MCTexts
  Inputs <- MCInputs
  Cut <- MCCut
  Empty = ""
  Options <- LastFieldOptions
  NoCdb = NoCdb
  NumFields = 2
  MaxFields = 3
  VectorWords <- MCVectorWords
  Half = 16
  Stale = {"old"}
  MaxRuns = 1
INVARIANTS
  CdbOffTheGivenField
