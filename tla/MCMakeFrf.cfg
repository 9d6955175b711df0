SPECIFICATION Spec
CONSTANTS
  Texts <- MCTexts
  Inputs <- MCInputs
  Cut <- MCCut
  Empty = ""
  Options <- MCOptions
  NoCdb = NoCdb
  NumFields = 2
  MaxFields = 3
  VectorWords <- MCVectorWords
  Half = 16
  Stale = {"old"}
  MaxRuns = 2
INVARIANTS
  IndexNeverAhead
  DoneAgrees
  FieldsOwn
  KeysOwn
  MappedSeesPrefix
