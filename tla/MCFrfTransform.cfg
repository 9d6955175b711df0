SPECIFICATION Spec
CONSTANTS
  Trunc <- MCTrunc
  Add <- MCAdd
  Join <- MCJoin
  NULL = NULL
  Undefined = Undefined
  Half = 128
  Texts <- MCTexts
  FieldOf <- MCFieldOf
  P13nRows <- MCRows
  BufSize = 3
INVARIANTS
  CompilesTheGrammar
  PrintsBack
  ExecYields
  FreesAll
PROPERTIES
  Ends
