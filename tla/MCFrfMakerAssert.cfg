SPECIFICATION Spec
CONSTANTS
  Strings <- MCStrings
  LenOf <- MCLenOf
  Half <- MCHalf
  ShortMax = 7
  TinyCode <- MCTinyCode
  Mangled = {}
  NoString = "no string"
  Contents <- MCContents
  Bodies = {"spill"}
  SegmentsOf <- MCSegmentsOf
  Keys <- MCKeys
  MacroOf <- MCMacroOf
  TagCb <- MCTagCb
  FieldOf <- MCFieldOf
  Dc <- MCDc
  CallKeys <- MCCallKeys
  DtKeys <- MCDtKeys
  Exec <- MCExec
  NoValue = "NULL"
  Rows <- MCRows
  UsedLimit = 4
  Growths = {3}
  MaxTable = 1000
  Garbage = {1000}
  MaxRows = 2
  Depth = 2
  DepthOf <- MCDepthOf
INVARIANTS
  AssertIndexHolds
