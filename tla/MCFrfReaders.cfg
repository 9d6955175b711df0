SPECIFICATION ReadersSpec
CONSTANTS
  Strings <- MCStrings
  LenOf <- MCLenOf
  Half = 56
  ShortMax = 6
  TinyCode <- MCTinyCode
  Mangled = {}
  NoString = "no string"
  Contents <- MCContents
  Bodies = {"body"}
  SegmentsOf <- MCSegmentsOf
  Keys <- MCKeys
  MacroOf <- MCMacroOf
  TagCb <- MCTagCb
  FieldOf <- MCFieldOf
  Dc <- MCDc
  CallKeys <- MCCallKeys
  DtKeys <- MCDtKeys
  Exec <- MCExec
  NoValue = "NULL"
  Rows <- MCRows
  UsedLimit = 4
  Growths = {3}
  MaxTable = 1000
  Garbage = {70}
  MaxRows = 4
  Depth = 2
  DepthOf <- MCDepthOf
  IovMax = 5
  BufSize = 15
  FirstFour <- MCFirstFour
  Mapped = 60
  Past = 1
  Programs = {"render", "stat", "perl"}
INVARIANTS
  ShownIsAdded
  AskedIsShown
  BufferHoldsRow
  ReportIsRight
  CountsUnique
  WritesTheRow
  SeeksTheRow
PROPERTIES
  ReadersEnd
