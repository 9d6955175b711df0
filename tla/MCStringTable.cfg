SPECIFICATION Spec
CONSTANTS
  empty = empty
  four = four
  fourHigh = fourHigh
  short5 = short5
  short7 = short7
  long = long
  Strings <- MCStrings
  LenOf <- MCLenOf
  TinyCode <- MCTinyCode
  Mangled <- MCMangled
  NoString = NoString
  Half = 24
  ShortMax = 8
  UsedLimit = 8
  Growths = {3, 9}
  MaxTable = 44
INVARIANTS
  PointersResolve
  LookupLive
  NoDuplicates
  ArenaBounded
  IndexInTable
