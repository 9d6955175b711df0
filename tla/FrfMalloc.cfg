SPECIFICATION Spec
CONSTANTS
  Align = 4
  FirstSize = 10
  Requests = {0, 3, 8, 18}
  MaxBuffers = 3
  MaxUsed = 44
INVARIANTS
  BlocksInside
  BlocksDisjoint
  UsedExact
