SPECIFICATION Spec
CONSTANTS
  Elements = {e1, e2, e3, e4}
  NULL = NULL
  Garbage = Garbage
INVARIANTS
  Linked
  VisitsAll
PROPERTIES
  IsSequence
