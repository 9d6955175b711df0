SPECIFICATION Spec
CONSTANTS
  Alphabet = {1, 65, 127, 128, 255}
  Lengths = {5, 126, 127, 128, 129, 255, 256, 65536, 16777215, 2147483647}
INVARIANTS
  RoundTrip
  LengthSurvives
