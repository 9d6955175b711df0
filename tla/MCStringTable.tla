--------------------------- MODULE MCStringTable ---------------------------
(* Strings of each size class for TLC: tiny ones with a mangled twin, two  *)
(* short ones and a long one, in a word of seven bits.                     *)
EXTENDS StringTable

CONSTANTS empty, four, fourHigh, short5, short7, long

MCStrings == {empty, four, fourHigh, short5, short7, long}

MCLenOf ==
  [s \in MCStrings |->
    CASE s = empty -> 0
      [] s \in {four, fourHigh} -> 4
      [] s = short5 -> 5
      [] s = short7 -> 7
      [] s = long -> 8]

MCTinyCode == [s \in {empty, four, fourHigh} |-> IF s = empty THEN 0 ELSE 9]
MCMangled == {fourHigh}
=============================================================================
