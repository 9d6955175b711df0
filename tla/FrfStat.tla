------------------------------ MODULE FrfStat ------------------------------
(***************************************************************************)
(* The program stat (stat.c): what it counts in one pass over a file the   *)
(* maker made.                                                             *)
(*                                                                         *)
(* A string is told from others by the low half of its address, or by its  *)
(* first four bytes when it is no longer than five, which is one more than *)
(* the longest that is not in the table; both are keys of the same hash.   *)
(* The pass ends with a turn at the end of the file, where there is no     *)
(* row.                                                                    *)
(***************************************************************************)
EXTENDS FrfMaker

CONSTANTS
  IovMax,
  FirstFour,  (* The number the first four bytes of a string make,         *)
  Mapped      (* and the one the low half of the table's address is.       *)

VARIABLES
  reader, row_ptr,  (* As in FrfReader.                                    *)
  main,             (* Where main is: "start", "turn", "next" or "end".    *)
  sizes,            (* What print_file_stats has found.                    *)
  uniq_c_hash,      (* The unique cells met,                               *)
  uniq_str_hash,    (* the strings met,                                    *)
  count, uniq_count,(* the tiny, small and large ones of all and of those, *)
  bytes,            (* the bytes of all of them,                           *)
  turns             (* and the rows there were.                            *)

readerVars == << reader, row_ptr >>
counts == << sizes, uniq_c_hash, uniq_str_hash, count, uniq_count, bytes, turns >>

R == INSTANCE FrfReader

Classes == {"tiny", "small", "large"}
Nothing == [c \in Classes |-> 0]

StatInit ==
  /\ sizes = << >>
  /\ uniq_c_hash = {} /\ uniq_str_hash = {}
  /\ count = Nothing /\ uniq_count = Nothing /\ bytes = 0 /\ turns = 0

Opened == file.sections

(* print_file_stats: all of the file, and what lies between the bases. *)
SizesFound(h, end) == << end, h.uc - 16, h.v - h.uc, end - h.v >>

Start ==
  /\ main = "start" /\ file.state = "whole"
  /\ R!Open(HeaderLeads)
  /\ sizes' = SizesFound(file.header, 16 + table_size + 4 * (Len(Opened.uc) + Len(Opened.v)))
  /\ main' = "turn"
  /\ UNCHANGED << uniq_c_hash, uniq_str_hash, count, uniq_count, bytes, turns >>

(* The file is torn, or frf_init fails, which is not looked at: what is    *)
(* reported then, if anything, has nothing to do with what was added.      *)
StartsAstray ==
  /\ main = "start" /\ pc = "finished"
  /\ R!OpenNothing
  /\ main' = "turn"
  /\ UNCHANGED counts

-----------------------------------------------------------------------------
ClassOf(s) == IF LenOf[s] < 5 THEN "tiny" ELSE IF LenOf[s] < ShortMax THEN "small" ELSE "large"

(* The pieces of the row: their strings, and their ids.  A pointer leads   *)
(* to a prefix, and the text is behind it.                                 *)
Pieces == IF AtEnd(Opened, row_ptr) THEN {} ELSE 1 .. UcCount(Opened, row_ptr)
Piece(k) == Resolve(Opened.table, CellWord(Opened, row_ptr, k))
AddressOf(s, w) == (Mapped + w - 1 + RecordSize(s) - LenOf[s]) % (2 * Half)
Id(k) ==
  LET s == Piece(k) IN
  IF LenOf[s] > 5 THEN AddressOf(s, CellWord(Opened, row_ptr, k)) ELSE FirstFour[s]

(* A fault for the checks to find: the strings of a row are looked up      *)
(* before any of them is added.                                            *)
PiecesNewToRow == {k \in Pieces : Id(k) \notin uniq_str_hash}

(* The pieces that are the first to have their id. *)
NewPieces ==
  {k \in Pieces : Id(k) \notin uniq_str_hash /\ \A m \in 1 .. k - 1 : Id(m) # Id(k)}

Among(ks, c) == Cardinality({k \in ks : ClassOf(Piece(k)) = c})

(* A fault for the checks to find: cells are told by the row they are in. *)
CellsAlways == uniq_c_hash \cup {4 * row_ptr}

(* The word at the row pointer is read even where there is no row: what is *)
(* behind the file is zero, or not there to read.                          *)
CellsMet == uniq_c_hash \cup {UcOffset(Opened, row_ptr)}

Turn ==
  /\ main = "turn" /\ reader = "open" /\ R!Fits(Opened)
  /\ uniq_c_hash' = CellsMet
  /\ uniq_str_hash' = uniq_str_hash \cup {Id(k) : k \in Pieces}
  /\ count' = [c \in Classes |-> count[c] + Among(Pieces, c)]
  /\ uniq_count' = [c \in Classes |-> uniq_count[c] + Among(NewPieces, c)]
  /\ bytes' = bytes + R!SizeOf(R!Pieces(Opened))
  /\ turns' = turns + IF AtEnd(Opened, row_ptr) THEN 0 ELSE 1
  /\ main' = "next"
  /\ UNCHANGED << readerVars, sizes >>

(* Too many pieces for the array, or nothing behind the file. *)
TurnFaults ==
  /\ main = "turn" /\ reader = "open"
  /\ \/ ~R!Fits(Opened) /\ reader' \in {"killed", "astray"}
     \/ AtEnd(Opened, row_ptr) /\ reader' = "killed"
  /\ main' = "end"
  /\ UNCHANGED << row_ptr, counts >>

Advance ==
  /\ main = "next"
  /\ R!Next(Opened)
  /\ main' = IF R!NextAnswers(Opened) THEN "turn" ELSE "end"
  /\ UNCHANGED counts

StatStep == Start \/ StartsAstray \/ Turn \/ TurnFaults \/ Advance
=============================================================================
