------------------------------ MODULE FrfFile ------------------------------
(***************************************************************************)
(* The sections of an frf file and how the reader walks them: _frf_iovec   *)
(* and the skip of frf_next in frf.c, on a file given as a record          *)
(*                                                                         *)
(*   table   the string table's records by position,                       *)
(*   uc      the unique cells, a sequence of words,                        *)
(*   v       the row vectors, a sequence of words.                         *)
(*                                                                         *)
(* Offsets into uc are in bytes, as in the file; a row pointer is the      *)
(* number of words between _vector_base and _row_ptr.                      *)
(***************************************************************************)
EXTENDS FrfFormat, Sequences, FiniteSets

(* A word of a section; behind the end of the file a page holds zeroes. *)
WordAt(section, i) == IF i \in DOMAIN section THEN section[i] ELSE 0

(* The record of unique cells the row at row pointer r refers to: the      *)
(* number of its cells, how many of them are in the vector, and the cells. *)
UcOffset(f, r) == WordAt(f.v, r + 1)
UcCount(f, r) == WordAt(f.uc, UcOffset(f, r) \div 4 + 1)
UcVectorCount(f, r) == WordAt(f.uc, UcOffset(f, r) \div 4 + 2)
UcCell(f, r, i) == WordAt(f.uc, UcOffset(f, r) \div 4 + 2 + i)

(* The word of the i-th cell: its own, or the next one of the vector. *)
CellWord(f, r, i) ==
  IF UcCell(f, r, i) = InVector
    THEN WordAt(f.v, r + 1 + Cardinality({j \in 1 .. i : UcCell(f, r, j) = InVector}))
    ELSE UcCell(f, r, i)

(* _frf_iovec: the strings of the row, in order. *)
RowText(f, r) == [i \in 1 .. UcCount(f, r) |-> Resolve(f.table, CellWord(f, r, i))]

(* A fault for the checks to find: the row's own word is not counted. *)
SkipVector(f, r) == UcVectorCount(f, r)

(* How far frf_next moves the row pointer. *)
ToSkip(f, r) == UcVectorCount(f, r) + 1

(* The row pointer is at _end or behind it: there is no row to read. *)
AtEnd(f, r) == r >= Len(f.v)
=============================================================================
