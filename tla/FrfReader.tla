----------------------------- MODULE FrfReader -----------------------------
(***************************************************************************)
(* The reader's library, frf.c: one open file and the row it stands at.    *)
(* Each operation takes the file, a record as in FrfFile; the reader maps  *)
(* the file whole and never changes it.                                    *)
(***************************************************************************)
EXTENDS FrfFile

CONSTANT IovMax  (* IOV_MAX: the cells a row may have.                     *)

VARIABLES
  reader,   (* "closed"; "open"; "killed" by a fault of the memory; or     *)
            (* "astray", where it reads as a file what is none.            *)
  row_ptr   (* The words between _vector_base and _row_ptr.                *)

(* frf_init maps the file and stands at its first row.  It takes the bases *)
(* of the sections from the header and asks no questions: it goes astray   *)
(* where the header's words do not lead to the sections.                   *)
Open(header_leads) ==
  /\ reader = "closed"
  /\ reader' = IF header_leads THEN "open" ELSE "astray"
  /\ row_ptr' = 0

(* The bytes it is given are not a file the maker finished, or there are   *)
(* none and it fails, which only frf_new looks at.                         *)
OpenNothing ==
  /\ reader = "closed"
  /\ reader' = "astray"
  /\ UNCHANGED row_ptr

(* What is read from there on: nothing that was ever added. *)
Strange == [end |-> FALSE, text |-> << NoString >>]

(* frf_next moves on by what the unique cells say of the row, and answers  *)
(* whether the row pointer is at _end or before it.  Standing at _end it   *)
(* reads a word behind the file: the rest of the last page is zeroes, and  *)
(* when the file fills its pages there is nothing to read.                 *)
RowAfter(f) == row_ptr + ToSkip(f, row_ptr)

(* A fault for the checks to find: _end is taken for the last word.        *)
NextShort(f) == RowAfter(f) < Len(f.v) - 1

NextAnswers(f) == RowAfter(f) <= Len(f.v)

Next(f) ==
  /\ reader = "open"
  /\ row_ptr' = RowAfter(f)
  /\ UNCHANGED reader

NextFaults(f) ==
  /\ reader = "open" /\ AtEnd(f, row_ptr)
  /\ reader' = "killed"
  /\ UNCHANGED row_ptr

(* A fault for the checks to find: the offset is taken for words. *)
SeekWords(offset) == offset

(* frf_seek takes a byte offset into the vectors, and sets the row pointer *)
(* even when it answers that there is no such row.                         *)
SeekTo(offset) == (offset % (2 * Half)) \div 4

Seek(offset) ==
  /\ reader = "open"
  /\ row_ptr' = SeekTo(offset)
  /\ UNCHANGED reader

(* frf_write, frf_get_render_size and frf_render_to_buffer make the same   *)
(* array of pieces; at _end there is none.  The array has IOV_MAX elements *)
(* and nobody counts.                                                      *)
NoRow == [end |-> TRUE]
Iovec(f) ==
  IF AtEnd(f, row_ptr) THEN NoRow ELSE [end |-> FALSE, text |-> RowText(f, row_ptr)]
Fits(f) == AtEnd(f, row_ptr) \/ UcCount(f, row_ptr) <= IovMax

Overflows(f) == reader = "open" /\ ~Fits(f) /\ UNCHANGED row_ptr

(* frf_get_offset. *)
GetOffset == (4 * row_ptr) % (2 * Half)

(* frf_get_render_size adds the lengths of the pieces up. *)
Pieces(f) == IF AtEnd(f, row_ptr) THEN << >> ELSE RowText(f, row_ptr)
SizesUpTo(pieces) ==
  LET length(s) == IF s \in Strings THEN LenOf[s] ELSE 0
      upto[n \in 0 .. Len(pieces)] ==
        IF n = 0 THEN 0 ELSE upto[n - 1] + length(pieces[n])
  IN  upto
SizeOf(pieces) == SizesUpTo(pieces)[Len(pieces)]
RenderSize(f) == SizeOf(Pieces(f))

(* A fault for the checks to find: the last byte of the buffer is not used.*)
CopiedShort(sizes_upto, buf_size) ==
  Cardinality({n \in DOMAIN sizes_upto : sizes_upto[n] < buf_size}) - 1

(* frf_render_to_buffer copies the pieces up to the first that does not    *)
(* fit, and answers how many bytes they are, or -1 when there is one.      *)
Copied(sizes_upto, buf_size) ==
  Cardinality({n \in DOMAIN sizes_upto : sizes_upto[n] <= buf_size}) - 1

RenderToBuffer(f, buf_size) ==
  LET n == Copied(SizesUpTo(Pieces(f)), buf_size) IN
  [answer |-> IF n = Len(Pieces(f)) THEN RenderSize(f) ELSE -1,
   text   |-> SubSeq(Pieces(f), 1, n)]
=============================================================================
