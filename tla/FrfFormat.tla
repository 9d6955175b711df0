----------------------------- MODULE FrfFormat -----------------------------
(***************************************************************************)
(* The string table pointers of an frf file: the 32-bit words the maker    *)
(* (frf_maker.c) stores in the unique cells and in the row vectors, and    *)
(* what the reader (frf.c) makes of them.                                  *)
(*                                                                         *)
(* A word is the number its four bytes spell in file order, so that its    *)
(* top bit is the top bit of the first byte; htonl on one side and ntohl   *)
(* on the other cancel out.  A word whose top bit is set carries a string  *)
(* of at most four bytes itself; any other word is one more than an offset *)
(* into the string table, and zero is left to mean "look in the vector".   *)
(*                                                                         *)
(* A string is an opaque value: what the code tells apart is its length,   *)
(* and for the shortest ones the bits they are packed into.                *)
(***************************************************************************)
EXTENDS Integers

CONSTANTS
  Strings,    (* The strings the program can meet.                         *)
  LenOf,      (* Their lengths in bytes.                                   *)
  Half,       (* 2^31: the top bit of a word.                              *)
  ShortMax,   (* 1 << 7: lengths below it fit the one-byte prefix.         *)
  TinyCode,   (* The low 31 bits a tiny string is packed into.             *)
  Mangled,    (* Tiny strings of four bytes whose last byte is above 127:  *)
              (* the flag bit takes the place of that byte's top bit.      *)
  NoString    (* What is read where no string was ever written.            *)

(* A string is tiny when it fits the word itself. *)
TinyMax == 5
Tiny == {s \in Strings : LenOf[s] < TinyMax}
Short == {s \in Strings : LenOf[s] < ShortMax}

ASSUME FormatAssumption ==
  /\ Half \in Nat \ {0}
  /\ ShortMax \in Nat
  /\ TinyMax <= ShortMax
  /\ LenOf \in [Strings -> Nat]
  /\ NoString \notin Strings
  /\ TinyCode \in [Tiny -> 0 .. Half - 1]
  /\ Mangled \subseteq Tiny
  /\ \A s, t \in Tiny \ Mangled : TinyCode[s] = TinyCode[t] => s = t

-----------------------------------------------------------------------------
Word == 0 .. 2 * Half - 1

(* The word for "the pointer is in the row's vector". *)
InVector == 0

IsInline(w) == w >= Half

(* A fault for the checks to find: the flag bit is not set. *)
TinyWordUnflagged(s) == TinyCode[s]

(* The packed form of a tiny string: its bytes, last one first, with the   *)
(* top bit of the word set.                                                *)
TinyWord(s) == Half + TinyCode[s]

(* Reading it back clears the flag and nothing else, so that a mangled     *)
(* string comes back as the one that has its last byte below 128.          *)
TinyText(code) ==
  IF \E s \in Tiny \ Mangled : TinyCode[s] = code
    THEN CHOOSE s \in Tiny \ Mangled : TinyCode[s] = code
    ELSE NoString

(* The bytes a string takes in the table: a prefix of one byte, or of four *)
(* when its length needs more than seven bits, and the text.               *)
RecordSize(s) == LenOf[s] + IF s \in Short THEN 1 ELSE 4

(* The string the reader finds behind a word, given the records of the     *)
(* table by position.                                                      *)
Resolve(tbl, w) ==
  IF IsInline(w) THEN TinyText(w - Half)
  ELSE IF w - 1 \in DOMAIN tbl THEN tbl[w - 1] ELSE NoString

(* ASSERT_INDEX, the check the maker runs on the words it stores. *)
AssertIndex(w, written) == IsInline(w) \/ w <= written
=============================================================================
