------------------------------ MODULE FrfBytes ------------------------------
(***************************************************************************)
(* The bytes behind FrfFormat: how frf_maker_add_to_string_table packs a   *)
(* string of at most four bytes into a word, and writes the length of any  *)
(* other in front of it, and how _frf_iovec takes both apart again.        *)
(*                                                                         *)
(* A C string is a sequence of bytes other than zero.  The word is its     *)
(* four bytes in the order of the file; memcpy takes it there as it is.    *)
(***************************************************************************)
EXTENDS Integers, Sequences

CONSTANTS
  Alphabet,   (* The bytes strings are made of.                            *)
  Lengths     (* The lengths of strings that go to the table.              *)

Byte == 0 .. 255

(* What a byte is worth at its place, and the longest string there can be. *)
B1 == 256
B2 == B1 * B1
B3 == B1 * B2
MaxLength == 127 * B3 + (B3 - 1)

ASSUME BytesAssumption ==
  /\ Alphabet \subseteq Byte \ {0}
  /\ Lengths \subseteq 5 .. MaxLength

TinyStrings == UNION {[1 .. n -> Alphabet] : n \in 0 .. 4}

VARIABLES
  pc,
  str,     (* The string that is packed,                                   *)
  i,       (* the bytes of it that are done,                               *)
  chars,   (* and the bytes of the word.                                   *)
  text,    (* What the reader makes of it.                                 *)
  len,     (* The length of the string that is written,                    *)
  prefix,  (* the bytes in front of it,                                    *)
  iov_len  (* and the length the reader finds there.                       *)

vars == << pc, str, i, chars, text, len, prefix, iov_len >>

Init ==
  /\ pc = "pack"
  /\ str \in TinyStrings /\ i = 0 /\ chars = [k \in 0 .. 3 |-> 0] /\ text = << >>
  /\ len \in Lengths /\ prefix = << >> /\ iov_len = 0

-----------------------------------------------------------------------------
(* A fault for the checks to find: the bytes go to the other end.          *)
PlaceAtStart(n) == 3 - n

(* The bytes go in from the last one on, up to the end of the word. *)
Place(n) == 4 - Len(str) + n

Pack ==
  /\ pc = "pack" /\ i < Len(str)
  /\ chars' = [chars EXCEPT ![Place(i)] = str[Len(str) - i]]
  /\ i' = i + 1
  /\ UNCHANGED << pc, str, text, len, prefix, iov_len >>

(* chars[0] |= (1 << 7) *)
Flagged(c) == IF c < 128 THEN c + 128 ELSE c

Flag ==
  /\ pc = "pack" /\ i = Len(str)
  /\ chars' = [chars EXCEPT ![0] = Flagged(@)]
  /\ pc' = "packed"
  /\ UNCHANGED << str, i, text, len, prefix, iov_len >>

(* The bytes of the buffer, in which strlen looks for a zero: the flag is  *)
(* taken off the first one.                                                *)
Buf(n) == IF n = 4 THEN chars[0] - 128 ELSE IF n = 5 THEN 0 ELSE chars[4 - n]
StrLen == (CHOOSE n \in 1 .. 5 : Buf(n) = 0 /\ \A m \in 1 .. n - 1 : Buf(m) # 0) - 1

Unpack ==
  /\ pc = "packed" /\ chars[0] >= 128
  /\ text' = [n \in 1 .. StrLen |-> Buf(n)]
  /\ pc' = "prefix"
  /\ UNCHANGED << str, i, chars, len, prefix, iov_len >>

-----------------------------------------------------------------------------
(* A fault for the checks to find: the bytes are not in network order.     *)
PrefixHostOrder(n) ==
  IF n < 128 THEN << n >>
  ELSE << 128 + n \div B3, (n \div B1) % B1, (n \div B2) % B1, n % B1 >>

(* The length is written as one byte, or as four with the top bit set. *)
PrefixOf(n) ==
  IF n < 128 THEN << n >>
  ELSE << 128 + n \div B3, (n \div B2) % B1, (n \div B1) % B1, n % B1 >>

WritePrefix ==
  /\ pc = "prefix"
  /\ prefix' = PrefixOf(len)
  /\ pc' = "written"
  /\ UNCHANGED << str, i, chars, text, len, iov_len >>

(* The reader tells from the top bit how many bytes the length has. *)
LengthOf(bytes) ==
  IF bytes[1] < 128 THEN bytes[1]
  ELSE B3 * (bytes[1] - 128) + B2 * bytes[2] + B1 * bytes[3] + bytes[4]

ReadPrefix ==
  /\ pc = "written"
  /\ iov_len' = LengthOf(prefix)
  /\ pc' = "read"
  /\ UNCHANGED << str, i, chars, text, len, prefix >>

Done == pc = "read" /\ UNCHANGED vars

Next == Pack \/ Flag \/ Unpack \/ WritePrefix \/ ReadPrefix \/ Done

Spec == Init /\ [][Next]_vars

-----------------------------------------------------------------------------
(* The variables keep their types. *)
TypeOK ==
  /\ pc \in {"pack", "packed", "prefix", "written", "read"}
  /\ str \in TinyStrings /\ i \in 0 .. Len(str)
  /\ chars \in [0 .. 3 -> Byte]
  /\ len \in Lengths /\ iov_len \in Nat

(* Four bytes that end in one above 127: the flag takes its top bit. *)
IsMangled(s) == Len(s) = 4 /\ s[4] >= 128

(* A string comes back from its word as it was, unless the flag took the   *)
(* top bit of its last byte; then it comes back without that bit, and one  *)
(* byte shorter when there was no other.                                   *)
RoundTrip ==
  pc \notin {"pack", "packed"} =>
    text = IF ~IsMangled(str) THEN str
           ELSE IF str[4] = 128 THEN SubSeq(str, 1, 3)
           ELSE [str EXCEPT ![4] = @ - 128]

(* The word is taken for a tiny string, and never for "in the vector".     *)
WordIsTiny == pc = "packed" => chars[0] >= 128

(* The length read back is the one that was written, at both sizes.        *)
LengthSurvives == pc = "read" => iov_len = len
=============================================================================
