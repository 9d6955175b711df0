---------------------------- MODULE StringTable ----------------------------
(***************************************************************************)
(* The string table of an frf file while it is being made:                 *)
(* frf_maker_add_to_string_table in frf_maker.c, the one function that     *)
(* turns a string into a pointer.                                          *)
(*                                                                         *)
(* Strings of table size are written once per life of the lookup arena:    *)
(* strings_lookup remembers where each short string went, its nodes live   *)
(* in str_malloc_context, and when that arena has grown past its limit it  *)
(* is reset and the lookup forgotten with it.                              *)
(***************************************************************************)
EXTENDS FrfFormat

CONSTANTS
  UsedLimit,  (* str_malloc_context_size: nine tenths of the buffer.       *)
  Growths,    (* Arena bytes one new lookup node can take: the node, its   *)
              (* copy of the string, and the hash table when that grows.   *)
  MaxTable    (* Bound: the size the table may reach.                      *)

ASSUME TableAssumption ==
  /\ UsedLimit \in Nat
  /\ Growths \subseteq Nat
  /\ MaxTable \in Nat

VARIABLES
  table,                (* The records in the .st file, by position.       *)
  table_size,           (* The size of that file.                          *)
  string_table_written, (* One more than the size, as a 32-bit counter.    *)
  strings_lookup,       (* The offset noted for each short string.         *)
  str_used,             (* Bytes used in str_malloc_context.               *)
  reset_at,             (* History: table_size at the last arena reset.    *)
  issued                (* History: every pointer handed out, and for what.*)

tableVars == << table, table_size, string_table_written >>
lookupVars == << strings_lookup, str_used, reset_at >>
vars == << tableVars, lookupVars, issued >>

NoEntry == [x \in {} |-> x]
Put(f, k, v) == [x \in DOMAIN f \cup {k} |-> IF x = k THEN v ELSE f[x]]

-----------------------------------------------------------------------------
(* The files are opened empty and the counter starts at one. *)
Init ==
  /\ table = NoEntry
  /\ table_size = 0
  /\ string_table_written = 1
  /\ strings_lookup = NoEntry
  /\ str_used = 0
  /\ reset_at = 0
  /\ issued = {}

(* Faults for the checks to find: an arena that is never reset, a lookup   *)
(* that survives the reset, one that is never kept, and a counter that     *)
(* counts every prefix as one byte.                                        *)
NeverFull == FALSE
LookupKept == strings_lookup
LookupDropped == NoEntry
CounterShort(s) == (string_table_written + LenOf[s] + 1) % (2 * Half)

(* The arena has outgrown its limit: it is reset before the lookup is used.*)
ArenaFull == str_used > UsedLimit

(* The lookup as it stands once the arena has been reset, if it was. *)
LookupNow == IF ArenaFull THEN NoEntry ELSE strings_lookup

(* The pointer the call returns for s. *)
Pointer(s) ==
  IF s \in Tiny THEN TinyWord(s)
  ELSE IF s \in DOMAIN LookupNow THEN LookupNow[s]
  ELSE string_table_written

Issue(s) == issued' = issued \cup {[str |-> s, word |-> Pointer(s)]}

CounterAfter(s) == (string_table_written + RecordSize(s)) % (2 * Half)

(* The record goes to the end of the file and the counter follows it. *)
WriteRecord(s) ==
  /\ table_size + RecordSize(s) <= MaxTable
  /\ table' = Put(table, table_size, s)
  /\ table_size' = table_size + RecordSize(s)
  /\ string_table_written' = CounterAfter(s)

ResetMark == reset_at' = IF ArenaFull THEN table_size ELSE reset_at

(* A tiny string never touches the table or the arena. *)
AddTiny(s) ==
  /\ s \in Tiny
  /\ UNCHANGED << tableVars, lookupVars >>

(* A short string found in the lookup is not written again. *)
AddKnown(s) ==
  /\ s \in Short \ Tiny
  /\ s \in DOMAIN LookupNow
  /\ UNCHANGED << tableVars, lookupVars >>

(* Any other short string gets a lookup node, then a record. *)
AddShort(s) ==
  /\ s \in Short \ Tiny
  /\ s \notin DOMAIN LookupNow
  /\ strings_lookup' = Put(LookupNow, s, string_table_written)
  /\ \E g \in Growths : str_used' = g + IF ArenaFull THEN 0 ELSE str_used
  /\ ResetMark
  /\ WriteRecord(s)

(* A long string is written every time, and may still reset the arena. *)
AddLong(s) ==
  /\ s \in Strings \ Short
  /\ strings_lookup' = LookupNow
  /\ str_used' = IF ArenaFull THEN 0 ELSE str_used
  /\ ResetMark
  /\ WriteRecord(s)

AddString(s) ==
  /\ Issue(s)
  /\ AddTiny(s) \/ AddKnown(s) \/ AddShort(s) \/ AddLong(s)

Next == \E s \in Strings : AddString(s)

Spec == Init /\ [][Next]_vars

-----------------------------------------------------------------------------
(* The variables keep their types. *)
TypeOK ==
  /\ table_size \in Nat
  /\ DOMAIN table \subseteq Nat
  /\ \A p \in DOMAIN table : table[p] \in Strings
  /\ string_table_written \in Word
  /\ DOMAIN strings_lookup \subseteq Short
  /\ \A s \in DOMAIN strings_lookup : strings_lookup[s] \in Word
  /\ str_used \in Nat
  /\ reset_at \in Nat
  /\ issued \subseteq [str : Strings, word : Word]

(* While the table is below 2 GiB, every pointer ever handed out still     *)
(* leads the reader to the string it was handed out for, whatever was      *)
(* written since and however often the lookup was dropped.                 *)
PointersResolve ==
  table_size <= Half =>
    \A i \in issued : i.str \in Mangled \/ Resolve(table, i.word) = i.str

(* Every node of the lookup was allocated since the arena was last reset:  *)
(* a lookup that outlives the reset of its arena is read after free.       *)
LookupLive ==
  table_size <= Half =>
    \A s \in DOMAIN strings_lookup : strings_lookup[s] - 1 >= reset_at

(* Since the last reset no short string was written twice. *)
NoDuplicates ==
  \A p, q \in DOMAIN table :
    /\ p >= reset_at /\ q >= reset_at
    /\ table[p] = table[q] /\ table[p] \in Short
    => p = q

(* The lookup arena never holds more than one insertion above its limit. *)
ArenaBounded ==
  str_used <= UsedLimit \/ \E g \in Growths : str_used <= UsedLimit + g

(* ASSERT_INDEX holds of every pointer when it is handed out, and keeps    *)
(* holding as the table grows to 4 GiB.                                    *)
IndexInTable ==
  table_size < 2 * Half - 1 =>
    \A i \in issued : AssertIndex(i.word, string_table_written)

(* README 47: "Each string table pointer is a 32 bit unsigned int offset   *)
(* into the string table": were that so, the pointers of a table of up to  *)
(* 4 GiB would lead to their strings.  The reader takes the ones above     *)
(* 2 GiB for tiny strings.                                                 *)
PointersAre32Bit ==
  table_size < 2 * Half - 1 =>
    \A i \in issued : i.str \in Mangled \/ Resolve(table, i.word) = i.str
=============================================================================
