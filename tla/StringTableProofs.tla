------------------------- MODULE StringTableProofs -------------------------
(***************************************************************************)
(* The string table keeps its promises for every set of strings, every     *)
(* word size and every way the lookup arena may grow.                      *)
(***************************************************************************)
EXTENDS StringTable, TLAPS

(* The counter is one more than the file size until it wraps. *)
CounterTracks ==
  table_size + 1 < 2 * Half => string_table_written = table_size + 1

(* The records lie inside the file, the reset mark too. *)
RecordsInFile ==
  /\ \A p \in DOMAIN table : p < table_size
  /\ reset_at <= table_size

(* They end before the next begins, and the last where the file does. *)
RecordsApart ==
  \A p \in DOMAIN table :
    /\ p + RecordSize(table[p]) <= table_size
    /\ \A q \in DOMAIN table : p < q => p + RecordSize(table[p]) <= q

(* The lookup points at records of its strings written since the reset... *)
LookupSound ==
  table_size <= Half =>
    \A s \in DOMAIN strings_lookup :
      /\ strings_lookup[s] < Half
      /\ strings_lookup[s] - 1 \in DOMAIN table
      /\ table[strings_lookup[s] - 1] = s
      /\ strings_lookup[s] - 1 >= reset_at

(* ...and knows every short string written since then. *)
LookupComplete ==
  \A p \in DOMAIN table :
    p >= reset_at /\ table[p] \in Short => table[p] \in DOMAIN strings_lookup

(* A pointer handed out is a packed string or leads to a record. *)
IssuedSound ==
  table_size <= Half =>
    \A i \in issued :
      IF i.str \in Tiny
        THEN i.word = TinyWord(i.str)
        ELSE /\ i.word < Half
             /\ i.word - 1 \in DOMAIN table
             /\ table[i.word - 1] = i.str

IInv ==
  /\ TypeOK
  /\ CounterTracks
  /\ RecordsInFile
  /\ RecordsApart
  /\ LookupSound
  /\ LookupComplete
  /\ IssuedSound
  /\ NoDuplicates
  /\ ArenaBounded
  /\ IndexInTable

-----------------------------------------------------------------------------
LEMMA SmallMod ==
  ASSUME NEW n \in Nat, NEW m \in Nat \ {0}, n < m
  PROVE  n % m = n
  OBVIOUS

LEMMA ModInRange ==
  ASSUME NEW n \in Nat, NEW m \in Nat \ {0}
  PROVE  n % m \in 0 .. m - 1
  OBVIOUS

LEMMA BelowWrap ==
  ASSUME NEW n \in Nat, NEW m \in Nat, NEW h \in Nat, m > n, m < 2 * h - 1
  PROVE  m + 1 < 2 * h /\ n + 1 < 2 * h
  OBVIOUS

LEMMA GreaterSucc ==
  ASSUME NEW n \in Nat, NEW m \in Nat, m > n
  PROVE  n + 1 <= m + 1
  OBVIOUS

LEMMA TinyWordType ==
  ASSUME NEW s \in Tiny
  PROVE  TinyWord(s) \in Word /\ TinyWord(s) >= Half
  BY FormatAssumption DEF TinyWord, Word

LEMMA RecordSizeType ==
  ASSUME NEW s \in Strings
  PROVE  RecordSize(s) \in Nat /\ RecordSize(s) > 0
  BY FormatAssumption DEF RecordSize

(* A tiny string that is not mangled comes back from its packed form. *)
LEMMA TinyRoundTrip ==
  ASSUME NEW s \in Tiny \ Mangled
  PROVE  TinyText(TinyCode[s]) = s
<1>1. \A t \in Tiny \ Mangled : TinyCode[t] = TinyCode[s] => t = s
  BY FormatAssumption
<1>. QED
  BY <1>1 DEF TinyText

-----------------------------------------------------------------------------
(* What a written record does to the file and the counter. *)
LEMMA WriteRecordStep ==
  ASSUME TypeOK, CounterTracks, RecordsInFile, NEW s \in Strings, WriteRecord(s)
  PROVE  /\ table_size \notin DOMAIN table
         /\ table_size' \in Nat /\ table_size' > table_size
         /\ DOMAIN table' = DOMAIN table \cup {table_size}
         /\ table'[table_size] = s
         /\ \A p \in DOMAIN table : table'[p] = table[p]
         /\ string_table_written' \in Word
         /\ CounterTracks'
         /\ \A p \in DOMAIN table' : p < table_size'
<1>. DEFINE n == string_table_written + RecordSize(s)
<1>1. RecordSize(s) \in Nat /\ RecordSize(s) > 0
  BY RecordSizeType
<1>2. table_size' = table_size + RecordSize(s) /\ table_size \in Nat
  BY DEF WriteRecord, TypeOK
<1>3. /\ table_size \notin DOMAIN table
      /\ DOMAIN table \subseteq Nat
      /\ \A p \in DOMAIN table : p < table_size
  BY <1>2 DEF RecordsInFile, TypeOK
<1>4. /\ DOMAIN table' = DOMAIN table \cup {table_size}
      /\ table'[table_size] = s
      /\ \A p \in DOMAIN table : table'[p] = table[p]
  BY <1>3 DEF WriteRecord, Put
<1>5. n \in Nat /\ 2 * Half \in Nat \ {0}
  BY <1>1, FormatAssumption DEF TypeOK, Word
<1>6. string_table_written' = n % (2 * Half)
  BY DEF WriteRecord, CounterAfter
<1>7. string_table_written' \in Word
  BY <1>5, <1>6, ModInRange DEF Word
<1>8. CounterTracks'
  <2>1. SUFFICES ASSUME table_size' + 1 < 2 * Half
                 PROVE  string_table_written' = table_size' + 1
    BY DEF CounterTracks
  <2>2. string_table_written = table_size + 1
    BY <2>1, <1>1, <1>2, <1>5 DEF CounterTracks
  <2>3. n = table_size' + 1
    BY <2>2, <1>1, <1>2
  <2>. QED
    BY <2>1, <2>3, <1>5, <1>6, SmallMod
<1>. QED
  BY <1>1, <1>2, <1>3, <1>4, <1>7, <1>8

-----------------------------------------------------------------------------
LEMMA InitIInv == Init => IInv
<1>. SUFFICES ASSUME Init PROVE IInv
  OBVIOUS
<1>1. DOMAIN table = {} /\ DOMAIN strings_lookup = {}
  BY DEF Init, NoEntry
<1>2. TypeOK
  BY <1>1, FormatAssumption DEF Init, TypeOK, Word
<1>3. CounterTracks /\ RecordsInFile /\ ArenaBounded
  BY <1>1, TableAssumption DEF Init, CounterTracks, RecordsInFile, ArenaBounded
<1>4. LookupSound /\ LookupComplete /\ NoDuplicates /\ RecordsApart
  BY <1>1 DEF LookupSound, LookupComplete, NoDuplicates, RecordsApart
<1>5. IssuedSound /\ IndexInTable
  BY DEF Init, IssuedSound, IndexInTable
<1>. QED
  BY <1>2, <1>3, <1>4, <1>5 DEF IInv

(* The pointer returned for a string, once the call is over. *)
IssueAfter(s) ==
  table_size' <= Half =>
    IF s \in Tiny
      THEN Pointer(s) = TinyWord(s)
      ELSE /\ Pointer(s) < Half
           /\ Pointer(s) - 1 \in DOMAIN table'
           /\ table'[Pointer(s) - 1] = s

(* What is needed of a step to carry over the history of pointers. *)
LEMMA IssuePreserves ==
  ASSUME IInv, NEW s \in Strings, Issue(s),
         table_size' \in Nat, table_size' >= table_size,
         DOMAIN table \subseteq DOMAIN table',
         \A p \in DOMAIN table : table'[p] = table[p],
         CounterTracks', string_table_written' \in Word,
         Pointer(s) \in Word,
         table_size' < 2 * Half - 1 =>
            IsInline(Pointer(s)) \/ Pointer(s) <= string_table_written',
         IssueAfter(s)
  PROVE  /\ issued' \subseteq [str : Strings, word : Word]
         /\ IssuedSound'
         /\ IndexInTable'
<1>. DEFINE new == [str |-> s, word |-> Pointer(s)]
<1>1. issued' = issued \cup {new}
  BY DEF Issue
<1>2. issued \subseteq [str : Strings, word : Word] /\ table_size \in Nat
  BY DEF IInv, TypeOK
<1>3. issued' \subseteq [str : Strings, word : Word]
  BY <1>1, <1>2
<1>4. IssuedSound'
  <2>1. SUFFICES ASSUME table_size' <= Half, NEW i \in issued'
                 PROVE  IF i.str \in Tiny
                          THEN i.word = TinyWord(i.str)
                          ELSE /\ i.word < Half
                               /\ i.word - 1 \in DOMAIN table'
                               /\ table'[i.word - 1] = i.str
    BY DEF IssuedSound, Tiny, TinyWord
  <2>2. CASE i = new
    BY <2>1, <2>2 DEF IssueAfter
  <2>3. CASE i \in issued
    <3>1. table_size <= Half
      BY <2>1, <1>2, FormatAssumption
    <3>. QED
      BY <2>3, <3>1 DEF IInv, IssuedSound
  <2>. QED
    BY <2>2, <2>3, <1>1
<1>5. IndexInTable'
  <2>1. SUFFICES ASSUME table_size' < 2 * Half - 1, NEW i \in issued'
                 PROVE  AssertIndex(i.word, string_table_written')
    BY DEF IndexInTable, AssertIndex, IsInline
  <2>2. CASE i = new
    BY <2>1, <2>2 DEF AssertIndex
  <2>3. CASE i \in issued
    <3>0. table_size \in Nat /\ table_size' \in Nat /\ table_size' >= table_size
          /\ Half \in Nat
      BY <1>2, FormatAssumption
    <3>1. /\ table_size < 2 * Half - 1
          /\ string_table_written = table_size + 1
          /\ string_table_written' = table_size' + 1
      <4>1. table_size' + 1 < 2 * Half /\ table_size + 1 < 2 * Half
        BY <2>1, <3>0
      <4>2. CounterTracks
        BY DEF IInv
      <4>. QED
        BY <4>1, <4>2, <3>0 DEF CounterTracks
    <3>2. AssertIndex(i.word, string_table_written)
      BY <2>3, <3>1 DEF IInv, IndexInTable
    <3>3. i.word \in Nat
      BY <2>3, <1>2, FormatAssumption DEF Word
    <3>. QED
      BY <3>1, <3>2, <3>3, <1>2 DEF AssertIndex
  <2>. QED
    BY <2>2, <2>3, <1>1
<1>. QED
  BY <1>3, <1>4, <1>5

-----------------------------------------------------------------------------
LEMMA PointerType ==
  ASSUME TypeOK, NEW s \in Strings
  PROVE  Pointer(s) \in Word
<1>1. CASE s \in Tiny
  BY <1>1, TinyWordType DEF Pointer
<1>2. CASE s \notin Tiny
  BY <1>2 DEF Pointer, LookupNow, NoEntry, TypeOK
<1>. QED
  BY <1>1, <1>2

(* Where the reset mark stands once a full arena has been reset. *)
ResetNow == IF ArenaFull THEN table_size ELSE reset_at

(* What the call sees of the lookup after the possible reset has all the   *)
(* properties the lookup has, with respect to the new reset mark.          *)
LEMMA LookupNowSound ==
  ASSUME IInv
  PROVE  /\ ResetNow \in Nat /\ ResetNow <= table_size
         /\ DOMAIN LookupNow \subseteq Short
         /\ \A s \in DOMAIN LookupNow : LookupNow[s] \in Word
         /\ table_size <= Half =>
              \A s \in DOMAIN LookupNow :
                /\ LookupNow[s] < Half
                /\ LookupNow[s] - 1 \in DOMAIN table
                /\ table[LookupNow[s] - 1] = s
                /\ LookupNow[s] - 1 >= ResetNow
         /\ \A p \in DOMAIN table :
              p >= ResetNow /\ table[p] \in Short => table[p] \in DOMAIN LookupNow
         /\ \A p, q \in DOMAIN table :
              /\ p >= ResetNow /\ q >= ResetNow
              /\ table[p] = table[q] /\ table[p] \in Short
              => p = q
<1>1. CASE ArenaFull
  <2>1. DOMAIN LookupNow = {} /\ ResetNow = table_size
    BY <1>1 DEF LookupNow, NoEntry, ResetNow
  <2>2. \A p \in DOMAIN table : p \in Nat /\ p < table_size /\ table_size \in Nat
    BY DEF IInv, TypeOK, RecordsInFile
  <2>3. \A p \in DOMAIN table : ~(p >= ResetNow)
    BY <2>1, <2>2
  <2>4. ResetNow \in Nat /\ ResetNow <= table_size
    BY <2>1 DEF IInv, TypeOK
  <2>. QED
    BY <2>1, <2>3, <2>4
<1>2. CASE ~ArenaFull
  <2>1. LookupNow = strings_lookup /\ ResetNow = reset_at
    BY <1>2 DEF LookupNow, ResetNow
  <2>. QED
    BY <2>1 DEF IInv, TypeOK, RecordsInFile, LookupSound, LookupComplete,
                NoDuplicates
<1>. QED
  BY <1>1, <1>2

(* A call that leaves the table and the lookup alone. *)
LEMMA UnwrittenPreserves ==
  ASSUME IInv, NEW s \in Strings, Issue(s),
         s \in Tiny \/ s \in DOMAIN LookupNow,
         UNCHANGED << tableVars, lookupVars >>
  PROVE  IInv'
<1>. USE DEF tableVars, lookupVars
<1>1. /\ table_size \in Nat /\ table_size' = table_size
      /\ table' = table /\ string_table_written' = string_table_written
      /\ string_table_written \in Word
  BY DEF IInv, TypeOK
<1>2. CounterTracks'
  BY <1>1 DEF IInv, CounterTracks
<1>3. Pointer(s) \in Word
  BY PointerType DEF IInv
<1>4. IssueAfter(s)
  <2>1. CASE s \in Tiny
    BY <2>1 DEF IssueAfter, Pointer
  <2>2. CASE s \notin Tiny
    <3>1. s \in DOMAIN LookupNow /\ Pointer(s) = LookupNow[s]
      BY <2>2 DEF Pointer
    <3>. QED
      BY <2>2, <3>1, <1>1, LookupNowSound DEF IssueAfter
  <2>. QED
    BY <2>1, <2>2
<1>5. ASSUME table_size' < 2 * Half - 1
      PROVE  IsInline(Pointer(s)) \/ Pointer(s) <= string_table_written'
  <2>1. CASE s \in Tiny
    BY <2>1, TinyWordType DEF IsInline, Pointer
  <2>2. CASE s \notin Tiny /\ table_size <= Half
    <3>1. s \in DOMAIN LookupNow /\ Pointer(s) = LookupNow[s]
      BY <2>2 DEF Pointer
    <3>2. Pointer(s) - 1 \in DOMAIN table
      BY <2>2, <3>1, LookupNowSound
    <3>3. Pointer(s) - 1 \in Nat /\ Pointer(s) - 1 < table_size
      BY <3>2 DEF IInv, TypeOK, RecordsInFile
    <3>4. string_table_written = table_size + 1
      BY <1>1, <1>5, FormatAssumption DEF IInv, CounterTracks
    <3>. QED
      BY <1>1, <1>3, <3>3, <3>4, FormatAssumption DEF Word
  <2>3. CASE s \notin Tiny /\ table_size > Half
    <3>1. string_table_written = table_size + 1
      BY <1>1, <1>5, FormatAssumption DEF IInv, CounterTracks
    <3>. QED
      BY <2>3, <1>1, <1>3, <3>1, FormatAssumption DEF IsInline, Word
  <2>. QED
    BY <2>1, <2>2, <2>3, <1>1, FormatAssumption
<1>6. /\ issued' \subseteq [str : Strings, word : Word]
      /\ IssuedSound' /\ IndexInTable'
  BY <1>1, <1>2, <1>3, <1>4, <1>5, IssuePreserves
<1>7. TypeOK'
  BY <1>6 DEF IInv, TypeOK
<1>8. /\ RecordsInFile' /\ RecordsApart' /\ LookupSound' /\ LookupComplete'
      /\ NoDuplicates' /\ ArenaBounded'
  BY DEF IInv, RecordsInFile, RecordsApart, LookupSound, LookupComplete, NoDuplicates,
         ArenaBounded
<1>. QED
  BY <1>2, <1>6, <1>7, <1>8 DEF IInv

(* A call that writes a record, noted in the lookup or not. *)
LEMMA WrittenPreserves ==
  ASSUME IInv, NEW s \in Strings, Issue(s), s \notin Tiny,
         WriteRecord(s), ResetMark,
         \/ /\ s \in Short /\ s \notin DOMAIN LookupNow
            /\ strings_lookup' = Put(LookupNow, s, string_table_written)
         \/ s \notin Short /\ strings_lookup' = LookupNow,
         str_used' \in Nat, ArenaBounded'
  PROVE  IInv'
<1>1. /\ table_size \notin DOMAIN table
      /\ table_size' \in Nat /\ table_size' > table_size
      /\ DOMAIN table' = DOMAIN table \cup {table_size}
      /\ table'[table_size] = s
      /\ \A p \in DOMAIN table : table'[p] = table[p]
      /\ string_table_written' \in Word
      /\ CounterTracks'
      /\ \A p \in DOMAIN table' : p < table_size'
  BY WriteRecordStep DEF IInv
<1>2. /\ table_size \in Nat /\ string_table_written \in Word
      /\ Half \in Nat /\ Half > 0
      /\ DOMAIN table \subseteq Nat
      /\ \A p \in DOMAIN table : p < table_size /\ table[p] \in Strings
  BY FormatAssumption DEF IInv, TypeOK, RecordsInFile
<1>3. reset_at' = ResetNow /\ ResetNow \in Nat /\ ResetNow <= table_size
  BY LookupNowSound DEF ResetMark, ResetNow
<1>4. /\ DOMAIN LookupNow \subseteq Short
      /\ \A x \in DOMAIN LookupNow : LookupNow[x] \in Word
  BY LookupNowSound
<1>5. /\ DOMAIN strings_lookup' =
           DOMAIN LookupNow \cup (IF s \in Short THEN {s} ELSE {})
      /\ s \in Short => strings_lookup'[s] = string_table_written
      /\ \A x \in DOMAIN LookupNow : strings_lookup'[x] = LookupNow[x]
  BY <1>4 DEF Put
<1>6. RecordsInFile'
  BY <1>1, <1>2, <1>3 DEF RecordsInFile
<1>7. LookupSound'
  <2>1. SUFFICES ASSUME table_size' <= Half, NEW x \in DOMAIN strings_lookup'
                 PROVE  /\ strings_lookup'[x] < Half
                        /\ strings_lookup'[x] - 1 \in DOMAIN table'
                        /\ table'[strings_lookup'[x] - 1] = x
                        /\ strings_lookup'[x] - 1 >= reset_at'
    BY DEF LookupSound
  <2>2. table_size <= Half
    BY <2>1, <1>1, <1>2
  <2>3. CASE x \in DOMAIN LookupNow
    <3>1. /\ LookupNow[x] < Half
          /\ LookupNow[x] - 1 \in DOMAIN table
          /\ table[LookupNow[x] - 1] = x
          /\ LookupNow[x] - 1 >= ResetNow
      BY <2>2, <2>3, <1>2, LookupNowSound
    <3>. QED
      BY <2>3, <3>1, <1>1, <1>3, <1>5
  <2>4. CASE x \notin DOMAIN LookupNow
    <3>1. x = s /\ s \in Short /\ strings_lookup'[x] = string_table_written
      BY <2>4, <1>5
    <3>2. LenOf[s] \in Nat /\ LenOf[s] >= 5 /\ table_size' = table_size + RecordSize(s)
      BY FormatAssumption DEF Tiny, TinyMax, WriteRecord
    <3>3. table_size' > table_size + 1
      BY <3>2, <1>2 DEF RecordSize
    <3>4. string_table_written = table_size + 1 /\ string_table_written < Half
      BY <3>3, <2>1, <1>1, <1>2 DEF IInv, CounterTracks
    <3>. QED
      BY <3>1, <3>4, <1>1, <1>2, <1>3
  <2>. QED
    BY <2>3, <2>4
<1>8. LookupComplete'
  <2>1. SUFFICES ASSUME NEW p \in DOMAIN table', p >= reset_at', table'[p] \in Short
                 PROVE  table'[p] \in DOMAIN strings_lookup'
    BY DEF LookupComplete
  <2>2. CASE p = table_size
    BY <2>1, <2>2, <1>1, <1>5
  <2>3. CASE p \in DOMAIN table
    BY <2>1, <2>3, <1>1, <1>3, <1>5, LookupNowSound
  <2>. QED
    BY <2>2, <2>3, <1>1
<1>9. NoDuplicates'
  <2>1. SUFFICES ASSUME NEW p \in DOMAIN table', NEW q \in DOMAIN table',
                        p >= reset_at', q >= reset_at',
                        table'[p] = table'[q], table'[p] \in Short
                 PROVE  p = q
    BY DEF NoDuplicates
  <2>2. CASE p \in DOMAIN table /\ q \in DOMAIN table
    BY <2>1, <2>2, <1>1, <1>3, LookupNowSound
  <2>3. ASSUME NEW r \in DOMAIN table, r >= reset_at', table[r] = s, s \in Short
        PROVE  FALSE
    BY <2>3, <1>3, LookupNowSound
  <2>. QED
    BY <2>1, <2>2, <2>3, <1>1
<1>10. Pointer(s) \in Word
  BY PointerType DEF IInv
<1>11. Pointer(s) = string_table_written
  BY <1>4 DEF Pointer
<1>12. IssueAfter(s)
  <2>1. SUFFICES ASSUME table_size' <= Half
                 PROVE  /\ Pointer(s) < Half
                        /\ Pointer(s) - 1 \in DOMAIN table'
                        /\ table'[Pointer(s) - 1] = s
    BY DEF IssueAfter
  <2>2. LenOf[s] \in Nat /\ LenOf[s] >= 5 /\ table_size' = table_size + RecordSize(s)
    BY FormatAssumption DEF Tiny, TinyMax, WriteRecord
  <2>3. table_size' > table_size + 1
    BY <2>2, <1>2 DEF RecordSize
  <2>4. string_table_written = table_size + 1 /\ string_table_written < Half
    BY <2>3, <2>1, <1>1, <1>2 DEF IInv, CounterTracks
  <2>. QED
    BY <2>4, <1>1, <1>2, <1>11
<1>13. table_size' < 2 * Half - 1 => Pointer(s) <= string_table_written'
  <2>. SUFFICES ASSUME table_size' < 2 * Half - 1
                PROVE  Pointer(s) <= string_table_written'
    OBVIOUS
  <2>0. /\ table_size \in Nat /\ table_size' \in Nat
        /\ table_size' > table_size /\ Half \in Nat
    BY <1>1, <1>2
  <2>1. table_size' + 1 < 2 * Half /\ table_size + 1 < 2 * Half
    BY <2>0, BelowWrap
  <2>2. string_table_written = table_size + 1 /\ string_table_written' = table_size' + 1
    BY <2>1, <1>1 DEF IInv, CounterTracks
  <2>3. table_size + 1 <= table_size' + 1
    BY <2>0, GreaterSucc
  <2>. QED
    BY <2>2, <2>3, <1>11
<1>14. /\ issued' \subseteq [str : Strings, word : Word]
       /\ IssuedSound' /\ IndexInTable'
  <2>1. table_size' >= table_size /\ DOMAIN table \subseteq DOMAIN table'
    BY <1>1, <1>2
  <2>. QED
    BY <2>1, <1>1, <1>10, <1>12, <1>13, IssuePreserves
<1>15. TypeOK'
  BY <1>1, <1>2, <1>3, <1>4, <1>5, <1>14 DEF TypeOK
<1>16. RecordsApart'
  <2>1. table_size' = table_size + RecordSize(s)
    BY DEF WriteRecord
  <2>2. \A p \in DOMAIN table :
          /\ p \in Nat /\ RecordSize(table[p]) \in Nat
          /\ p < table_size /\ p + RecordSize(table[p]) <= table_size
          /\ \A q \in DOMAIN table : p < q => p + RecordSize(table[p]) <= q
    BY <1>2, RecordSizeType DEF IInv, RecordsApart
  <2>3. ASSUME NEW p \in DOMAIN table'
        PROVE  p + RecordSize(table'[p]) <= table_size'
    <3>1. CASE p = table_size
      BY <2>1, <3>1, <1>1, <1>2, RecordSizeType
    <3>2. CASE p \in DOMAIN table
      BY <2>2, <3>2, <1>1, <1>2
    <3>. QED
      BY <2>3, <3>1, <3>2, <1>1
  <2>4. ASSUME NEW p \in DOMAIN table', NEW q \in DOMAIN table', p < q
        PROVE  p + RecordSize(table'[p]) <= q
    <3>1. p \in DOMAIN table
      BY <2>2, <2>4, <1>1, <1>2
    <3>2. table'[p] = table[p]
      BY <3>1, <1>1
    <3>3. CASE q = table_size
      BY <2>2, <3>1, <3>2, <3>3
    <3>4. CASE q \in DOMAIN table
      BY <2>2, <2>4, <3>1, <3>2, <3>4
    <3>. QED
      BY <2>4, <3>3, <3>4, <1>1
  <2>5. \A p \in DOMAIN table' : p + RecordSize(table'[p]) <= table_size'
    BY <2>3
  <2>6. \A p, q \in DOMAIN table' : p < q => p + RecordSize(table'[p]) <= q
    BY <2>4
  <2>. QED
    BY <2>5, <2>6 DEF RecordsApart, RecordSize
<1>. QED
  BY <1>1, <1>6, <1>7, <1>8, <1>9, <1>14, <1>15, <1>16 DEF IInv

-----------------------------------------------------------------------------
LEMMA AddTinyPreserves ==
  ASSUME IInv, NEW s \in Strings, Issue(s), AddTiny(s)
  PROVE  IInv'
  BY UnwrittenPreserves DEF AddTiny

LEMMA AddKnownPreserves ==
  ASSUME IInv, NEW s \in Strings, Issue(s), AddKnown(s)
  PROVE  IInv'
  BY UnwrittenPreserves DEF AddKnown

LEMMA AddShortPreserves ==
  ASSUME IInv, NEW s \in Strings, Issue(s), AddShort(s)
  PROVE  IInv'
<1>1. PICK g \in Growths : str_used' = g + IF ArenaFull THEN 0 ELSE str_used
  BY DEF AddShort
<1>2. g \in Nat /\ str_used \in Nat /\ UsedLimit \in Nat
  BY TableAssumption DEF IInv, TypeOK
<1>3. str_used' \in Nat /\ str_used' <= UsedLimit + g
  BY <1>1, <1>2 DEF ArenaFull
<1>4. ArenaBounded'
  BY <1>3 DEF ArenaBounded
<1>. QED
  BY <1>3, <1>4, WrittenPreserves DEF AddShort

LEMMA AddLongPreserves ==
  ASSUME IInv, NEW s \in Strings, Issue(s), AddLong(s)
  PROVE  IInv'
<1>1. str_used' \in Nat /\ str_used' <= UsedLimit
  BY TableAssumption DEF AddLong, ArenaFull, IInv, TypeOK
<1>2. s \notin Short /\ s \notin Tiny
  BY FormatAssumption DEF AddLong, Tiny, Short, TinyMax
<1>3. ArenaBounded'
  BY <1>1 DEF ArenaBounded
<1>. QED
  BY <1>1, <1>2, <1>3, WrittenPreserves DEF AddLong

(* Every step keeps the inductive invariant. *)
LEMMA NextIInv == IInv /\ [Next]_vars => IInv'
<1>1. ASSUME IInv, NEW s \in Strings, AddString(s) PROVE IInv'
  BY <1>1, AddTinyPreserves, AddKnownPreserves, AddShortPreserves, AddLongPreserves
     DEF AddString
<1>2. ASSUME IInv, UNCHANGED vars PROVE IInv'
  BY <1>2 DEF vars, tableVars, lookupVars, IInv, TypeOK, CounterTracks, RecordsInFile,
     RecordsApart, LookupSound, LookupComplete, IssuedSound, NoDuplicates, ArenaBounded, IndexInTable
<1>. QED
  BY <1>1, <1>2 DEF Next

(* frf_maker_add_to_string_table keeps the whole inductive invariant. *)
THEOREM Invariance == Spec => []IInv
  BY InitIInv, NextIInv, PTL DEF Spec

(* The variables of the string table keep their types, the 32-bit counter  *)
(* among them although it wraps.                                           *)
THEOREM TypeCorrect == Spec => []TypeOK
  BY Invariance, PTL DEF IInv

(* Below 2 GiB every pointer frf_maker_add_to_string_table ever returned   *)
(* leads the reader to its string: IssuedSound says where it leads, and    *)
(* the packed form of a tiny string reads back.                            *)
THEOREM PointersCorrect == Spec => []PointersResolve
<1>1. IInv => PointersResolve
  <2>1. SUFFICES ASSUME IInv, table_size <= Half, NEW i \in issued, i.str \notin Mangled
                 PROVE  Resolve(table, i.word) = i.str
    BY DEF PointersResolve
  <2>2. i.str \in Strings /\ i.word \in Word
    BY <2>1 DEF IInv, TypeOK
  <2>3. CASE i.str \in Tiny
    <3>1. i.word = TinyWord(i.str)
      BY <2>1, <2>3 DEF IInv, IssuedSound
    <3>2. TinyCode[i.str] \in Nat /\ Half \in Nat
      BY <2>3, FormatAssumption
    <3>3. i.word >= Half /\ i.word - Half = TinyCode[i.str]
      BY <3>1, <3>2 DEF TinyWord
    <3>. QED
      BY <3>3, <2>1, <2>3, TinyRoundTrip DEF Resolve, IsInline
  <2>4. CASE i.str \notin Tiny
    <3>1. /\ i.word < Half /\ i.word - 1 \in DOMAIN table
          /\ table[i.word - 1] = i.str
      BY <2>1, <2>4 DEF IInv, IssuedSound
    <3>2. ~(i.word >= Half)
      BY <3>1, <2>2, FormatAssumption DEF Word
    <3>. QED
      BY <3>1, <3>2 DEF Resolve, IsInline
  <2>. QED
    BY <2>3, <2>4
<1>. QED
  BY <1>1, Invariance, PTL

(* The lookup never holds a node of an arena life that is over. *)
THEOREM LookupIsLive == Spec => []LookupLive
<1>1. IInv => LookupLive
  BY DEF IInv, LookupSound, LookupLive
<1>. QED
  BY <1>1, Invariance, PTL

(* No short string is written twice in one life of the lookup arena. *)
THEOREM Deduplication == Spec => []NoDuplicates
  BY Invariance, PTL DEF IInv

(* The lookup arena stays within one insertion of its limit. *)
THEOREM ArenaStaysBounded == Spec => []ArenaBounded
  BY Invariance, PTL DEF IInv

(* ASSERT_INDEX holds of every pointer of a table below 4 GiB. *)
THEOREM IndexesInTable == Spec => []IndexInTable
  BY Invariance, PTL DEF IInv
=============================================================================
