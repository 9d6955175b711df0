----------------------------- MODULE FrfReaders -----------------------------
(***************************************************************************)
(* The whole way of a row: the maker makes a file, and one of the programs *)
(* that read it is run on what it made: render, stat, or a Perl script.    *)
(***************************************************************************)
EXTENDS FrfRendering

CONSTANTS
  IovMax, BufSize, FirstFour, Mapped, Past, (* As in the programs'.        *)
  Programs  (* Which of "render", "stat" and "perl" there are.             *)

(* A word is 32 bits, and four bytes of a file; a string with the top bit  *)
(* of its last byte cleared is a string; strings of at most four bytes are *)
(* told by the first four, which are zero where a string is over.          *)
ASSUME ReadersAssumption ==
  /\ Half % 2 = 0 /\ IovMax \in Nat /\ BufSize \in Nat /\ Past \in Nat
  /\ \A s \in Mangled : \E t \in Tiny \ Mangled : TinyCode[t] = TinyCode[s]
  /\ FirstFour \in [{s \in Strings : LenOf[s] <= 5} -> Word] /\ Mapped \in Word
  /\ \A s, t \in Tiny : FirstFour[s] = FirstFour[t] => s = t

VARIABLES
  program,                          (* The program that is run.            *)
  reader, row_ptr,                  (* The library's, as in FrfReader.     *)
  main,                             (* Where main of render or stat is.    *)
  option, i, shown,                 (* Those of FrfRender,                 *)
  sizes, uniq_c_hash, uniq_str_hash, count, uniq_count, bytes, turns, (* of *)
  object, kept, sought, wrote       (* FrfStat, and of FrfPerl.            *)

libraryVars == << reader, row_ptr, main >>
renderVars == << option, i, shown >>
statVars == << sizes, uniq_c_hash, uniq_str_hash, count, uniq_count, bytes, turns >>
perlVars == << object, kept, sought, wrote >>
allVars == << vars, program, libraryVars, renderVars, statVars, perlVars >>

Render == INSTANCE FrfRender
Stat == INSTANCE FrfStat
Perl == INSTANCE FrfPerl
R == INSTANCE FrfReader

ReadersInit ==
  /\ Init
  /\ program \in Programs
  /\ reader = "closed" /\ row_ptr = 0 /\ main = "start"
  /\ Render!RenderInit /\ Stat!StatInit /\ Perl!PerlInit

MakerStep ==
  /\ Next
  /\ UNCHANGED << program, libraryVars, renderVars, statVars, perlVars >>

RenderStep ==
  /\ program = "render" /\ Render!RenderStep
  /\ UNCHANGED << vars, program, statVars, perlVars >>

StatStep ==
  /\ program = "stat" /\ Stat!StatStep
  /\ UNCHANGED << vars, program, renderVars, perlVars >>

PerlStep ==
  /\ program = "perl" /\ Perl!PerlStep
  /\ UNCHANGED << vars, program, main, renderVars, statVars >>

(* Programs run on, one thread each; a script may stop anywhere. *)
ReadersSpec ==
  /\ ReadersInit
  /\ [][MakerStep \/ RenderStep \/ StatStep \/ PerlStep]_allVars
  /\ WF_allVars(RenderStep) /\ WF_allVars(StatStep)

-----------------------------------------------------------------------------
(* The offset of a row in the file, which add returns as an int, and what  *)
(* the row renders to.                                                     *)
PlaceOf(j) == answers[j].offset % (2 * Half)
TextOf(j) == RenderOf[answers[j].row]

(* What there is to be read at an offset: a row that was added, in its     *)
(* rendering, or nothing at all behind the last row.                       *)
IsRowAt(row, at) ==
  IF at < 4 * Len(v)
    THEN \E j \in DOMAIN answers :
           PlaceOf(j) = at /\ row = [end |-> FALSE, text |-> TextOf(j)]
    ELSE row = R!NoRow

(* The program reads a whole file, whose sections start below 4 GiB so     *)
(* that the header leads to them, and has not spoilt its own memory.       *)
OnCourse == reader # "astray"

(* Whatever way render goes, what it acts on is a row that was added, in   *)
(* its rendering, or nothing at all behind the last row.                   *)
ShownIsAdded == OnCourse => \A s \in shown : IsRowAt(s.row, s.at)

(* Rows of no more pieces than the array has room for. *)
Writable == {j \in DOMAIN answers : Len(TextOf(j)) <= IovMax}

(* What render is asked for it acts on: the row sought by the offset that  *)
(* was returned for it, or by its number, is that row, and among all rows  *)
(* none that can be written is missing.                                    *)
AskedIsShown ==
  main = "end" /\ OnCourse =>
    \A j \in Writable :
      LET isRow(s) == s.at = PlaceOf(j) /\ s.row = [end |-> FALSE, text |-> TextOf(j)]
          sought_it == \/ option.mode = "seek_offset" /\ option.arg = answers[j].offset
                       \/ option.mode = "seek_row" /\ option.arg = j - 1
      IN  /\ sought_it => shown # {} /\ \A s \in shown : isRow(s)
          /\ option.mode = "all" => \E s \in shown : isRow(s)

(* The size render prints is that of the row.  Where run's buffer can be   *)
(* written at all, a row rendered to it is all there when the answer says  *)
(* so, and it says so whenever the row fits.                               *)
BufferHoldsRow ==
  OnCourse =>
  \A s \in shown : \A j \in DOMAIN answers :
    PlaceOf(j) = s.at =>
      LET size == R!SizeOf(TextOf(j)) IN
      /\ s.size = size
      /\ s.buffered = Render!NoBuffer \/
         IF size <= BufSize
           THEN s.buffered = [answer |-> size, text |-> TextOf(j)]
           ELSE s.buffered.answer = -1 /\ R!SizeOf(s.buffered.text) <= BufSize

(* render.c 34 says of --all "act on all records in the file": it acts no  *)
(* more often than there are records.                                      *)
ActsOnRecords ==
  main = "end" /\ reader = "open" /\ option.mode = "all" => Cardinality(shown) <= num_rows

(* The pass of stat over a file has begun, and it is over.                 *)
Begun == sizes # << >>
Counted == Begun /\ main = "end" /\ reader = "open"

(* Every string of every row, in its rendering. *)
Rendered == FlattenSeq([j \in DOMAIN answers |-> TextOf(j)])
Texts == {Rendered[k] : k \in DOMAIN Rendered}

(* The report of stat is right.  It counts every string of every row once, *)
(* in its class, and the bytes the rows render to; the unique cells it     *)
(* counts are the records of the file, but that the turn at the end of a   *)
(* file without rows finds one that is not there; and below 4 GiB the      *)
(* sizes it prints are those of the sections.                              *)
ReportIsRight ==
  /\ Counted =>
       /\ turns = num_rows
       /\ \A c \in Stat!Classes :
            count[c] = Cardinality({k \in DOMAIN Rendered : Stat!ClassOf(Rendered[k]) = c})
       /\ bytes = R!SizeOf(Rendered)
       /\ Cardinality(uniq_c_hash) =
            IF answers = << >> THEN 1 ELSE Cardinality(DOMAIN uniq_cells_lookup)
  /\ Begun =>
       \/ sizes[1] >= 2 * Half
       \/ sizes = << sizes[1], table_size, 4 * Len(uc), 4 * Len(v) >>

(* Strings of five bytes may begin like others, and one of more may lie at *)
(* an address that is also the first four bytes of a shorter one.          *)
Confused ==
  {s \in Texts :
     \/ LenOf[s] = 5
     \/ LenOf[s] > 5 /\ \E p \in DOMAIN table : \E t \in Texts :
                           /\ table[p] = s /\ LenOf[t] <= 5
                           /\ Stat!AddressOf(s, p + 1) = FirstFour[t]}

(* Strings are counted as unique at least as often as there are different  *)
(* ones that stat cannot confuse with others, and no more often than the   *)
(* file has them.                                                          *)
CountsUnique ==
  LET total == uniq_count["tiny"] + uniq_count["small"] + uniq_count["large"] IN
  Counted =>
    /\ total >= Cardinality(Texts \ Confused)
    /\ total <= Cardinality(DOMAIN table) + Cardinality(Texts \cap Tiny)

(* However a script steps and seeks, what it writes is the row the reader  *)
(* stands at, as it renders, and nothing behind the last row.              *)
WritesTheRow ==
  OnCourse /\ wrote # Perl!Unwritten => IsRowAt(wrote.row, 4 * wrote.at)

(* A seek of a script leads back to the row whose number was kept: below   *)
(* 4 GiB when the number came from get_offset, and below 2 GiB when it     *)
(* came from add.  A row beyond is sought at its own place or at the       *)
(* first row.                                                              *)
SeeksTheRow ==
  reader = "open" =>
    /\ sought.from = "get_offset" /\ 4 * sought.row < 2 * Half =>
         row_ptr = sought.row
    /\ sought.from = "add" =>
         4 * row_ptr \in (IF answers[sought.row].offset < 0 THEN {0} ELSE {})
                           \cup {PlaceOf(sought.row)}

(* Once started on a file, render and stat come to an end, unless they are *)
(* killed or go astray.                                                    *)
ReadersEnd ==
  main \in {"seek", "run", "turn", "next"} ~>
    main = "end" \/ reader \in {"killed", "astray"}
=============================================================================
