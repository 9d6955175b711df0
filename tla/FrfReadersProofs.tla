-------------------------- MODULE FrfReadersProofs --------------------------
(***************************************************************************)
(* What the programs that read a file show is what was added to it: render *)
(* shows the row it was asked for, in its rendering, a script comes back   *)
(* to the row a number was kept for, and stat counts what there is, for    *)
(* every content file, every set of rows and every order of calls.         *)
(***************************************************************************)
EXTENDS FrfReaders, FrfMakerProofs

(* A file that can be read to its end: its pointers fit, no row of it has  *)
(* written behind its `results', its content misses nothing, and nobody    *)
(* steps further than 4 GiB.                                               *)
Readable ==
  /\ PointersFit /\ ~Overran
  /\ Missable(content) = {}
  /\ row_ptr \in Nat => 4 * row_ptr < 2 * Half

(* Half is half of a number of four bytes. *)
LEMMA HalfIsEven == \E h \in Nat \ {0} : Half = 2 * h /\ 2 * Half = 4 * h
<1>1. Half \in Nat \ {0} /\ Half % 2 = 0
  BY FormatAssumption, ReadersAssumption
<1>2. Half = 2 * (Half \div 2) /\ Half \div 2 \in Nat
  BY <1>1
<1>. QED
  BY <1>1, <1>2

(* With a word of that width the table's counter does not wrap either. *)
LEMMA TableFitsToo == TypeInv /\ PointersFit => TableFits
<1> SUFFICES ASSUME TypeInv, PointersFit PROVE TableFits
  OBVIOUS
<1>1. PICK h \in Nat \ {0} : Half = 2 * h
  BY HalfIsEven
<1>2. table_size \in Nat /\ table_size <= Half
  BY DEF TypeInv, ST!TypeOK, PointersFit
<1>. QED
  BY <1>1, <1>2 DEF TableFits

-----------------------------------------------------------------------------
(* What the library finds at a row pointer of a file: the row, its pieces, *)
(* whether they fit the array...                                           *)
IovecAt(f, r) ==
  IF AtEnd(f, r) THEN R!NoRow ELSE [end |-> FALSE, text |-> RowText(f, r)]
PiecesAt(f, r) == IF AtEnd(f, r) THEN << >> ELSE RowText(f, r)
FitsAt(f, r) == AtEnd(f, r) \/ UcCount(f, r) <= IovMax

(* ...what of them goes to a buffer, and all that render shows of a row.   *)
Buffered(pieces) ==
  LET n == R!Copied(R!SizesUpTo(pieces), BufSize) IN
  [answer |-> IF n = Len(pieces) THEN R!SizeOf(pieces) ELSE -1,
   text   |-> SubSeq(pieces, 1, n)]
Shot(f, r, buffered) ==
  [at |-> 4 * r, row |-> IovecAt(f, r), size |-> R!SizeOf(PiecesAt(f, r)),
   buffered |-> buffered]
Shots(f, r) ==
  {Shot(f, r, buffered) : buffered \in {Buffered(PiecesAt(f, r)), Render!NoBuffer}}

(* The library is the same in all programs. *)
LEMMA SameSteps ==
  ASSUME NEW f, NEW r
  PROVE  /\ Render!R!ToSkip(f, r) = ToSkip(f, r)
         /\ Perl!R!ToSkip(f, r) = ToSkip(f, r)
  BY DEF Render!R!ToSkip, Render!R!UcVectorCount, Render!R!UcOffset, Render!R!WordAt,
         Perl!R!ToSkip, Perl!R!UcVectorCount, Perl!R!UcOffset, Perl!R!WordAt,
         ToSkip, UcVectorCount, UcOffset, WordAt

LEMMA SameCells ==
  ASSUME NEW f, NEW r, NEW k
  PROVE  /\ Render!R!CellWord(f, r, k) = CellWord(f, r, k)
         /\ Perl!R!CellWord(f, r, k) = CellWord(f, r, k)
  BY DEF Render!R!CellWord, Render!R!UcCell, Render!R!UcOffset, Render!R!WordAt,
         Render!R!InVector,
         Perl!R!CellWord, Perl!R!UcCell, Perl!R!UcOffset, Perl!R!WordAt, Perl!R!InVector,
         Render!R!Cardinality, Render!R!IsFiniteSet, Perl!R!Cardinality, Perl!R!IsFiniteSet,
         Cardinality, IsFiniteSet, CellWord, UcCell, UcOffset, WordAt, InVector

LEMMA SameResolve ==
  ASSUME NEW tbl, NEW w
  PROVE  /\ Render!R!Resolve(tbl, w) = Resolve(tbl, w)
         /\ Perl!R!Resolve(tbl, w) = Resolve(tbl, w)
  BY DEF Render!R!Resolve, Render!R!IsInline, Render!R!TinyText, Render!R!Tiny, Render!R!TinyMax,
         Perl!R!Resolve, Perl!R!IsInline, Perl!R!TinyText, Perl!R!Tiny, Perl!R!TinyMax,
         Resolve, IsInline, TinyText, Tiny, TinyMax

LEMMA SameTexts ==
  ASSUME NEW f, NEW r
  PROVE  /\ Render!R!UcCount(f, r) = UcCount(f, r) /\ Render!R!RowText(f, r) = RowText(f, r)
         /\ Perl!R!UcCount(f, r) = UcCount(f, r) /\ Perl!R!RowText(f, r) = RowText(f, r)
<1>1. Render!R!UcCount(f, r) = UcCount(f, r) /\ Perl!R!UcCount(f, r) = UcCount(f, r)
  BY DEF Render!R!UcCount, Render!R!UcOffset, Render!R!WordAt,
         Perl!R!UcCount, Perl!R!UcOffset, Perl!R!WordAt, UcCount, UcOffset, WordAt
<1>. QED
  BY <1>1, SameCells, SameResolve DEF Render!R!RowText, Perl!R!RowText, RowText

(* What frf_write and its like make of the row a program stands at. *)
LEMMA SameIovec ==
  ASSUME NEW f
  PROVE  /\ Render!R!Iovec(f) = IovecAt(f, row_ptr) /\ Perl!R!Iovec(f) = IovecAt(f, row_ptr)
         /\ Render!R!Pieces(f) = PiecesAt(f, row_ptr)
         /\ Render!R!Fits(f) <=> FitsAt(f, row_ptr)
         /\ Perl!R!Fits(f) <=> FitsAt(f, row_ptr)
  BY SameTexts
     DEF Render!R!Iovec, Render!R!AtEnd, Render!R!NoRow, Render!R!Pieces, Render!R!Fits,
         Perl!R!Iovec, Perl!R!AtEnd, Perl!R!NoRow, Perl!R!Fits,
         IovecAt, PiecesAt, FitsAt, AtEnd, R!NoRow

(* The sizes are the same, too. *)
LEMMA SameSizes ==
  ASSUME NEW pieces
  PROVE  /\ Render!R!SizesUpTo(pieces) = R!SizesUpTo(pieces)
         /\ Render!R!SizeOf(pieces) = R!SizeOf(pieces)
<1>1. Render!R!SizesUpTo(pieces) = R!SizesUpTo(pieces)
  BY DEF Render!R!SizesUpTo, R!SizesUpTo
<1>. QED
  BY <1>1 DEF Render!R!SizeOf, R!SizeOf

LEMMA SameCopied ==
  ASSUME NEW upto
  PROVE  Render!R!Copied(upto, BufSize) = R!Copied(upto, BufSize)
  BY DEF Render!R!Copied, R!Copied, Render!R!Cardinality, R!Cardinality, Render!R!IsFiniteSet,
         R!IsFiniteSet

(* What render shows of the row it stands at. *)
LEMMA SameShot ==
  ASSUME NEW f, NEW buffered, row_ptr \in Nat, 4 * row_ptr < 2 * Half
  PROVE  [at |-> Render!R!GetOffset, row |-> Render!R!Iovec(f), size |-> Render!R!RenderSize(f),
          buffered |-> buffered] = Shot(f, row_ptr, buffered)
<1>1. Render!R!GetOffset = 4 * row_ptr
  <2>1. PICK m \in Nat \ {0} : m = 2 * Half
    BY FormatAssumption
  <2>2. 4 * row_ptr \in Nat /\ 4 * row_ptr < m
    BY <2>1
  <2>3. (4 * row_ptr) % m = 4 * row_ptr
    BY <2>1, <2>2
  <2>. QED
    BY <2>1, <2>3 DEF Render!R!GetOffset
<1>2. Render!R!RenderSize(f) = R!SizeOf(PiecesAt(f, row_ptr))
  BY SameIovec, SameSizes DEF Render!R!RenderSize
<1>. QED
  BY <1>1, <1>2, SameIovec DEF Shot

(* And what it leaves in a buffer. *)
LEMMA SameBuffered ==
  ASSUME NEW f
  PROVE  Render!R!RenderToBuffer(f, BufSize) = Buffered(PiecesAt(f, row_ptr))
<1>1. PICK pieces : pieces = PiecesAt(f, row_ptr)
  OBVIOUS
<1>2. Render!R!Pieces(f) = pieces /\ Render!R!RenderSize(f) = R!SizeOf(pieces)
  BY <1>1, SameIovec, SameSizes DEF Render!R!RenderSize
<1>3. PICK n : n = R!Copied(R!SizesUpTo(pieces), BufSize)
  OBVIOUS
<1>4. Render!R!Copied(Render!R!SizesUpTo(pieces), BufSize) = n
  BY <1>3, SameSizes, SameCopied
<1>5. Render!R!RenderToBuffer(f, BufSize) =
        [answer |-> IF n = Len(pieces) THEN R!SizeOf(pieces) ELSE -1,
         text   |-> SubSeq(pieces, 1, n)]
  BY <1>2, <1>4 DEF Render!R!RenderToBuffer
<1>. QED
  BY <1>1, <1>3, <1>5 DEF Buffered

-----------------------------------------------------------------------------
(* Where the n-th row is, counted from zero; behind the last one there is  *)
(* nothing but the end of the file.                                        *)
Nth(n, r) ==
  /\ n \in Nat /\ r \in Nat
  /\ IF n < Len(answers) THEN r = Pointed(answers[n + 1]) ELSE r >= Len(v)
AtPlace(r) == \E n : Nth(n, r)

(* The first row is where the vectors begin, and each row leads to the     *)
(* next one.                                                               *)
LEMMA RowFollows ==
  ASSUME StoreInv, Readable, NEW n, NEW r, Nth(n, r)
  PROVE  /\ Nth(n + 1, r + ToSkip(Sections, r))
         /\ n < Len(answers) => r < Len(v) /\ r + ToSkip(Sections, r) <= Len(v)
<1>1. /\ TypeInv /\ TableFits /\ UcFits /\ VFits /\ ~Overran
      /\ RowsInv /\ RecordsKept /\ RowsKept /\ RowsLie
  BY StoreParts, TableFitsToo DEF StoreInv, RowsInv, RecordsInv, Readable, PointersFit
<1>2. /\ v \in Seq(Word) /\ uc \in Seq(Nat) /\ DOMAIN v = 1 .. Len(v) /\ DOMAIN uc = 1 .. Len(uc)
      /\ Len(v) \in Nat /\ Len(uc) \in Nat /\ Len(answers) \in Nat
      /\ DOMAIN answers = 1 .. Len(answers)
  BY <1>1, LenProperties DEF TypeInv, SectionsOK, AnswersOK
<1>3. n \in Nat /\ r \in Nat
  BY DEF Nth
<1>4. ToSkip(Sections, r) \in Nat
  <2>1. \A k : WordAt(uc, k) \in Nat
    BY <1>2, ElementOfSeq DEF WordAt
  <2>. QED
    BY <2>1 DEF ToSkip, UcVectorCount, Sections
<1>5. CASE n < Len(answers)
  <2>1. n + 1 \in 1 .. Len(answers) /\ r = Pointed(answers[n + 1])
    BY <1>2, <1>3, <1>5 DEF Nth
  <2>2. PICK k \in DOMAIN uniq_cells_lookup :
          /\ Pointed(answers[n + 1]) + 1 \in 1 .. Len(v)
          /\ v[Pointed(answers[n + 1]) + 1] = uniq_cells_lookup[k]
          /\ Pointed(answers[n + 1]) + Cardinality(Open(k)) + 1 =
               IF n + 1 = Len(answers) THEN Len(v) ELSE Pointed(answers[n + 1 + 1])
    BY <1>1, <2>1 DEF RowsKept
  <2>3. PICK at : at = uniq_cells_lookup[k] \div 4
    OBVIOUS
  <2>4. RecordAt(uc, k, at)
    BY <1>1, <2>3 DEF RecordsKept
  <2>5. UcOffset(Sections, r) = uniq_cells_lookup[k]
    BY <1>2, <2>1, <2>2 DEF UcOffset, WordAt, Sections
  <2>6. ToSkip(Sections, r) = Cardinality(Open(k)) + 1
    <3>1. at + 2 \in DOMAIN uc /\ uc[at + 2] = Cardinality(Open(k))
      <4>1. k \in Seq(Word)
        BY <1>1 DEF TypeInv, SectionsOK
      <4>2. Len(k) \in Nat
        BY <4>1, LenProperties
      <4>. QED
        BY <1>2, <2>4, <4>2 DEF RecordAt
    <3>2. UcVectorCount(Sections, r) = WordAt(uc, at + 2)
      BY <2>3, <2>5 DEF UcVectorCount, Sections
    <3>. QED
      BY <3>1, <3>2 DEF ToSkip, WordAt
  <2>7. Cardinality(Open(k)) \in Nat
    <3>1. k \in Seq(Word)
      BY <1>1 DEF TypeInv, SectionsOK
    <3>. QED
      BY <3>1, OpenAppend, WordType
  <2>8. r + ToSkip(Sections, r) =
          IF n + 1 = Len(answers) THEN Len(v) ELSE Pointed(answers[n + 1 + 1])
    BY <1>3, <2>1, <2>2, <2>6, <2>7
  <2>9. r < Len(v)
    <3>1. PICK nv \in Nat : nv = Len(v)
      BY <1>2
    <3>2. r + 1 \in 1 .. nv
      BY <2>1, <2>2, <3>1
    <3>. QED
      BY <1>3, <3>1, <3>2
  <2>10. CASE n + 1 = Len(answers)
    BY <1>2, <1>3, <1>4, <2>8, <2>9, <2>10 DEF Nth
  <2>11. CASE n + 1 # Len(answers)
    <3>1. n + 1 < Len(answers) /\ n + 1 + 1 \in DOMAIN answers
      <4>1. PICK na \in Nat : na = Len(answers)
        BY <1>2
      <4>2. n + 1 < na /\ n + 1 + 1 \in 1 .. na
        BY <1>3, <1>5, <2>11, <4>1
      <4>. QED
        BY <1>2, <4>1, <4>2
    <3>2. PICK m \in 0 .. Len(v) - 1 : Pointed(answers[n + 1 + 1]) = m
      BY <1>1, <3>1 DEF RowsLie
    <3>3. /\ r + ToSkip(Sections, r) = Pointed(answers[n + 1 + 1])
          /\ r + ToSkip(Sections, r) \in Nat /\ r + ToSkip(Sections, r) <= Len(v)
      BY <1>2, <2>8, <2>11, <3>2
    <3>4. n + 1 \in Nat
      BY <1>3
    <3>. QED
      BY <2>9, <3>1, <3>3, <3>4 DEF Nth
  <2>. QED
    BY <2>10, <2>11
<1>6. CASE ~(n < Len(answers))
  BY <1>2, <1>3, <1>4, <1>6 DEF Nth
<1>. QED
  BY <1>5, <1>6

LEMMA FirstRow ==
  ASSUME StoreInv, Readable
  PROVE  Nth(0, 0)
<1>1. /\ TypeInv /\ TableFits /\ UcFits /\ VFits /\ ~Overran /\ RowsKept
  BY StoreParts, TableFitsToo DEF StoreInv, RowsInv, RecordsInv, Readable, PointersFit
<1>2. Len(answers) \in Nat /\ (Len(answers) = 0 => answers = << >>)
  BY <1>1, LenProperties, EmptySeq DEF TypeInv, AnswersOK
<1>3. answers = << >> => v = << >> /\ Len(v) = 0
  BY <1>1 DEF RowsKept
<1>4. 0 < Len(answers) => answers # << >>
  BY <1>2
<1>. QED
  BY <1>1, <1>2, <1>3, <1>4 DEF Nth, RowsKept

(* A row that was added is in its place, in its rendering. *)
LEMMA RowIsThere ==
  ASSUME StoreInv, Readable, NEW j \in DOMAIN answers
  PROVE  /\ Pointed(answers[j]) \in 0 .. Len(v) - 1
         /\ PlaceOf(j) = 4 * Pointed(answers[j])
         /\ IovecAt(Sections, Pointed(answers[j])) = [end |-> FALSE, text |-> TextOf(j)]
         /\ UcCount(Sections, Pointed(answers[j])) = Len(TextOf(j))
         /\ \E d \in Seq(Strings) : TextOf(j) = SeenAll(d)
<1>1. /\ TypeInv /\ VFits /\ ~answers[j].overrun
      /\ RowsLie /\ RecordsLie /\ WordsLead
  BY StoreParts DEF Readable, PointersFit, Overran
<1>2. PICK n \in 0 .. Len(v) - 1 : answers[j].offset = AsInt(4 * n) /\ Pointed(answers[j]) = n
  BY <1>1 DEF RowsLie
<1>3. Len(v) \in Nat /\ Len(uc) \in Nat /\ DOMAIN uc = 1 .. Len(uc) /\ DOMAIN v = 1 .. Len(v)
  BY <1>1, LenProperties DEF TypeInv, SectionsOK
<1>4. PlaceOf(j) = 4 * n
  <2>1. 4 * n \in Word
    <3>1. PICK nv \in Nat : nv = Len(v)
      BY <1>3
    <3>2. PICK m \in Nat : m = 2 * Half
      BY FormatAssumption
    <3>3. 4 * nv < m /\ n \in 0 .. nv - 1
      BY <1>1, <1>2, <3>1, <3>2 DEF VFits
    <3>4. 4 * n \in 0 .. m - 1
      BY <3>3
    <3>. QED
      BY <3>2, <3>4 DEF Word
  <2>. QED
    BY <1>2, <2>1, AsIntBack DEF PlaceOf
<1>. PICK k \in DOMAIN uniq_cells_lookup, vec \in Seq(Word) : \E d :
       /\ RowAt(v, uniq_cells_lookup[k], vec, n) /\ Shows(issued, k, vec, d)
       /\ SeenAll(d) \in RendersTo[content][answers[j].row]
  BY <1>1, <1>2 DEF RowsLie, RowLies
<1>5. PICK d : /\ RowAt(v, uniq_cells_lookup[k], vec, n) /\ Shows(issued, k, vec, d)
               /\ SeenAll(d) \in RendersTo[content][answers[j].row]
  OBVIOUS
<1>6. RowText(Sections, n) = SeenAll(d)
  BY <1>1, <1>5, RowIsRead
<1>7. answers[j].row \in Rows /\ content \in Bodies
  <2>1. answers[j] \in [offset : -Half .. Half - 1, row : Rows, overrun : BOOLEAN]
    <3>1. answers \in Seq([offset : -Half .. Half - 1, row : Rows, overrun : BOOLEAN])
      BY <1>1 DEF TypeInv, AnswersOK
    <3>. QED
      BY <3>1, LenProperties, ElementOfSeq
  <2>. QED
    BY <1>1, <2>1 DEF TypeInv, PlaceOK
<1>8. SeenAll(d) = TextOf(j)
  <2>1. RendersTo[content][answers[j].row] =
          {SeenAll(t) : t \in {x \in MayRender[content][answers[j].row] : ~WithoutValue(x)}}
    BY <1>7 DEF RendersTo
  <2>2. PICK t \in MayRender[content][answers[j].row] : SeenAll(d) = SeenAll(t)
    BY <1>5, <2>1
  <2>3. t = Renderings(answers[j].row, {})[content]
    BY <1>7, <2>2 DEF MayRender, Readable
  <2>4. TextOf(j) = SeenAll(Renderings(answers[j].row, {})[content])
    BY <1>7 DEF TextOf, RenderOf, RenderingsOf
  <2>. QED
    BY <2>2, <2>3, <2>4
<1>9. UcCount(Sections, n) = Len(TextOf(j))
  <2>1. d \in Seq(Strings) /\ Len(d) = Len(k) /\ Len(k) \in Nat /\ DOMAIN d = 1 .. Len(d)
    BY <1>1, <1>5, LenProperties DEF Shows, TypeInv, SectionsOK
  <2>2. SeenAll(d) = [m \in 1 .. Len(k) |-> Seen(d[m])]
    BY <2>1 DEF SeenAll
  <2>3. Len(SeenAll(d)) = Len(k)
    BY <2>1, <2>2
  <2>4. PICK at \in Nat : at = uniq_cells_lookup[k] \div 4
    BY <1>1 DEF RecordsLie, CellsAt
  <2>5. at + 1 \in DOMAIN uc /\ uc[at + 1] = Len(k)
    BY <1>1, <1>3, <2>1, <2>4 DEF RecordsLie, CellsAt
  <2>6. UcOffset(Sections, n) = uniq_cells_lookup[k]
    BY <1>2, <1>3, <1>5 DEF UcOffset, WordAt, Sections, RowAt
  <2>7. UcCount(Sections, n) = WordAt(uc, at + 1)
    BY <2>4, <2>6 DEF UcCount, Sections
  <2>. QED
    BY <1>8, <2>3, <2>5, <2>7 DEF WordAt
<1>10. IovecAt(Sections, n) = [end |-> FALSE, text |-> TextOf(j)]
  <2>1. ~AtEnd(Sections, n)
    BY <1>2, <1>3 DEF AtEnd, Sections
  <2>. QED
    BY <1>6, <1>8, <2>1 DEF IovecAt
<1>11. d \in Seq(Strings)
  BY <1>5 DEF Shows
<1>. QED
  BY <1>2, <1>4, <1>8, <1>9, <1>10, <1>11

-----------------------------------------------------------------------------
(* Nothing is read before there is a file... *)
Started ==
  \/ reader = "open" \/ main # "start" \/ shown # {}
  \/ kept # Perl!Unkept \/ sought # Perl!Unkept \/ wrote # Perl!Unwritten
FileThere == Started => file.state = "whole"

(* ...and only by the program that is run. *)
Bystanders ==
  /\ program # "render" => option = Render!Unasked /\ shown = {}
  /\ program # "perl" =>
       kept = Perl!Unkept /\ sought = Perl!Unkept /\ wrote = Perl!Unwritten
  /\ program = "perl" => main = "start"

(* A script that has loaded no file reads none. *)
ObjectInv ==
  program = "perl" =>
    /\ object = "none" => reader = "closed"
    /\ object = "null" => reader \in {"closed", "killed"}

(* What render is to find: the row it was asked for. *)
Asked(r) ==
  /\ option.mode = "seek_offset" => r = R!SeekTo(option.arg)
  /\ option.mode = "seek_row" => Nth(option.arg, r)

(* The rows up to the n-th have been shown, all that can be written. *)
ShownBefore(n) ==
  \A j \in Writable :
    j <= n => \E s \in Shots(Sections, Pointed(answers[j])) : s \in shown

(* Where render is, and what it has shown so far. *)
ShownRight ==
  \A s \in shown : \E r : AtPlace(r) /\ 4 * r < 2 * Half /\ s \in Shots(Sections, r)

RenderInv ==
  /\ main \in {"start", "seek", "run", "next", "end"}
  /\ main = "start" => shown = {} /\ i = 0 /\ reader # "open"
  /\ main # "start" => AtPlace(row_ptr) /\ option \in Render!Options
  /\ ShownRight
  /\ main = "seek" =>
       /\ shown = {} /\ option.mode \in {"seek_offset", "seek_row"}
       /\ option.mode = "seek_row" => Nth(i, row_ptr)
  /\ main = "run" /\ reader = "open" =>
       IF option.mode = "all" THEN \E n : Nth(n, row_ptr) /\ ShownBefore(n)
       ELSE shown = {} /\ Asked(row_ptr)
  /\ main = "next" => option.mode = "all" /\ \E n : Nth(n, row_ptr) /\ ShownBefore(n + 1)
  /\ main = "end" =>
       IF option.mode = "all" THEN ShownBefore(Len(answers))
       ELSE /\ Asked(row_ptr)
            /\ \/ \E s \in Shots(Sections, row_ptr) : shown = {s}
               \/ shown = {} /\ ~FitsAt(Sections, row_ptr)

(* A number a script keeps is the offset of a row, or of where it was. *)
KeptRight(k) ==
  \/ k = Perl!Unkept
  \/ k.from = "add" /\ k.row \in DOMAIN answers /\ k.offset = answers[k.row].offset
  \/ /\ k.from = "get_offset" /\ AtPlace(k.row) /\ 4 * k.row < 2 * Half
     /\ k.offset = 4 * k.row

(* Where a script is, and where what it sought and wrote is. *)
SoughtRight ==
  \/ sought = Perl!Unkept
  \/ sought.from = "get_offset" /\ row_ptr = sought.row
  \/ /\ sought.from = "add" /\ sought.row \in DOMAIN answers
     /\ \/ row_ptr = Pointed(answers[sought.row])
        \/ row_ptr = 0 /\ answers[sought.row].offset < 0
WroteRight ==
  \/ wrote = Perl!Unwritten
  \/ \E r : AtPlace(r) /\ 4 * r < 2 * Half /\ wrote = [at |-> r, row |-> IovecAt(Sections, r)]

PerlInv ==
  /\ object = "none" => sought = Perl!Unkept
  /\ reader = "open" => AtPlace(row_ptr)
  /\ KeptRight(kept) /\ SoughtRight /\ WroteRight

CourseInv ==
  /\ FileThere
  /\ program = "render" => RenderInv
  /\ program = "perl" => PerlInv

(* Of a program astray nothing is said. *)
ReadersInv == StoreInv /\ Bystanders /\ ObjectInv /\ (OnCourse => CourseInv)

(* It never comes back on course. *)
LEMMA OnceAstray ==
  ASSUME ObjectInv, MakerStep \/ RenderStep \/ StatStep \/ PerlStep \/ UNCHANGED allVars, OnCourse'
  PROVE  OnCourse
<1>. SUFFICES ASSUME reader = "astray" PROVE FALSE
  BY DEF OnCourse
<1>1. CASE MakerStep \/ UNCHANGED allVars
  BY <1>1 DEF MakerStep, allVars, libraryVars, OnCourse
<1>2. CASE RenderStep
  <2>1. reader' = "astray"
    BY <1>2 DEF RenderStep, Render!RenderStep, Render!Start, Render!SeekOffset, Render!SkipRow,
                Render!Skipped, Render!NextRow, Render!Run, Render!RunDumps,
                Render!RunDumpsAstray, Render!RunOverflows, Render!Strays,
                Render!R!Open, Render!R!OpenNothing, Render!R!Seek, Render!R!Next,
                Render!R!NextFaults, Render!R!Overflows, Render!readerVars
  <2>. QED
    BY <2>1 DEF OnCourse
<1>3. CASE StatStep
  <2>1. reader' = "astray"
    BY <1>3 DEF StatStep, Stat!StatStep, Stat!Start, Stat!StartsAstray, Stat!Turn,
                Stat!TurnFaults, Stat!Advance, Stat!R!Open, Stat!R!OpenNothing, Stat!R!Next
  <2>. QED
    BY <2>1 DEF OnCourse
<1>4. CASE PerlStep
  <2>1. reader' = "astray"
    BY <1>4 DEF PerlStep, ObjectInv, Perl!PerlStep, Perl!Load, Perl!NullKills, Perl!NextRow,
                Perl!KeepAnswer, Perl!KeepOffset, Perl!Seek, Perl!Write, Perl!WriteOverflows,
                Perl!Strays, Perl!Destroy, Perl!Live, Perl!R!Open, Perl!R!OpenNothing,
                Perl!R!Next, Perl!R!NextFaults, Perl!R!Seek
  <2>. QED
    BY <2>1 DEF OnCourse
<1>. QED
  BY <1>1, <1>2, <1>3, <1>4

(* The object is what the script has made of it. *)
LEMMA ObjectStays ==
  ASSUME Bystanders, ObjectInv,
         MakerStep \/ RenderStep \/ StatStep \/ PerlStep \/ UNCHANGED allVars
  PROVE  ObjectInv'
<1>1. CASE PerlStep
  <2>1. CASE Perl!Load
    BY <1>1, <2>1 DEF PerlStep, Perl!Load, Perl!R!Open, Perl!R!OpenNothing, ObjectInv
  <2>2. CASE Perl!NullKills
    BY <2>2 DEF Perl!NullKills, ObjectInv
  <2>3. CASE ~Perl!Load /\ ~Perl!NullKills
    <3>1. object = "live" /\ object' # "none" /\ object' # "null"
      BY <1>1, <2>3
         DEF PerlStep, Perl!PerlStep, Perl!NextRow, Perl!KeepAnswer, Perl!KeepOffset, Perl!Seek,
             Perl!Write, Perl!WriteOverflows, Perl!Strays, Perl!Destroy, Perl!Live
    <3>. QED
      BY <3>1 DEF ObjectInv
  <2>. QED
    BY <2>1, <2>2, <2>3
<1>2. CASE RenderStep \/ StatStep
  <2>1. program # "perl" /\ UNCHANGED program
    BY <1>2 DEF RenderStep, StatStep
  <2>. QED
    BY <2>1 DEF ObjectInv
<1>3. CASE MakerStep \/ UNCHANGED allVars
  <2>1. UNCHANGED << program, object, reader >>
    BY <1>3 DEF MakerStep, allVars, libraryVars, perlVars
  <2>. QED
    BY <2>1 DEF ObjectInv
<1>. QED
  BY <1>1, <1>2, <1>3

(* A file that is there stays as it is. *)
LEMMA FileStays ==
  ASSUME StoreInv, [Next]_vars, file.state = "whole"
  PROVE  UNCHANGED vars
<1>1. pc = "finished"
  BY DEF StoreInv, RowsInv, RecordsInv, WordsInv, HeaderInv, FileIsLast
<1>2. ~Step
  <2>1. ~\E kind : AtSegment(kind)
    BY <1>1 DEF AtSegment
  <2>2. ~\E types : AtCell(types)
    BY <1>1 DEF AtCell
  <2>3. ~(PrecompileText \/ PrecompileKnownTag \/ PrecompileNewTag \/ PrecompileUnknownTag)
    BY <2>1 DEF PrecompileText, PrecompileKnownTag, PrecompileNewTag, PrecompileUnknownTag
  <2>4. ~(CompileDc \/ SpliceDc \/ SpliceNothing \/ EmitStatic \/ EmitKnown \/ EmitValue \/ EmitNull)
    BY <2>2 DEF CompileDc, SpliceDc, SpliceNothing, EmitStatic, EmitKnown, EmitValue, EmitNull
  <2>5. ~(PrecompileEnd \/ FinishRow \/ PrecompileExits)
    BY <1>1 DEF PrecompileEnd, FinishRow, PrecompileExits
  <2>6. ~OverrunCrashes
    BY <2>2 DEF OverrunCrashes
  <2>. QED
    BY <2>3, <2>4, <2>5, <2>6 DEF Step
<1>3. ~\E p \in Rows : BeginAdd(p)
  BY <1>1 DEF BeginAdd
<1>. QED
  BY <1>1, <1>2, <1>3 DEF Next, Stopped, Finish

(* Nothing is read, shown or kept at first. *)
LEMMA ReadersInvInit == ReadersInit => ReadersInv
<1> SUFFICES ASSUME ReadersInit PROVE ReadersInv
  OBVIOUS
<1>1. StoreInv
  BY StoreInvInit DEF ReadersInit
<1>2. /\ reader = "closed" /\ main = "start" /\ shown = {} /\ i = 0
      /\ option = Render!Unasked
      /\ kept = Perl!Unkept /\ sought = Perl!Unkept /\ wrote = Perl!Unwritten
      /\ object = "none"
  BY DEF ReadersInit, Render!RenderInit, Perl!PerlInit
<1>3. FileThere /\ Bystanders /\ ObjectInv
  BY <1>2 DEF FileThere, Started, Bystanders, ObjectInv
<1>4. RenderInv /\ PerlInv
  BY <1>2 DEF RenderInv, ShownRight, PerlInv, KeptRight, SoughtRight, WroteRight
<1>. QED
  BY <1>1, <1>3, <1>4 DEF ReadersInv, CourseInv

(* The maker's steps: a file that was opened it leaves alone. *)
LEMMA MakerKeepsReaders ==
  ASSUME ReadersInv, StoreInv', MakerStep \/ UNCHANGED allVars
  PROVE  ReadersInv'
<1>1. [Next]_vars /\ UNCHANGED << program, libraryVars, renderVars, perlVars >>
  BY DEF MakerStep, allVars
<1>2. UNCHANGED << program, reader, row_ptr, main, option, i, shown, object, kept, sought, wrote >>
  BY <1>1 DEF libraryVars, renderVars, perlVars
<1>3. Bystanders'
  BY <1>2 DEF ReadersInv, Bystanders
<1>. SUFFICES ASSUME OnCourse' PROVE CourseInv'
  BY <1>3, ObjectStays DEF ReadersInv
<1>0. CourseInv
  BY OnceAstray DEF ReadersInv
<1>4. CASE Started
  <2>1. UNCHANGED vars
    BY <1>1, <1>4, <1>0, FileStays DEF ReadersInv, CourseInv, FileThere
  <2>2. UNCHANGED << file, answers, v, content, num_rows, Sections >>
    BY <2>1 DEF vars, tableVars, fileVars, templateVars, Sections
  <2>3. FileThere'
    BY <1>2, <1>0, <2>2 DEF CourseInv, FileThere, Started
  <2>4. program = "render" => RenderInv'
    BY <1>2, <1>0, <2>2
       DEF CourseInv, RenderInv, ShownRight, AtPlace, Nth, Asked, ShownBefore, Writable, TextOf,
           RenderOf, Render!Options, Render!OffsetsAsked
  <2>5. program = "perl" => PerlInv'
    BY <1>2, <1>0, <2>2 DEF CourseInv, PerlInv, KeptRight, SoughtRight, WroteRight, AtPlace, Nth
  <2>. QED
    BY <1>2, <2>3, <2>4, <2>5 DEF CourseInv
<1>5. CASE ~Started
  <2>1. ~Started'
    BY <1>2, <1>5 DEF Started
  <2>2. FileThere'
    BY <2>1 DEF FileThere
  <2>3. program = "render" => RenderInv'
    BY <1>2, <1>5, <1>0 DEF CourseInv, RenderInv, ShownRight, Started
  <2>4. program = "perl" => PerlInv'
    BY <1>2, <1>5, <1>0 DEF CourseInv, PerlInv, KeptRight, SoughtRight, WroteRight, Started
  <2>. QED
    BY <1>2, <2>2, <2>3, <2>4 DEF CourseInv
<1>. QED
  BY <1>4, <1>5

-----------------------------------------------------------------------------
(* Numbers below the width, and below zero by no more than it. *)
LEMMA Wraps ==
  \A a, b \in Nat : b # 0 /\ a < b => a % b = a /\ (a - b) % b = a /\ b % b = 0
  OBVIOUS

(* An offset below 4 GiB leads to its word. *)
LEMMA OffsetLeads ==
  ASSUME NEW r \in Nat, 4 * r < 2 * Half
  PROVE  R!SeekTo(4 * r) = r
<1>1. PICK m \in Nat \ {0} : m = 2 * Half
  BY FormatAssumption
<1>2. (4 * r) % m = 4 * r
  BY <1>1, Wraps
<1>3. (4 * r) \div 4 = r
  OBVIOUS
<1>. QED
  BY <1>1, <1>2, <1>3 DEF R!SeekTo

(* Each row has its number. *)
LEMMA RowPlace ==
  ASSUME StoreInv, Readable, NEW j \in DOMAIN answers
  PROVE  Nth(j - 1, Pointed(answers[j]))
<1>1. Pointed(answers[j]) \in Nat
  BY RowIsThere
<1>2. PICK na \in Nat : na = Len(answers) /\ DOMAIN answers = 1 .. na
  <2>1. TypeInv
    BY StoreParts
  <2>. QED
    BY <2>1, LenProperties DEF TypeInv, AnswersOK
<1>3. j - 1 \in Nat /\ j - 1 < na /\ j - 1 + 1 = j
  BY <1>2
<1>. QED
  BY <1>1, <1>2, <1>3 DEF Nth

(* And each number its row: one that was added, or none behind the last.   *)
LEMMA PlaceRow ==
  ASSUME StoreInv, Readable, NEW n, NEW r, Nth(n, r)
  PROVE  /\ n < Len(answers) => n + 1 \in DOMAIN answers /\ r = Pointed(answers[n + 1])
         /\ ~(n < Len(answers)) => r >= Len(v)
<1>1. PICK na \in Nat : na = Len(answers) /\ DOMAIN answers = 1 .. na
  <2>1. TypeInv
    BY StoreParts
  <2>. QED
    BY <2>1, LenProperties DEF TypeInv, AnswersOK
<1>. QED
  BY <1>1 DEF Nth

(* What is read at such a place is a row that was added, or nothing.       *)
LEMMA PlaceShows ==
  ASSUME StoreInv, Readable, NEW r, AtPlace(r)
  PROVE  IsRowAt(IovecAt(Sections, r), 4 * r)
<1>1. PICK n : Nth(n, r)
  BY DEF AtPlace
<1>2. PICK nv \in Nat : nv = Len(v)
  <2>1. TypeInv
    BY StoreParts
  <2>. QED
    BY <2>1, LenProperties DEF TypeInv, SectionsOK
<1>3. r \in Nat
  BY <1>1 DEF Nth
<1>4. CASE n < Len(answers)
  <2>1. n + 1 \in DOMAIN answers /\ r = Pointed(answers[n + 1])
    BY <1>1, <1>4, PlaceRow
  <2>2. /\ r \in 0 .. nv - 1 /\ PlaceOf(n + 1) = 4 * r
        /\ IovecAt(Sections, r) = [end |-> FALSE, text |-> TextOf(n + 1)]
    BY <1>2, <2>1, RowIsThere
  <2>3. 4 * r < 4 * nv
    BY <2>2
  <2>. QED
    BY <1>2, <2>1, <2>2, <2>3 DEF IsRowAt
<1>5. CASE ~(n < Len(answers))
  <2>1. r >= nv
    BY <1>1, <1>2, <1>5, PlaceRow
  <2>2. ~(4 * r < 4 * nv)
    BY <1>3, <2>1
  <2>3. IovecAt(Sections, r) = R!NoRow
    BY <1>2, <2>1 DEF IovecAt, AtEnd, Sections
  <2>. QED
    BY <1>2, <2>2, <2>3 DEF IsRowAt
<1>. QED
  BY <1>4, <1>5

(* A row sought by what add returned for it is where the seek leads.       *)
LEMMA AnswerLeads ==
  ASSUME NEW j
  PROVE  R!SeekTo(answers[j].offset) = Pointed(answers[j])
  BY DEF R!SeekTo, Pointed

(* Whatever render is asked to seek, it comes to a row or behind the last. *)
LEMMA SeekLands ==
  ASSUME StoreInv, Readable, option \in Render!Options, option.mode = "seek_offset"
  PROVE  AtPlace(R!SeekTo(option.arg))
<1>1. PICK nv \in Nat : nv = Len(v)
  <2>1. TypeInv
    BY StoreParts
  <2>. QED
    BY <2>1, LenProperties DEF TypeInv, SectionsOK
<1>2. PICK na \in Nat : na = Len(answers)
  <2>1. TypeInv
    BY StoreParts
  <2>. QED
    BY <2>1, LenProperties DEF TypeInv, AnswersOK
<1>3. PICK h \in Nat \ {0} : 2 * Half = 4 * h
  BY HalfIsEven
<1>4. nv < h
  BY <1>1, <1>3 DEF Readable, PointersFit, VFits
<1>5. ASSUME NEW r \in Nat, r >= nv PROVE AtPlace(r)
  BY <1>1, <1>2, <1>5 DEF AtPlace, Nth
<1>6. CASE \E j \in DOMAIN answers : option.arg = answers[j].offset
  BY <1>6, AnswerLeads, RowPlace DEF AtPlace
<1>7. CASE option.arg = -4
  <2>1. PICK m \in Nat : m = 4 * h
    OBVIOUS
  <2>2. 4 * (h - 1) \in Nat /\ 4 * (h - 1) < m /\ 4 * (h - 1) - m = -4
    BY <2>1
  <2>3. (-4) % m = 4 * (h - 1)
    BY <2>2, Wraps
  <2>4. (4 * (h - 1)) \div 4 = h - 1
    OBVIOUS
  <2>5. R!SeekTo(option.arg) = h - 1
    BY <1>3, <1>7, <2>1, <2>3, <2>4 DEF R!SeekTo
  <2>. QED
    BY <1>4, <1>5, <2>5
<1>8. CASE option.arg = 4 * Len(v)
  <2>1. R!SeekTo(option.arg) = nv
    BY <1>1, <1>3, <1>4, <1>8, OffsetLeads
  <2>. QED
    BY <1>5, <2>1
<1>9. CASE option.arg = 4 * Len(v) + 4
  <2>1. option.arg = 4 * (nv + 1)
    BY <1>1, <1>9
  <2>2. CASE nv + 1 < h
    <3>1. R!SeekTo(option.arg) = nv + 1
      BY <1>3, <2>1, <2>2, OffsetLeads
    <3>. QED
      BY <1>5, <3>1
  <2>3. CASE nv + 1 = h
    <3>1. PICK m \in Nat \ {0} : m = 4 * h
      OBVIOUS
    <3>2. m % m = 0
      BY <3>1, Wraps
    <3>3. R!SeekTo(option.arg) = 0
      BY <1>3, <2>1, <2>3, <3>1, <3>2 DEF R!SeekTo
    <3>. QED
      BY <3>3, FirstRow DEF AtPlace
  <2>. QED
    BY <1>4, <2>2, <2>3
<1>. QED
  BY <1>6, <1>7, <1>8, <1>9 DEF Render!Options, Render!OffsetsAsked

-----------------------------------------------------------------------------
(* The file a program has opened is what the maker left. *)
LEMMA OpenedIsLeft ==
  ASSUME StoreInv, file.state = "whole"
  PROVE  file.sections = Sections
  BY DEF StoreInv, RowsInv, RecordsInv, WordsInv, HeaderInv, FileIsLast

(* The reading programs leave all of the maker's as it is. *)
LEMMA FileKept ==
  ASSUME UNCHANGED vars
  PROVE  UNCHANGED << file, answers, v, uc, table, table_size, content, num_rows, pc, Sections >>
  BY DEF vars, tableVars, fileVars, templateVars, Sections

(* Where render has opened the file. *)
LEMMA RenderStarts ==
  ASSUME StoreInv, Readable, RenderInv, UNCHANGED vars, OnCourse', Render!Start
  PROVE  RenderInv'
<1>1. UNCHANGED << answers, v, content, num_rows, Sections >>
  BY FileKept
<1>2. /\ row_ptr' = 0 /\ shown' = {} /\ i' = 0 /\ option' \in Render!Options
      /\ main' = IF option'.mode = "all" THEN "run" ELSE "seek"
  BY DEF Render!Start, Render!R!Open, Render!R!OpenNothing, OnCourse, RenderInv
<1>3. (option \in Render!Options)'
  BY <1>1, <1>2 DEF Render!Options, Render!OffsetsAsked
<1>4. Nth(0, row_ptr)'
  BY <1>1, <1>2, FirstRow DEF Nth
<1>5. AtPlace(row_ptr)'
  BY <1>4 DEF AtPlace
<1>6. ShownRight'
  BY <1>2 DEF ShownRight
<1>7. CASE option'.mode = "all"
  <2>1. main' = "run"
    BY <1>2, <1>7
  <2>2. Len(answers) \in Nat /\ DOMAIN answers = 1 .. Len(answers)
    <3>1. TypeInv
      BY StoreParts
    <3>. QED
      BY <3>1, LenProperties DEF TypeInv, AnswersOK
  <2>3. ~\E j \in DOMAIN answers : j <= 0
    BY <2>2
  <2>4. ShownBefore(0)'
    BY <1>1, <2>3 DEF ShownBefore, Writable
  <2>. QED
    BY <1>3, <1>4, <1>5, <1>6, <1>7, <2>1, <2>4 DEF RenderInv
<1>8. CASE option'.mode # "all"
  <2>1. main' = "seek"
    BY <1>2, <1>8
  <2>2. option'.mode \in {"seek_offset", "seek_row"}
    BY <1>2, <1>8 DEF Render!Options, Render!OffsetsAsked
  <2>3. (Nth(i, row_ptr))'
    BY <1>2, <1>4 DEF Nth
  <2>. QED
    BY <1>2, <1>3, <1>5, <1>6, <2>1, <2>2, <2>3 DEF RenderInv
<1>. QED
  BY <1>7, <1>8

(* Where it has sought the offset it was given. *)
LEMMA RenderSeeks ==
  ASSUME StoreInv, Readable, RenderInv, UNCHANGED vars, Render!SeekOffset
  PROVE  RenderInv'
<1>1. UNCHANGED << answers, v, content, num_rows, Sections >>
  BY FileKept
<1>2. /\ row_ptr' = R!SeekTo(option.arg) /\ main' = "run"
      /\ UNCHANGED << option, i, shown >>
      /\ shown = {} /\ option \in Render!Options /\ option.mode = "seek_offset"
  BY DEF Render!SeekOffset, Render!R!Seek, Render!R!SeekTo, R!SeekTo, RenderInv
<1>3. (option \in Render!Options)'
  BY <1>1, <1>2 DEF Render!Options, Render!OffsetsAsked
<1>4. AtPlace(row_ptr)'
  <2>1. PICK n : Nth(n, R!SeekTo(option.arg))
    BY <1>2, SeekLands DEF AtPlace
  <2>2. Nth(n, row_ptr)'
    BY <1>1, <1>2, <2>1 DEF Nth
  <2>. QED
    BY <2>2 DEF AtPlace
<1>5. Asked(row_ptr)'
  BY <1>2 DEF Asked, R!SeekTo
<1>6. ShownRight'
  BY <1>2 DEF ShownRight
<1>. QED
  BY <1>2, <1>3, <1>4, <1>5, <1>6 DEF RenderInv

(* Where it has skipped a row, or the memory behind the file is not there. *)
LEMMA RenderSkips ==
  ASSUME StoreInv, Readable, RenderInv, UNCHANGED vars, file.sections = Sections, Render!SkipRow
  PROVE  RenderInv'
<1>1. UNCHANGED << answers, v, content, num_rows, Sections >>
  BY FileKept
<1>2. /\ main = "seek" /\ UNCHANGED << main, option, shown >>
      /\ shown = {} /\ option \in Render!Options /\ option.mode = "seek_row" /\ Nth(i, row_ptr)
  BY DEF Render!SkipRow, RenderInv
<1>3. (option \in Render!Options)'
  BY <1>1, <1>2 DEF Render!Options, Render!OffsetsAsked
<1>4. Nth(i, row_ptr)'
  <2>1. CASE UNCHANGED << i, row_ptr >>
    BY <1>1, <1>2, <2>1 DEF Nth
  <2>2. CASE Render!R!Next(Render!Opened) /\ i' = i + 1
    <3>1. row_ptr' = row_ptr + ToSkip(Sections, row_ptr)
      BY <2>2, SameSteps DEF Render!R!Next, Render!R!RowAfter, Render!Opened
    <3>2. Nth(i + 1, row_ptr + ToSkip(Sections, row_ptr))
      BY <1>2, RowFollows
    <3>. QED
      BY <1>1, <2>2, <3>1, <3>2 DEF Nth
  <2>. QED
    BY <2>1, <2>2 DEF Render!SkipRow, Render!R!NextFaults
<1>5. AtPlace(row_ptr)'
  BY <1>4 DEF AtPlace
<1>6. ShownRight'
  BY <1>2 DEF ShownRight
<1>. QED
  BY <1>2, <1>3, <1>4, <1>5, <1>6 DEF RenderInv

(* Where it has skipped all it was to skip. *)
LEMMA RenderSkipped ==
  ASSUME StoreInv, Readable, RenderInv, UNCHANGED vars, Render!Skipped
  PROVE  RenderInv'
<1>1. UNCHANGED << answers, v, content, num_rows, Sections >>
  BY FileKept
<1>2. /\ main' = "run" /\ UNCHANGED << row_ptr, option, i, shown >>
      /\ shown = {} /\ option \in Render!Options /\ option.mode = "seek_row"
      /\ Nth(option.arg, row_ptr)
  BY DEF Render!Skipped, Render!readerVars, RenderInv
<1>3. (option \in Render!Options)'
  BY <1>1, <1>2 DEF Render!Options, Render!OffsetsAsked
<1>4. Nth(option.arg, row_ptr)'
  BY <1>1, <1>2 DEF Nth
<1>5. AtPlace(row_ptr)'
  BY <1>4 DEF AtPlace
<1>6. Asked(row_ptr)'
  BY <1>2, <1>4 DEF Asked
<1>7. ShownRight'
  BY <1>2 DEF ShownRight
<1>. QED
  BY <1>2, <1>3, <1>5, <1>6, <1>7 DEF RenderInv

(* A row of no more pieces than there is room for fits. *)
LEMMA WritableFits ==
  ASSUME StoreInv, Readable, NEW j \in Writable
  PROVE  FitsAt(Sections, Pointed(answers[j]))
<1>1. j \in DOMAIN answers /\ Len(TextOf(j)) <= IovMax
  BY DEF Writable
<1>. QED
  BY <1>1, RowIsThere DEF FitsAt

(* With the n-th row shown, or too long to be, all rows up to it have been. *)
LEMMA ShownUpTo ==
  ASSUME StoreInv, Readable, NEW n, Nth(n, row_ptr), ShownBefore(n), NEW seen,
         shown \subseteq seen,
         FitsAt(Sections, row_ptr) => \E s \in Shots(Sections, row_ptr) : s \in seen
  PROVE  \A j \in Writable :
           j <= n + 1 => \E s \in Shots(Sections, Pointed(answers[j])) : s \in seen
<1> SUFFICES ASSUME NEW j \in Writable, j <= n + 1
             PROVE  \E s \in Shots(Sections, Pointed(answers[j])) : s \in seen
  OBVIOUS
<1>1. PICK na \in Nat : na = Len(answers) /\ DOMAIN answers = 1 .. na
  <2>1. TypeInv
    BY StoreParts
  <2>. QED
    BY <2>1, LenProperties DEF TypeInv, AnswersOK
<1>2. j \in 1 .. na /\ n \in Nat
  BY <1>1 DEF Writable, Nth
<1>3. CASE j <= n
  BY <1>3 DEF ShownBefore
<1>4. CASE j = n + 1
  <2>1. n < na
    BY <1>2, <1>4
  <2>2. row_ptr = Pointed(answers[j])
    BY <1>1, <1>4, <2>1, PlaceRow
  <2>. QED
    BY <2>2, WritableFits
<1>. QED
  BY <1>2, <1>3, <1>4

(* Where it has acted on a row, with a buffer or without. *)
LEMMA RenderRuns ==
  ASSUME StoreInv, Readable, RenderInv, UNCHANGED vars, file.sections = Sections,
         Render!Run \/ Render!RunDumps
  PROVE  RenderInv'
<1>1. UNCHANGED << answers, v, content, num_rows, Sections >>
  BY FileKept
<1>2. /\ main = "run" /\ main' = (IF option.mode = "all" THEN "next" ELSE "end")
      /\ reader = "open" /\ UNCHANGED << row_ptr, option, i >>
      /\ AtPlace(row_ptr) /\ option \in Render!Options
  BY DEF Render!Run, Render!RunDumps, Render!AfterRun, Render!readerVars, RenderInv
<1>3. row_ptr \in Nat /\ 4 * row_ptr < 2 * Half
  BY <1>2 DEF AtPlace, Nth, Readable
<1>4. PICK shot \in Shots(Sections, row_ptr) : shown' = shown \cup {shot}
  <2>1. CASE Render!Run
    <3>1. shown' = shown \cup {Shot(Sections, row_ptr, Render!NoBuffer)}
      BY <1>3, <2>1, SameShot DEF Render!Run, Render!Shows, Render!Opened
    <3>. QED
      BY <3>1 DEF Shots
  <2>2. CASE Render!RunDumps
    <3>1. shown' = shown \cup {Shot(Sections, row_ptr, Buffered(PiecesAt(Sections, row_ptr)))}
      BY <1>3, <2>2, SameShot, SameBuffered DEF Render!RunDumps, Render!Shows, Render!Opened
    <3>. QED
      BY <3>1 DEF Shots
  <2>. QED
    BY <2>1, <2>2
<1>5. (option \in Render!Options)'
  BY <1>1, <1>2 DEF Render!Options, Render!OffsetsAsked
<1>6. AtPlace(row_ptr)'
  BY <1>1, <1>2 DEF AtPlace, Nth
<1>7. ShownRight'
  <2>1. \A s \in shown' : \E r : AtPlace(r) /\ 4 * r < 2 * Half /\ s \in Shots(Sections, r)
    BY <1>2, <1>3, <1>4 DEF RenderInv, ShownRight
  <2>. QED
    BY <1>1, <2>1 DEF ShownRight, AtPlace, Nth
<1>8. CASE option.mode = "all"
  <2>1. PICK n : Nth(n, row_ptr) /\ ShownBefore(n)
    BY <1>2, <1>8 DEF RenderInv
  <2>2. PICK seen : seen = shown'
    OBVIOUS
  <2>3. \A j \in Writable :
          j <= n + 1 => \E s \in Shots(Sections, Pointed(answers[j])) : s \in seen
    <3>1. shown \subseteq seen /\ \E s \in Shots(Sections, row_ptr) : s \in seen
      BY <1>4, <2>2
    <3>. QED
      BY <2>1, <3>1, ShownUpTo
  <2>4. ShownBefore(n + 1)'
    BY <1>1, <2>2, <2>3 DEF ShownBefore, Writable, TextOf, RenderOf
  <2>5. Nth(n, row_ptr)'
    BY <1>1, <1>2, <2>1 DEF Nth
  <2>. QED
    BY <1>2, <1>5, <1>6, <1>7, <1>8, <2>4, <2>5 DEF RenderInv
<1>9. CASE option.mode # "all"
  <2>1. shown = {} /\ Asked(row_ptr)
    BY <1>2, <1>9 DEF RenderInv
  <2>2. Asked(row_ptr)'
    BY <1>1, <1>2, <2>1 DEF Asked, Nth, R!SeekTo
  <2>3. (\E s \in Shots(Sections, row_ptr) : shown = {s})'
    BY <1>1, <1>2, <1>4, <2>1
  <2>. QED
    BY <1>2, <1>5, <1>6, <1>7, <1>9, <2>2, <2>3 DEF RenderInv
<1>. QED
  BY <1>8, <1>9

(* Where it was killed when it wrote to the buffer. *)
LEMMA RenderDies ==
  ASSUME StoreInv, Readable, RenderInv, UNCHANGED vars, file.sections = Sections, OnCourse',
         Render!RunDumpsAstray
  PROVE  RenderInv'
<1>1. UNCHANGED << answers, v, content, num_rows, Sections >>
  BY FileKept
<1>2. /\ main = "run" /\ UNCHANGED << main, row_ptr, option, i >> /\ reader' = "killed"
      /\ AtPlace(row_ptr) /\ option \in Render!Options
  BY DEF Render!RunDumpsAstray, RenderInv, OnCourse
<1>3. row_ptr \in Nat /\ 4 * row_ptr < 2 * Half
  BY <1>2 DEF AtPlace, Nth, Readable
<1>4. shown' = shown \cup {Shot(Sections, row_ptr, Render!NoBuffer)}
  BY <1>3, SameShot DEF Render!RunDumpsAstray, Render!Shows, Render!Opened
<1>5. (option \in Render!Options)'
  BY <1>1, <1>2 DEF Render!Options, Render!OffsetsAsked
<1>6. AtPlace(row_ptr)'
  BY <1>1, <1>2 DEF AtPlace, Nth
<1>7. ShownRight'
  <2>1. \A s \in shown' : \E r : AtPlace(r) /\ 4 * r < 2 * Half /\ s \in Shots(Sections, r)
    BY <1>2, <1>3, <1>4 DEF RenderInv, ShownRight, Shots
  <2>. QED
    BY <1>1, <2>1 DEF ShownRight, AtPlace, Nth
<1>. QED
  BY <1>2, <1>5, <1>6, <1>7 DEF RenderInv

(* Where it has come to a row of too many pieces. *)
LEMMA RenderOverflows ==
  ASSUME StoreInv, Readable, RenderInv, UNCHANGED vars, file.sections = Sections,
         Render!RunOverflows, OnCourse'
  PROVE  RenderInv'
<1>1. UNCHANGED << answers, v, content, num_rows, Sections >>
  BY FileKept
<1>2. /\ main = "run" /\ UNCHANGED << row_ptr, option, i, shown >>
      /\ \/ UNCHANGED main /\ reader' = "killed"
         \/ main' = (IF option.mode = "all" THEN "next" ELSE "end")
      /\ reader = "open" /\ AtPlace(row_ptr) /\ option \in Render!Options
  BY DEF Render!RunOverflows, Render!AfterRun, Render!R!Overflows, RenderInv, OnCourse
<1>3. ~FitsAt(Sections, row_ptr)
  BY SameIovec DEF Render!RunOverflows, Render!R!Overflows, Render!Opened
<1>4. (option \in Render!Options)'
  BY <1>1, <1>2 DEF Render!Options, Render!OffsetsAsked
<1>5. AtPlace(row_ptr)'
  BY <1>1, <1>2 DEF AtPlace, Nth
<1>6. ShownRight'
  BY <1>1, <1>2 DEF RenderInv, ShownRight, AtPlace, Nth
<1>7. CASE option.mode = "all"
  <2>1. PICK n : Nth(n, row_ptr) /\ ShownBefore(n)
    BY <1>2, <1>7 DEF RenderInv
  <2>2. \A j \in Writable :
          j <= n + 1 => \E s \in Shots(Sections, Pointed(answers[j])) : s \in shown
    BY <1>3, <2>1, ShownUpTo
  <2>3. ShownBefore(n + 1)' /\ ShownBefore(n)'
    BY <1>1, <1>2, <2>1, <2>2 DEF ShownBefore, Writable, TextOf, RenderOf
  <2>4. Nth(n, row_ptr)'
    BY <1>1, <1>2, <2>1 DEF Nth
  <2>. QED
    BY <1>2, <1>4, <1>5, <1>6, <1>7, <2>3, <2>4 DEF RenderInv
<1>8. CASE option.mode # "all"
  <2>1. shown = {} /\ Asked(row_ptr)
    BY <1>2, <1>8 DEF RenderInv
  <2>2. Asked(row_ptr)'
    BY <1>1, <1>2, <2>1 DEF Asked, Nth, R!SeekTo
  <2>3. (shown = {} /\ ~FitsAt(Sections, row_ptr))'
    BY <1>1, <1>2, <1>3, <2>1
  <2>. QED
    BY <1>2, <1>4, <1>5, <1>6, <1>8, <2>2, <2>3 DEF RenderInv
<1>. QED
  BY <1>7, <1>8

(* Where it has gone on to the next row, or come to the end. *)
LEMMA RenderGoesOn ==
  ASSUME StoreInv, Readable, RenderInv, UNCHANGED vars, file.sections = Sections, Render!NextRow
  PROVE  RenderInv'
<1>1. UNCHANGED << answers, v, content, num_rows, Sections >>
  BY FileKept
<1>2. /\ main = "next" /\ UNCHANGED << option, i, shown >>
      /\ option.mode = "all" /\ option \in Render!Options
  BY DEF Render!NextRow, RenderInv
<1>3. PICK n : Nth(n, row_ptr) /\ ShownBefore(n + 1)
  BY <1>2 DEF RenderInv
<1>4. (option \in Render!Options)'
  BY <1>1, <1>2 DEF Render!Options, Render!OffsetsAsked
<1>5. ShownRight'
  BY <1>1, <1>2 DEF RenderInv, ShownRight, AtPlace, Nth
<1>6. ShownBefore(n + 1)'
  BY <1>1, <1>2, <1>3 DEF ShownBefore, Writable, TextOf, RenderOf
<1>7. CASE UNCHANGED << main, row_ptr >>
  <2>1. Nth(n, row_ptr)'
    BY <1>1, <1>3, <1>7 DEF Nth
  <2>2. AtPlace(row_ptr)'
    BY <2>1 DEF AtPlace
  <2>. QED
    BY <1>2, <1>4, <1>5, <1>6, <1>7, <2>1, <2>2 DEF RenderInv
<1>8. CASE Render!R!Next(Render!Opened)
        /\ main' = IF Render!R!NextAnswers(Render!Opened) THEN "run" ELSE "end"
  <2>1. PICK after : after = row_ptr + ToSkip(Sections, row_ptr)
    OBVIOUS
  <2>2. row_ptr' = after /\ main' = (IF after <= Len(v) THEN "run" ELSE "end")
    BY <1>8, <2>1, SameSteps
       DEF Render!R!Next, Render!R!NextAnswers, Render!R!RowAfter, Render!Opened, Sections
  <2>3. Nth(n + 1, after) /\ (n < Len(answers) => after <= Len(v))
    BY <1>3, <2>1, RowFollows
  <2>4. Nth(n + 1, row_ptr)'
    BY <1>1, <2>2, <2>3 DEF Nth
  <2>5. AtPlace(row_ptr)'
    BY <2>4 DEF AtPlace
  <2>6. CASE after <= Len(v)
    BY <1>2, <1>4, <1>5, <1>6, <2>2, <2>4, <2>5, <2>6 DEF RenderInv
  <2>7. CASE ~(after <= Len(v))
    <3>1. PICK na \in Nat : na = Len(answers) /\ DOMAIN answers = 1 .. na
      <4>1. TypeInv
        BY StoreParts
      <4>. QED
        BY <4>1, LenProperties DEF TypeInv, AnswersOK
    <3>2. ~(n < na) /\ n \in Nat
      BY <1>3, <2>3, <2>7, <3>1 DEF Nth
    <3>3. \A j \in DOMAIN answers : j <= n + 1
      BY <3>1, <3>2
    <3>4. ShownBefore(Len(answers))'
      BY <1>1, <1>6, <3>3 DEF ShownBefore, Writable
    <3>. QED
      BY <1>2, <1>4, <1>5, <2>2, <2>5, <2>7, <3>4 DEF RenderInv
  <2>. QED
    BY <2>6, <2>7
<1>. QED
  BY <1>7, <1>8 DEF Render!NextRow, Render!R!NextFaults

(* All of render's steps. *)
LEMMA RenderKeeps ==
  ASSUME ReadersInv, StoreInv', Readable, RenderStep
  PROVE  ReadersInv'
<1>1. /\ program = "render" /\ UNCHANGED << vars, program, kept, sought, wrote >>
      /\ StoreInv /\ Bystanders
  BY DEF RenderStep, perlVars, ReadersInv
<1>2. Bystanders'
  BY <1>1 DEF Bystanders
<1>. SUFFICES ASSUME OnCourse' PROVE CourseInv'
  BY <1>2, ObjectStays DEF ReadersInv
<1>3. OnCourse /\ RenderInv /\ FileThere
  BY <1>1, OnceAstray DEF ReadersInv, CourseInv
<1>4. file.state = "whole"
  <2>1. main = "start" => Render!Start
    BY <1>1 DEF RenderStep, Render!RenderStep, Render!SeekOffset, Render!SkipRow, Render!Skipped,
                Render!Run, Render!RunDumps, Render!RunDumpsAstray, Render!RunOverflows,
                Render!Strays, Render!NextRow
  <2>2. Render!Start => file.state = "whole"
    BY DEF Render!Start, Render!R!OpenNothing, OnCourse
  <2>. QED
    BY <1>3, <2>1, <2>2 DEF FileThere, Started
<1>5. file.sections = Sections
  BY <1>1, <1>4, OpenedIsLeft
<1>6. ~Render!Strays
  BY <1>3 DEF Render!Strays, OnCourse
<1>7. RenderInv'
  BY <1>1, <1>3, <1>5, <1>6, RenderStarts, RenderSeeks, RenderSkips, RenderSkipped, RenderRuns,
     RenderDies, RenderOverflows, RenderGoesOn DEF RenderStep, Render!RenderStep
<1>8. FileThere'
  BY <1>1, <1>4, FileKept DEF FileThere
<1>. QED
  BY <1>1, <1>7, <1>8 DEF CourseInv

-----------------------------------------------------------------------------
(* What a script has kept, sought and written stays right while nothing of *)
(* the file changes.                                                       *)
LEMMA KeptStays ==
  ASSUME UNCHANGED vars
  PROVE  /\ \A k : KeptRight(k) => KeptRight(k)'
         /\ UNCHANGED wrote /\ WroteRight => WroteRight'
         /\ UNCHANGED << sought, row_ptr >> /\ SoughtRight => SoughtRight'
         /\ UNCHANGED row_ptr /\ AtPlace(row_ptr) => AtPlace(row_ptr)'
<1>1. UNCHANGED << answers, v, Sections >>
  BY FileKept
<1>2. \A r : AtPlace(r)' <=> AtPlace(r)
  BY <1>1 DEF AtPlace, Nth
<1>3. \A k : KeptRight(k) => KeptRight(k)'
  BY <1>1, <1>2 DEF KeptRight
<1>4. UNCHANGED wrote /\ WroteRight => WroteRight'
  BY <1>1, <1>2 DEF WroteRight
<1>5. UNCHANGED << sought, row_ptr >> /\ SoughtRight => SoughtRight'
  BY <1>1 DEF SoughtRight
<1>6. UNCHANGED row_ptr /\ AtPlace(row_ptr) => AtPlace(row_ptr)'
  BY <1>1 DEF AtPlace, Nth
<1>. QED
  BY <1>3, <1>4, <1>5, <1>6

(* The number kept stays one that is right. *)
LEMMA KeptOnStays ==
  ASSUME UNCHANGED vars, UNCHANGED kept, KeptRight(kept)
  PROVE  KeptRight(kept)'
<1>1. PICK k : k = kept
  OBVIOUS
<1>2. KeptRight(k)'
  BY <1>1, KeptStays
<1>. QED
  BY <1>1, <1>2 DEF KeptRight

(* Where a script has loaded the file. *)
LEMMA PerlLoads ==
  ASSUME StoreInv, Readable, PerlInv, UNCHANGED vars, OnCourse', Perl!Load
  PROVE  PerlInv'
<1>1. /\ UNCHANGED << kept, sought, wrote >> /\ sought = Perl!Unkept
      /\ KeptRight(kept) /\ WroteRight
  BY DEF Perl!Load, PerlInv
<1>2. KeptRight(kept)' /\ WroteRight' /\ SoughtRight'
  BY <1>1, KeptOnStays, KeptStays DEF SoughtRight
<1>3. reader' = "open" => AtPlace(row_ptr)'
  <2>1. CASE UNCHANGED << reader, row_ptr >>
    BY <2>1, KeptStays DEF PerlInv
  <2>2. CASE Perl!R!Open(Perl!HeaderLeads)
    <3>1. UNCHANGED << answers, v >> /\ row_ptr' = 0
      BY <2>2, FileKept DEF Perl!R!Open
    <3>2. Nth(0, row_ptr)'
      BY <3>1, FirstRow DEF Nth
    <3>. QED
      BY <3>2 DEF AtPlace
  <2>. QED
    BY <2>1, <2>2 DEF Perl!Load, Perl!R!OpenNothing, OnCourse
<1>. QED
  BY <1>1, <1>2, <1>3 DEF PerlInv

(* Where it has gone on to the next row. *)
LEMMA PerlGoesOn ==
  ASSUME StoreInv, Readable, PerlInv, UNCHANGED vars, file.sections = Sections, Perl!NextRow
  PROVE  PerlInv'
<1>1. /\ UNCHANGED << object, kept, wrote >> /\ sought' = Perl!Unkept
      /\ KeptRight(kept) /\ WroteRight /\ AtPlace(row_ptr)
  BY DEF Perl!NextRow, Perl!Live, PerlInv
<1>2. KeptRight(kept)' /\ WroteRight' /\ SoughtRight'
  BY <1>1, KeptOnStays, KeptStays DEF SoughtRight
<1>3. CASE Perl!R!Next(Perl!Opened)
  <2>1. PICK n : Nth(n, row_ptr)
    BY <1>1 DEF AtPlace
  <2>2. row_ptr' = row_ptr + ToSkip(Sections, row_ptr)
    BY <1>3, SameSteps DEF Perl!R!Next, Perl!R!RowAfter, Perl!Opened
  <2>3. Nth(n + 1, row_ptr + ToSkip(Sections, row_ptr))
    BY <2>1, RowFollows
  <2>4. Nth(n + 1, row_ptr)'
    BY <2>2, <2>3, FileKept DEF Nth
  <2>5. AtPlace(row_ptr)'
    BY <2>4 DEF AtPlace
  <2>. QED
    BY <1>1, <1>2, <2>5 DEF PerlInv
<1>4. CASE Perl!R!NextFaults(Perl!Opened)
  BY <1>1, <1>2, <1>4 DEF PerlInv, Perl!R!NextFaults
<1>. QED
  BY <1>3, <1>4 DEF Perl!NextRow

(* Where it has kept a number for later. *)
LEMMA PerlRemembers ==
  ASSUME StoreInv, Readable, PerlInv, UNCHANGED vars, Perl!KeepAnswer \/ Perl!KeepOffset
  PROVE  PerlInv'
<1>1. /\ UNCHANGED << reader, row_ptr, object, sought, wrote >>
      /\ AtPlace(row_ptr) /\ SoughtRight /\ WroteRight
      /\ object = "none" => sought = Perl!Unkept
  BY DEF Perl!KeepAnswer, Perl!KeepOffset, Perl!Live, PerlInv
<1>2. UNCHANGED << answers, v >>
  BY FileKept
<1>3. AtPlace(row_ptr)' /\ SoughtRight' /\ WroteRight'
  BY <1>1, KeptStays
<1>4. CASE Perl!KeepAnswer
  <2>1. KeptRight(kept)'
    BY <1>2, <1>4 DEF Perl!KeepAnswer, KeptRight
  <2>. QED
    BY <1>1, <1>3, <2>1 DEF PerlInv
<1>5. CASE Perl!KeepOffset
  <2>1. row_ptr \in Nat /\ 4 * row_ptr < 2 * Half
    BY <1>1 DEF AtPlace, Nth, Readable
  <2>2. Perl!R!GetOffset = 4 * row_ptr
    <3>1. PICK m \in Nat \ {0} : m = 2 * Half
      BY FormatAssumption
    <3>2. 4 * row_ptr \in Nat /\ 4 * row_ptr < m
      BY <2>1, <3>1
    <3>3. (4 * row_ptr) % m = 4 * row_ptr
      BY <3>1, <3>2, Wraps
    <3>. QED
      BY <3>1, <3>3 DEF Perl!R!GetOffset
  <2>3. kept' = [from |-> "get_offset", row |-> row_ptr, offset |-> 4 * row_ptr]
    BY <1>5, <2>2 DEF Perl!KeepOffset
  <2>4. KeptRight(kept)'
    <3>1. PICK r : r = row_ptr
      OBVIOUS
    <3>2. AtPlace(r)'
      BY <1>1, <1>2, <3>1 DEF AtPlace, Nth
    <3>. QED
      BY <2>1, <2>3, <3>1, <3>2 DEF KeptRight
  <2>. QED
    BY <1>1, <1>3, <2>4 DEF PerlInv
<1>. QED
  BY <1>4, <1>5

(* An int that is made a uint32_t leads to its row, or below zero may lead *)
(* to the first one.                                                       *)
LEMMA AnswerSought ==
  ASSUME StoreInv, NEW j \in DOMAIN answers, NEW u \in Perl!AsUint32(answers[j].offset)
  PROVE  \/ R!SeekTo(u) = Pointed(answers[j])
         \/ R!SeekTo(u) = 0 /\ answers[j].offset < 0
<1>1. PICK x : x = answers[j].offset
  OBVIOUS
<1>2. x \in Int
  <2>1. answers \in Seq([offset : -Half .. Half - 1, row : Rows, overrun : BOOLEAN])
    BY StoreParts DEF TypeInv, AnswersOK
  <2>2. answers[j] \in [offset : -Half .. Half - 1, row : Rows, overrun : BOOLEAN]
    BY <2>1, LenProperties, ElementOfSeq
  <2>3. Half \in Nat
    BY FormatAssumption
  <2>. QED
    BY <1>1, <2>2, <2>3
<1>3. PICK m \in Nat \ {0} : m = 2 * Half
  BY FormatAssumption
<1>4. PICK y : y = x % m
  OBVIOUS
<1>5. y \in Nat /\ y < m /\ y % m = y
  <2>1. \A a \in Int : \A b \in Nat : b # 0 => a % b \in Nat /\ a % b < b
    OBVIOUS
  <2>. QED
    BY <1>2, <1>3, <1>4, <2>1, Wraps
<1>6. 0 % m = 0 /\ 0 \div 4 = 0
  <2>1. 0 < m
    BY <1>3
  <2>. QED
    BY <2>1, Wraps
<1>7. \/ u = x
      \/ x < 0 /\ u \in {0, y}
  BY <1>1, <1>2, <1>3, <1>4 DEF Perl!AsUint32
<1>8. u \in {x, y} => R!SeekTo(u) = Pointed(answers[j])
  BY <1>1, <1>3, <1>4, <1>5 DEF R!SeekTo, Pointed
<1>9. u = 0 => R!SeekTo(u) = 0
  BY <1>3, <1>6 DEF R!SeekTo
<1>. QED
  BY <1>1, <1>7, <1>8, <1>9

(* Where it has sought the number it had kept. *)
LEMMA PerlSeeks ==
  ASSUME StoreInv, Readable, PerlInv, UNCHANGED vars, Perl!Seek
  PROVE  PerlInv'
<1>1. /\ UNCHANGED << reader, object, wrote >> /\ sought' = kept /\ kept' = Perl!Unkept
      /\ object = "live" /\ kept # Perl!Unkept /\ KeptRight(kept) /\ WroteRight
  BY DEF Perl!Seek, Perl!R!Seek, Perl!Live, PerlInv
<1>2. UNCHANGED << answers, v >>
  BY FileKept
<1>3. KeptRight(kept)' /\ WroteRight'
  BY <1>1, KeptStays DEF KeptRight
<1>4. PICK u \in Perl!AsUint32(kept.offset) : row_ptr' = R!SeekTo(u)
  BY DEF Perl!Seek, Perl!R!Seek, Perl!R!SeekTo, R!SeekTo
<1>5. PICK k : k = kept
  OBVIOUS
<1>6. CASE /\ k.from = "add" /\ k.row \in DOMAIN answers
           /\ k.offset = answers[k.row].offset
  <2>1. \/ row_ptr' = Pointed(answers[k.row])
        \/ row_ptr' = 0 /\ answers[k.row].offset < 0
    BY <1>4, <1>5, <1>6, AnswerSought
  <2>2. Nth(k.row - 1, Pointed(answers[k.row])) /\ Nth(0, 0)
    BY <1>6, RowPlace, FirstRow
  <2>3. AtPlace(row_ptr)'
    BY <1>2, <2>1, <2>2 DEF AtPlace, Nth
  <2>4. SoughtRight'
    BY <1>1, <1>2, <1>5, <1>6, <2>1 DEF SoughtRight, Pointed
  <2>. QED
    BY <1>1, <1>3, <2>3, <2>4 DEF PerlInv
<1>7. CASE /\ k.from = "get_offset" /\ AtPlace(k.row) /\ 4 * k.row < 2 * Half
           /\ k.offset = 4 * k.row
  <2>1. k.row \in Nat
    BY <1>7 DEF AtPlace, Nth
  <2>2. Perl!AsUint32(4 * k.row) = {4 * k.row}
    BY <2>1 DEF Perl!AsUint32
  <2>3. row_ptr' = k.row
    BY <1>4, <1>5, <1>7, <2>1, <2>2, OffsetLeads
  <2>4. AtPlace(row_ptr)'
    BY <1>2, <1>7, <2>3 DEF AtPlace, Nth
  <2>5. SoughtRight'
    BY <1>1, <1>5, <1>7, <2>3 DEF SoughtRight
  <2>. QED
    BY <1>1, <1>3, <2>4, <2>5 DEF PerlInv
<1>. QED
  BY <1>1, <1>5, <1>6, <1>7 DEF KeptRight

(* Where it has written the row. *)
LEMMA PerlWrites ==
  ASSUME StoreInv, Readable, PerlInv, UNCHANGED vars, file.sections = Sections, Perl!Write
  PROVE  PerlInv'
<1>1. /\ UNCHANGED << reader, row_ptr, object, kept, sought >>
      /\ AtPlace(row_ptr) /\ SoughtRight /\ KeptRight(kept)
      /\ object = "none" => sought = Perl!Unkept
  BY DEF Perl!Write, Perl!Live, PerlInv
<1>2. UNCHANGED << answers, v, Sections >>
  BY FileKept
<1>3. AtPlace(row_ptr)' /\ SoughtRight' /\ KeptRight(kept)'
  BY <1>1, KeptStays, KeptOnStays
<1>4. PICK r : r = row_ptr /\ 4 * r < 2 * Half
  BY <1>1 DEF AtPlace, Nth, Readable
<1>5. wrote' = [at |-> r, row |-> IovecAt(Sections, r)]
  BY <1>4, SameIovec DEF Perl!Write, Perl!Opened
<1>6. AtPlace(r)'
  BY <1>1, <1>2, <1>4 DEF AtPlace, Nth
<1>7. WroteRight'
  BY <1>2, <1>4, <1>5, <1>6 DEF WroteRight
<1>. QED
  BY <1>1, <1>3, <1>7 DEF PerlInv

(* Where it has come to its end, one way or the other. *)
LEMMA PerlEnds ==
  ASSUME StoreInv, Readable, PerlInv, UNCHANGED vars,
         Perl!NullKills \/ Perl!WriteOverflows \/ Perl!Destroy
  PROVE  PerlInv'
<1>1. /\ UNCHANGED << row_ptr, kept, sought, wrote >> /\ reader' # "open"
      /\ object' = "none" => object = "none"
      /\ SoughtRight /\ KeptRight(kept) /\ WroteRight
      /\ object = "none" => sought = Perl!Unkept
  BY DEF Perl!NullKills, Perl!WriteOverflows, Perl!Destroy, PerlInv
<1>2. SoughtRight' /\ KeptRight(kept)' /\ WroteRight'
  BY <1>1, KeptStays, KeptOnStays
<1>. QED
  BY <1>1, <1>2 DEF PerlInv

(* All of a script's steps. *)
LEMMA PerlKeeps ==
  ASSUME ReadersInv, StoreInv', Readable, PerlStep
  PROVE  ReadersInv'
<1>1. /\ program = "perl" /\ UNCHANGED << vars, program, main, option, i, shown >>
      /\ StoreInv /\ Bystanders
  BY DEF PerlStep, renderVars, ReadersInv
<1>6. Bystanders'
  BY <1>1 DEF Bystanders
<1>. SUFFICES ASSUME OnCourse' PROVE CourseInv'
  BY <1>6, ObjectStays DEF ReadersInv
<1>0. OnCourse /\ PerlInv /\ FileThere
  BY <1>1, OnceAstray DEF ReadersInv, CourseInv
<1>2. UNCHANGED file
  BY <1>1, FileKept
<1>3. reader = "open" => file.state = "whole" /\ file.sections = Sections
  BY <1>0, <1>1, OpenedIsLeft DEF FileThere, Started
<1>7. ~Perl!Strays
  BY <1>0 DEF Perl!Strays, OnCourse
<1>4. PerlInv'
  <2>1. CASE Perl!Load
    BY <1>0, <1>1, <2>1, PerlLoads
  <2>2. CASE Perl!NextRow
    BY <1>0, <1>1, <1>3, <2>2, PerlGoesOn DEF Perl!NextRow, Perl!Live
  <2>3. CASE Perl!KeepAnswer \/ Perl!KeepOffset
    BY <1>0, <1>1, <2>3, PerlRemembers
  <2>4. CASE Perl!Seek
    BY <1>0, <1>1, <2>4, PerlSeeks
  <2>5. CASE Perl!Write
    BY <1>0, <1>1, <1>3, <2>5, PerlWrites DEF Perl!Write, Perl!Live
  <2>6. CASE Perl!NullKills \/ Perl!WriteOverflows \/ Perl!Destroy
    BY <1>0, <1>1, <2>6, PerlEnds
  <2>. QED
    BY <1>7, <2>1, <2>2, <2>3, <2>4, <2>5, <2>6 DEF PerlStep, Perl!PerlStep
<1>5. FileThere'
  <2>1. CASE Started
    BY <1>0, <1>1, <1>2, <2>1 DEF FileThere
  <2>2. CASE Perl!Load
    <3>1. file.state = "whole" \/ UNCHANGED << reader, main, shown, kept, sought, wrote >>
      BY <1>1, <2>2 DEF Perl!Load, Perl!R!OpenNothing, OnCourse
    <3>. QED
      BY <1>0, <1>1, <1>2, <3>1 DEF FileThere, Started
  <2>3. CASE Perl!NullKills
    BY <1>0, <1>1, <1>2, <2>3 DEF FileThere, Started, Perl!NullKills
  <2>4. ~Started => Perl!Load \/ Perl!NullKills
    BY <1>7 DEF Started, PerlStep, Perl!PerlStep, Perl!NextRow, Perl!KeepAnswer, Perl!KeepOffset,
           Perl!Seek, Perl!Write, Perl!WriteOverflows, Perl!Destroy, Perl!Live
  <2>. QED
    BY <2>1, <2>2, <2>3, <2>4
<1>. QED
  BY <1>1, <1>4, <1>5 DEF CourseInv

(* Stat keeps nothing of what the others show. *)
LEMMA StatKeeps ==
  ASSUME ReadersInv, StoreInv', StatStep
  PROVE  ReadersInv'
<1>1. /\ program = "stat" /\ UNCHANGED << vars, program, option, i, shown, kept, sought, wrote >>
      /\ StoreInv /\ Bystanders
  BY DEF StatStep, renderVars, perlVars, ReadersInv
<1>2. Bystanders'
  BY <1>1 DEF Bystanders
<1>. SUFFICES ASSUME OnCourse' PROVE CourseInv'
  BY <1>2, ObjectStays DEF ReadersInv
<1>3. FileThere
  BY OnceAstray DEF ReadersInv, CourseInv
<1>4. file.state = "whole"
  <2>1. main = "start" => Stat!Start
    BY DEF StatStep, Stat!StatStep, Stat!StartsAstray, Stat!R!OpenNothing, OnCourse, Stat!Turn,
           Stat!TurnFaults, Stat!Advance
  <2>. QED
    BY <1>3, <2>1 DEF Stat!Start, FileThere, Started
<1>5. FileThere'
  BY <1>1, <1>4, FileKept DEF FileThere
<1>. QED
  BY <1>1, <1>5 DEF CourseInv

(* Every step among readable files keeps all of it. *)
ReadersNext == MakerStep \/ RenderStep \/ StatStep \/ PerlStep
LEMMA ReadersInvStep ==
  ReadersInv /\ Readable /\ Readable' /\ [ReadersNext]_allVars => ReadersInv'
<1> SUFFICES ASSUME ReadersInv, Readable, Readable', [ReadersNext]_allVars PROVE ReadersInv'
  OBVIOUS
<1>1. [Next]_vars
  BY DEF ReadersNext, MakerStep, RenderStep, StatStep, PerlStep, allVars
<1>2. StoreInv'
  BY <1>1, StoreInvStep DEF ReadersInv, Readable
<1>. QED
  BY <1>2, MakerKeepsReaders, RenderKeeps, StatKeeps, PerlKeeps DEF ReadersNext

(* So that it holds as long as the file can be read. *)
LEMMA ReadersInvHolds == ReadersSpec /\ []Readable => []ReadersInv
  BY ReadersInvInit, ReadersInvStep, PTL DEF ReadersSpec, ReadersNext

-----------------------------------------------------------------------------
(* What render shows is a row that was added, in its rendering, or nothing *)
(* behind the last row: run prints what frf_write makes of the row pointer *)
(* after whatever frf_seek and frf_next came before.  This and what follows*)
(* is about files whose header leads to their sections; with one that does *)
(* not, a reader is astray (OnCourse).                                     *)
THEOREM ShownIsAddedHolds == ReadersSpec /\ []Readable => []ShownIsAdded
<1>1. ReadersInv /\ Readable => ShownIsAdded
  <2> SUFFICES ASSUME ReadersInv, Readable, OnCourse, NEW s \in shown
               PROVE  IsRowAt(s.row, s.at)
    BY DEF ShownIsAdded
  <2>1. program = "render" /\ StoreInv /\ ShownRight
    BY DEF ReadersInv, CourseInv, Bystanders, RenderInv
  <2>2. PICK r : AtPlace(r) /\ s \in Shots(Sections, r)
    BY <2>1 DEF ShownRight
  <2>3. s.row = IovecAt(Sections, r) /\ s.at = 4 * r
    BY <2>2 DEF Shots, Shot
  <2>. QED
    BY <2>1, <2>2, <2>3, PlaceShows
<1>. QED
  BY <1>1, ReadersInvHolds, PTL

(* What render was asked for it has shown when it is done: the row at the  *)
(* offset add returned, the row of a number, or every row there is, unless *)
(* it has more pieces than the array.                                      *)
THEOREM AskedIsShownHolds == ReadersSpec /\ []Readable => []AskedIsShown
<1>1. ReadersInv /\ Readable => AskedIsShown
  <2> DEFINE isRow(j, s) == s.at = PlaceOf(j) /\ s.row = [end |-> FALSE, text |-> TextOf(j)]
             sought_it(j) == \/ option.mode = "seek_offset" /\ option.arg = answers[j].offset
                             \/ option.mode = "seek_row" /\ option.arg = j - 1
  <2> SUFFICES ASSUME ReadersInv, Readable, OnCourse, main = "end", NEW j \in Writable
               PROVE  /\ sought_it(j) => shown # {} /\ \A s \in shown : isRow(j, s)
                      /\ option.mode = "all" => \E s \in shown : isRow(j, s)
    BY DEF AskedIsShown
  <2>1. j \in DOMAIN answers /\ StoreInv
    BY DEF Writable, ReadersInv
  <2>2. PICK r : r = Pointed(answers[j])
    OBVIOUS
  <2>3. \A s \in Shots(Sections, r) : isRow(j, s)
    <3>1. /\ PlaceOf(j) = 4 * r
          /\ IovecAt(Sections, r) = [end |-> FALSE, text |-> TextOf(j)]
      BY <2>1, <2>2, RowIsThere
    <3>2. ASSUME NEW s \in Shots(Sections, r)
          PROVE  s.at = 4 * r /\ s.row = IovecAt(Sections, r)
      BY DEF Shots, Shot
    <3>. QED
      BY <3>1, <3>2
  <2>4. FitsAt(Sections, r)
    BY <2>1, <2>2, WritableFits
  <2>5. option.mode \in {"all", "seek_offset", "seek_row"} => RenderInv
    BY DEF ReadersInv, CourseInv, Bystanders, Render!Unasked
  <2>6. ASSUME option.mode = "all" PROVE \E s \in Shots(Sections, r) : s \in shown
    <3>1. ShownBefore(Len(answers))
      BY <2>5, <2>6 DEF RenderInv
    <3>2. j <= Len(answers)
      <4>1. TypeInv
        BY <2>1, StoreParts
      <4>. QED
        BY <2>1, <4>1, LenProperties DEF TypeInv, AnswersOK
    <3>. QED
      BY <2>2, <3>1, <3>2 DEF ShownBefore
  <2>7. ASSUME sought_it(j) PROVE \E s \in Shots(Sections, r) : shown = {s}
    <3>1. /\ Asked(row_ptr)
          /\ \/ \E s \in Shots(Sections, row_ptr) : shown = {s}
             \/ shown = {} /\ ~FitsAt(Sections, row_ptr)
      BY <2>5, <2>7 DEF RenderInv
    <3>2. row_ptr = r
      <4>1. CASE option.mode = "seek_offset" /\ option.arg = answers[j].offset
        BY <2>2, <3>1, <4>1, AnswerLeads DEF Asked
      <4>2. CASE option.mode = "seek_row" /\ option.arg = j - 1
        <5>1. Nth(j - 1, row_ptr) /\ Nth(j - 1, r)
          BY <2>1, <2>2, <3>1, <4>2, RowPlace DEF Asked
        <5>2. PICK na \in Nat : na = Len(answers) /\ DOMAIN answers = 1 .. na
          <6>1. TypeInv
            BY <2>1, StoreParts
          <6>. QED
            BY <6>1, LenProperties DEF TypeInv, AnswersOK
        <5>3. j - 1 < Len(answers)
          BY <2>1, <5>2
        <5>. QED
          BY <5>1, <5>3 DEF Nth
      <4>. QED
        BY <2>7, <4>1, <4>2
    <3>. QED
      BY <2>4, <3>1, <3>2
  <2>. QED
    BY <2>3, <2>6, <2>7
<1>. QED
  BY <1>1, ReadersInvHolds, PTL

(* What a script writes is the row the reader stands at, as it renders, or *)
(* nothing behind the last one, in whatever order it calls next, seek and  *)
(* write, whatever numbers it kept.                                        *)
THEOREM WritesTheRowHolds == ReadersSpec /\ []Readable => []WritesTheRow
<1>1. ReadersInv /\ Readable => WritesTheRow
  <2> SUFFICES ASSUME ReadersInv, Readable, OnCourse, wrote # Perl!Unwritten
               PROVE  IsRowAt(wrote.row, 4 * wrote.at)
    BY DEF WritesTheRow
  <2>1. StoreInv /\ WroteRight
    BY DEF ReadersInv, CourseInv, Bystanders, PerlInv
  <2>2. PICK r : AtPlace(r) /\ wrote = [at |-> r, row |-> IovecAt(Sections, r)]
    BY <2>1 DEF WroteRight
  <2>. QED
    BY <2>1, <2>2, PlaceShows
<1>. QED
  BY <1>1, ReadersInvHolds, PTL

(* A script's seek leads back to where the number it kept was taken, or to *)
(* the row add returned it for: through a double and the int of add.       *)
THEOREM SeeksTheRowHolds == ReadersSpec /\ []Readable => []SeeksTheRow
<1>1. ReadersInv /\ Readable => SeeksTheRow
  <2> SUFFICES ASSUME ReadersInv, Readable, reader = "open" PROVE SeeksTheRow
    BY DEF SeeksTheRow
  <2>1. StoreInv /\ SoughtRight
    BY DEF ReadersInv, OnCourse, CourseInv, Bystanders, PerlInv, SoughtRight
  <2>2. CASE sought.from = "get_offset"
    BY <2>1, <2>2 DEF SeeksTheRow, SoughtRight, Perl!Unkept
  <2>3. CASE sought.from = "add"
    <3>1. PICK j \in DOMAIN answers : j = sought.row
      BY <2>1, <2>3 DEF SoughtRight, Perl!Unkept
    <3>2. \/ row_ptr = Pointed(answers[j])
          \/ row_ptr = 0 /\ answers[j].offset < 0
      BY <2>1, <2>3, <3>1 DEF SoughtRight, Perl!Unkept
    <3>3. PlaceOf(j) = 4 * Pointed(answers[j])
      BY <2>1, RowIsThere
    <3>. QED
      BY <2>3, <3>1, <3>2, <3>3 DEF SeeksTheRow
  <2>4. CASE sought.from \notin {"get_offset", "add"}
    BY <2>4 DEF SeeksTheRow
  <2>. QED
    BY <2>2, <2>3, <2>4
<1>. QED
  BY <1>1, ReadersInvHolds, PTL

-----------------------------------------------------------------------------
(* The bytes of a piece. *)
LengthOf(s) == IF s \in Strings THEN LenOf[s] ELSE 0
LEMMA LengthIsNat == \A s : LengthOf(s) \in Nat
  BY FormatAssumption DEF LengthOf

(* The bytes of the first pieces, for any number of them. *)
SizedUpTo(f, pieces, n) ==
  f = [k \in 0 .. n |-> IF k = 0 THEN 0 ELSE f[k - 1] + LengthOf(pieces[k])]

(* There are such sums. *)
LEMMA SizesExist ==
  ASSUME NEW pieces
  PROVE  \A n \in Nat : \E f : SizedUpTo(f, pieces, n)
<1> DEFINE S == {n \in Nat : \E f : SizedUpTo(f, pieces, n)}
<1>1. 0 \in S
  <2>1. SizedUpTo([k \in 0 .. 0 |-> 0], pieces, 0)
    BY DEF SizedUpTo
  <2>. QED
    BY <2>1
<1>2. ASSUME NEW n \in S \cap Nat PROVE n + 1 \in S
  <2>1. PICK f : SizedUpTo(f, pieces, n)
    OBVIOUS
  <2>2. \A k \in 0 .. n : f[k] = IF k = 0 THEN 0 ELSE f[k - 1] + LengthOf(pieces[k])
    BY <2>1 DEF SizedUpTo
  <2>3. PICK last : last = f[n] + LengthOf(pieces[n + 1])
    OBVIOUS
  <2>4. PICK g : g = [k \in 0 .. n + 1 |-> IF k = n + 1 THEN last ELSE f[k]]
    OBVIOUS
  <2>5. g[n + 1] = last /\ \A k \in 0 .. n : g[k] = f[k]
    BY <2>4
  <2>6. ASSUME NEW k \in 0 .. n + 1
        PROVE  g[k] = IF k = 0 THEN 0 ELSE g[k - 1] + LengthOf(pieces[k])
    <3>1. CASE k = n + 1
      <4>1. k # 0 /\ k - 1 = n /\ n \in 0 .. n
        BY <3>1
      <4>2. g[k] = last /\ g[k - 1] = f[n]
        BY <2>5, <3>1, <4>1
      <4>. QED
        BY <2>3, <3>1, <4>1, <4>2
    <3>2. CASE k # n + 1
      <4>1. k \in 0 .. n /\ (k # 0 => k - 1 \in 0 .. n)
        BY <3>2
      <4>. QED
        BY <2>2, <2>5, <4>1
    <3>. QED
      BY <3>1, <3>2
  <2>7. SizedUpTo(g, pieces, n + 1)
    BY <2>4, <2>6 DEF SizedUpTo
  <2>. QED
    BY <2>7
<1> HIDE DEF S
<1>3. Nat \subseteq S
  BY <1>1, <1>2, AllNumbers
<1>. QED
  BY <1>3 DEF S

(* They are what the library adds up, from nothing, never down. *)
LEMMA SizesAre ==
  ASSUME NEW pieces, Len(pieces) \in Nat
  PROVE  /\ DOMAIN R!SizesUpTo(pieces) = 0 .. Len(pieces)
         /\ R!SizesUpTo(pieces)[0] = 0
         /\ \A k \in 1 .. Len(pieces) :
              R!SizesUpTo(pieces)[k] = R!SizesUpTo(pieces)[k - 1] + LengthOf(pieces[k])
         /\ \A k \in 0 .. Len(pieces) : R!SizesUpTo(pieces)[k] \in Nat
<1>1. PICK n \in Nat : n = Len(pieces)
  OBVIOUS
<1>2. R!SizesUpTo(pieces) = CHOOSE f : SizedUpTo(f, pieces, n)
  BY <1>1 DEF R!SizesUpTo, SizedUpTo, LengthOf
<1>3. SizedUpTo(R!SizesUpTo(pieces), pieces, n)
  BY <1>2, SizesExist
<1>4. PICK f : f = R!SizesUpTo(pieces)
  OBVIOUS
<1>5. f = [k \in 0 .. n |-> IF k = 0 THEN 0 ELSE f[k - 1] + LengthOf(pieces[k])]
  BY <1>3, <1>4 DEF SizedUpTo
<1>6. /\ DOMAIN f = 0 .. n /\ f[0] = 0
      /\ \A k \in 1 .. n : f[k] = f[k - 1] + LengthOf(pieces[k])
  BY <1>5
<1> DEFINE S == {k \in Nat : k <= n => f[k] \in Nat}
<1>7. 0 \in S
  BY <1>6
<1>8. ASSUME NEW k \in S \cap Nat PROVE k + 1 \in S
  <2>1. CASE k + 1 <= n
    <3>1. k + 1 \in 1 .. n /\ k + 1 - 1 = k /\ k <= n
      BY <2>1
    <3>2. f[k + 1] = f[k] + LengthOf(pieces[k + 1])
      BY <1>6, <3>1
    <3>3. f[k] \in Nat
      BY <3>1
    <3>. QED
      BY <3>2, <3>3, LengthIsNat
  <2>2. CASE ~(k + 1 <= n)
    BY <2>2
  <2>. QED
    BY <2>1, <2>2
<1> HIDE DEF S
<1>9. Nat \subseteq S
  BY <1>7, <1>8, AllNumbers
<1>10. \A k \in 0 .. n : f[k] \in Nat
  BY <1>9 DEF S
<1>. QED
  BY <1>1, <1>4, <1>6, <1>10

(* Of the first pieces they are the first sums. *)
LEMMA SizeOfFirst ==
  ASSUME NEW S, NEW pieces \in Seq(S), NEW m \in 0 .. Len(pieces)
  PROVE  R!SizeOf(SubSeq(pieces, 1, m)) = R!SizesUpTo(pieces)[m]
<1>1. PICK n \in Nat : n = Len(pieces)
  BY LenProperties
<1>2. m \in Nat /\ m <= n
  BY <1>1
<1>3. PICK q : q = SubSeq(pieces, 1, m)
  OBVIOUS
<1>4. Len(q) = m /\ \A k \in 1 .. m : q[k] = pieces[k]
  BY <1>1, <1>2, <1>3, SubSeqProperties
<1>5. PICK f : f = R!SizesUpTo(pieces)
  OBVIOUS
<1>6. PICK g : g = R!SizesUpTo(q)
  OBVIOUS
<1>7. f[0] = 0 /\ \A k \in 1 .. n : f[k] = f[k - 1] + LengthOf(pieces[k])
  BY <1>1, <1>5, SizesAre
<1>8. g[0] = 0 /\ \A k \in 1 .. m : g[k] = g[k - 1] + LengthOf(q[k])
  BY <1>2, <1>4, <1>6, SizesAre
<1> DEFINE T == {k \in Nat : k <= m => g[k] = f[k]}
<1>9. 0 \in T
  BY <1>7, <1>8
<1>10. ASSUME NEW k \in T \cap Nat PROVE k + 1 \in T
  <2>1. CASE k + 1 <= m
    <3>1. k + 1 \in 1 .. m /\ k + 1 \in 1 .. n /\ k + 1 - 1 = k /\ k <= m
      BY <1>2, <2>1
    <3>2. g[k] = f[k] /\ q[k + 1] = pieces[k + 1]
      BY <1>4, <3>1
    <3>. QED
      BY <1>7, <1>8, <3>1, <3>2
  <2>2. CASE ~(k + 1 <= m)
    BY <2>2
  <2>. QED
    BY <2>1, <2>2
<1> HIDE DEF T
<1>11. Nat \subseteq T
  BY <1>9, <1>10, AllNumbers
<1>12. g[m] = f[m]
  BY <1>2, <1>11 DEF T
<1>. QED
  BY <1>3, <1>4, <1>5, <1>6, <1>12 DEF R!SizeOf

(* As many pieces go to the buffer as fit it one after the other. *)
LEMMA CopiedFit ==
  ASSUME NEW pieces, Len(pieces) \in Nat
  PROVE  LET f == R!SizesUpTo(pieces)
             m == R!Copied(f, BufSize)
         IN  /\ m \in 0 .. Len(pieces) /\ f[m] <= BufSize
             /\ m # Len(pieces) => f[Len(pieces)] > BufSize
<1>1. PICK n \in Nat : n = Len(pieces)
  OBVIOUS
<1>2. PICK f : f = R!SizesUpTo(pieces)
  OBVIOUS
<1>3. /\ DOMAIN f = 0 .. n /\ f[0] = 0
      /\ \A k \in 1 .. n : f[k] = f[k - 1] + LengthOf(pieces[k])
      /\ \A k \in 0 .. n : f[k] \in Nat
  BY <1>1, <1>2, SizesAre
<1>4. PICK b \in Nat : b = BufSize
  BY ReadersAssumption
<1>5. PICK copied : copied = {k \in 0 .. n : f[k] <= b}
  OBVIOUS
<1>6. R!Copied(f, BufSize) = Cardinality(copied) - 1
  BY <1>3, <1>4, <1>5
     DEF R!Copied, R!Cardinality, R!IsFiniteSet, Cardinality, IsFiniteSet
<1>7. CASE \A k \in 1 .. n : f[k] <= b
  <2>1. copied = 0 .. n
    BY <1>3, <1>5, <1>7
  <2>2. Cardinality(0 .. n) = n + 1
    BY FS_Interval
  <2>3. R!Copied(f, BufSize) = n
    BY <1>6, <2>1, <2>2
  <2>4. n \in 0 .. n /\ f[n] <= b
    BY <1>3, <1>7
  <2>. QED
    BY <1>1, <1>2, <1>4, <2>3, <2>4
<1>8. CASE \E k \in 1 .. n : ~(f[k] <= b)
  <2> DEFINE T == {k \in Nat : k \in 1 .. n /\ ~(f[k] <= b)}
  <2>1. PICK x \in T : \A y \in T : x <= y
    <3>1. T # {} /\ T \subseteq Nat
      BY <1>8
    <3> HIDE DEF T
    <3>. QED
      BY <3>1, LeastNumber
  <2>2. x \in 1 .. n /\ f[x] > b
    BY <1>3, <2>1
  <2>3. \A k \in 0 .. x - 1 : f[k] <= b
    <3>1. ASSUME NEW k \in 0 .. x - 1, ~(f[k] <= b) PROVE FALSE
      <4>1. k # 0
        BY <1>3, <3>1
      <4>2. k \in T
        BY <2>2, <3>1, <4>1
      <4>. QED
        BY <2>1, <2>2, <4>2
    <3>. QED
      BY <3>1
  <2> DEFINE U == {d \in Nat : x + d <= n => f[x + d] > b}
  <2>4. 0 \in U
    BY <2>2
  <2>5. ASSUME NEW d \in U \cap Nat PROVE d + 1 \in U
    <3>1. CASE x + (d + 1) <= n
      <4>1. /\ x + (d + 1) \in 1 .. n /\ x + (d + 1) - 1 = x + d
            /\ x + d <= n /\ x + d \in 0 .. n
        BY <2>2, <3>1
      <4>2. f[x + (d + 1)] = f[x + d] + LengthOf(pieces[x + (d + 1)])
        BY <1>3, <4>1
      <4>3. f[x + d] > b /\ f[x + d] \in Nat
        BY <1>3, <4>1
      <4>. QED
        BY <4>2, <4>3, LengthIsNat
    <3>2. CASE ~(x + (d + 1) <= n)
      BY <3>2
    <3>. QED
      BY <3>1, <3>2
  <2> HIDE DEF U
  <2>6. Nat \subseteq U
    BY <2>4, <2>5, AllNumbers
  <2>7. ASSUME NEW k \in x .. n PROVE f[k] > b
    <3>1. k - x \in Nat /\ x + (k - x) = k /\ k <= n
      BY <2>2
    <3>. QED
      BY <2>6, <3>1 DEF U
  <2>8. copied = 0 .. x - 1
    <3>1. ASSUME NEW k \in 0 .. n PROVE f[k] <= b <=> k \in 0 .. x - 1
      <4>1. k \in x .. n \/ k \in 0 .. x - 1
        BY <2>2
      <4>2. k \in x .. n => ~(f[k] <= b) /\ k \notin 0 .. x - 1
        BY <1>3, <2>2, <2>7
      <4>. QED
        BY <2>3, <4>1, <4>2
    <3>2. 0 .. x - 1 \subseteq 0 .. n
      BY <2>2
    <3>. QED
      BY <1>5, <3>1, <3>2
  <2>9. Cardinality(0 .. x - 1) = x
    BY <2>2, FS_Interval
  <2>10. R!Copied(f, BufSize) = x - 1
    BY <1>6, <2>8, <2>9
  <2>11. x - 1 \in 0 .. n /\ x - 1 \in 0 .. x - 1 /\ n \in x .. n
    BY <2>2
  <2>12. f[x - 1] <= b /\ f[n] > b
    BY <2>3, <2>7, <2>11
  <2>. QED
    BY <1>1, <1>2, <1>4, <2>10, <2>11, <2>12
<1>. QED
  BY <1>7, <1>8

(* What render makes of a buffer: the row whole, when that fits. *)
LEMMA BufferedIs ==
  ASSUME NEW S, NEW pieces \in Seq(S)
  PROVE  LET size == R!SizeOf(pieces) IN
         IF size <= BufSize
           THEN Buffered(pieces) = [answer |-> size, text |-> pieces]
           ELSE /\ Buffered(pieces).answer = -1
                /\ R!SizeOf(Buffered(pieces).text) <= BufSize
<1>1. PICK n \in Nat : n = Len(pieces)
  BY LenProperties
<1>2. PICK f : f = R!SizesUpTo(pieces)
  OBVIOUS
<1>3. PICK m : m = R!Copied(f, BufSize)
  OBVIOUS
<1>4. m \in 0 .. n /\ f[m] <= BufSize /\ (m # n => f[n] > BufSize)
  BY <1>1, <1>2, <1>3, CopiedFit
<1>5. R!SizeOf(pieces) = f[n] /\ f[n] \in Nat
  <2>1. n \in 0 .. n
    OBVIOUS
  <2>. QED
    BY <1>1, <1>2, <2>1, SizesAre DEF R!SizeOf
<1>6. Buffered(pieces) =
        [answer |-> IF m = n THEN f[n] ELSE -1, text |-> SubSeq(pieces, 1, m)]
  BY <1>1, <1>2, <1>3, <1>5 DEF Buffered
<1>7. R!SizeOf(SubSeq(pieces, 1, m)) = f[m]
  BY <1>1, <1>2, <1>4, SizeOfFirst
<1>8. BufSize \in Nat
  BY ReadersAssumption
<1>9. CASE m = n
  <2>1. SubSeq(pieces, 1, n) = pieces
    BY <1>1, SubSeqProperties
  <2>. QED
    BY <1>4, <1>5, <1>6, <1>9, <2>1
<1>10. CASE m # n
  <2>1. ~(f[n] <= BufSize)
    BY <1>4, <1>5, <1>8, <1>10
  <2>. QED
    BY <1>4, <1>5, <1>6, <1>7, <1>10, <2>1
<1>. QED
  BY <1>9, <1>10

(* Where the buffer of run can be written, what frf_render_to_buffer leaves*)
(* there is the row whole exactly when it fits, with an answer that says   *)
(* so; frf_get_render_size is the size of what the row renders to, however *)
(* the rendering went.                                                     *)
THEOREM BufferHoldsRowHolds == ReadersSpec /\ []Readable => []BufferHoldsRow
<1>1. ReadersInv /\ Readable => BufferHoldsRow
  <2> SUFFICES ASSUME ReadersInv, Readable, OnCourse, NEW s \in shown, NEW j \in DOMAIN answers,
                      PlaceOf(j) = s.at
               PROVE  LET size == R!SizeOf(TextOf(j)) IN
                      /\ s.size = size
                      /\ s.buffered = Render!NoBuffer \/
                         IF size <= BufSize
                           THEN s.buffered = [answer |-> size, text |-> TextOf(j)]
                           ELSE s.buffered.answer = -1 /\ R!SizeOf(s.buffered.text) <= BufSize
    BY DEF BufferHoldsRow
  <2>1. program = "render" /\ StoreInv /\ ShownRight
    BY DEF ReadersInv, CourseInv, Bystanders, RenderInv
  <2>2. PICK r : AtPlace(r) /\ s \in Shots(Sections, r)
    BY <2>1 DEF ShownRight
  <2>3. /\ s.at = 4 * r /\ r \in Nat
        /\ s.size = R!SizeOf(PiecesAt(Sections, r))
        /\ s.buffered \in {Buffered(PiecesAt(Sections, r)), Render!NoBuffer}
    BY <2>2 DEF Shots, Shot, AtPlace, Nth
  <2>4. r = Pointed(answers[j])
    <3>1. PICK p \in Nat : p = Pointed(answers[j])
      BY <2>1, RowIsThere
    <3>2. 4 * r = 4 * p
      BY <2>1, <2>3, <3>1, RowIsThere
    <3>. QED
      BY <2>3, <3>1, <3>2
  <2>5. /\ IovecAt(Sections, r) = [end |-> FALSE, text |-> TextOf(j)]
        /\ UcCount(Sections, r) = Len(TextOf(j))
    BY <2>1, <2>4, RowIsThere
  <2>6. ~AtEnd(Sections, r) /\ RowText(Sections, r) = TextOf(j)
    BY <2>5 DEF IovecAt, R!NoRow
  <2>7. PiecesAt(Sections, r) = TextOf(j)
    BY <2>6 DEF PiecesAt
  <2>8. UcCount(Sections, r) \in Nat
    <3>1. uc \in Seq(Nat) /\ DOMAIN uc = 1 .. Len(uc)
      <4>1. TypeInv
        BY <2>1, StoreParts
      <4>. QED
        BY <4>1, LenProperties DEF TypeInv, SectionsOK
    <3>2. \A k : WordAt(uc, k) \in Nat
      BY <3>1, ElementOfSeq DEF WordAt
    <3>. QED
      BY <3>2 DEF UcCount, Sections
  <2>9. \E S : TextOf(j) \in Seq(S)
    <3>1. PICK c \in Nat : c = UcCount(Sections, r)
      BY <2>8
    <3>2. TextOf(j) = [k \in 1 .. c |-> RowText(Sections, r)[k]]
      BY <2>6, <3>1 DEF RowText
    <3>3. TextOf(j) \in Seq({RowText(Sections, r)[k] : k \in 1 .. c})
      BY <3>2
    <3>. QED
      BY <3>3
  <2>10. PICK S : TextOf(j) \in Seq(S)
    BY <2>9
  <2>. QED
    BY <2>3, <2>7, <2>10, BufferedIs
<1>. QED
  BY <1>1, ReadersInvHolds, PTL

-----------------------------------------------------------------------------
(* Every record was made for a row, the first one at zero. *)
RecordsMet ==
  /\ \A k \in DOMAIN uniq_cells_lookup : \E j \in DOMAIN answers :
       /\ Pointed(answers[j]) + 1 \in 1 .. Len(v)
       /\ v[Pointed(answers[j]) + 1] = uniq_cells_lookup[k]
  /\ IF DOMAIN uniq_cells_lookup = {} THEN unique_cells_written = 0
     ELSE \E k \in DOMAIN uniq_cells_lookup : uniq_cells_lookup[k] = 0

LEMMA RecordsMetInit == Init => RecordsMet
<1> SUFFICES ASSUME Init PROVE RecordsMet
  OBVIOUS
<1>1. DOMAIN uniq_cells_lookup = {} /\ unique_cells_written = 0
  BY DEF Init, ST!NoEntry
<1>. QED
  BY <1>1 DEF RecordsMet

(* The end of a row has a record met, its own; no other step adds one. *)
LEMMA RecordsStayMet ==
  ASSUME StoreInv, StoreInv', PointersFit, PointersFit', RecordsMet, [Next]_vars
  PROVE  RecordsMet'
<1>1. /\ TypeInv /\ HeaderInv /\ VCounted /\ WordsInv /\ OverrunNoted /\ RecordsLie
      /\ WordsInv'
  BY StoreParts, PTL DEF StoreInv, RowsInv, RecordsInv, RowsInv
<1>2. CASE ~FinishRow
  <2>1. UNCHANGED fileVars
    BY <1>1, <1>2, OnlyRowsWrite
  <2>. QED
    BY <2>1 DEF fileVars, RecordsMet, Pointed
<1>3. CASE FinishRow
  <2>1. PICK at : at = UniqOffset
    OBVIOUS
  <2>2. PICK n \in Nat : n = Len(v)
    BY <1>1, LenProperties DEF TypeInv, SectionsOK
  <2>3. PICK na \in Nat : na = Len(answers) /\ DOMAIN answers = 1 .. na
    BY <1>1, LenProperties DEF TypeInv, AnswersOK
  <2>4. PICK c : c = cells
    OBVIOUS
  <2>5. /\ Len(v') = n + 1 + Len(vector) /\ Len(vector) \in Nat
        /\ \A i_ \in 1 .. n : v'[i_] = v[i_]
        /\ v'[n + 1] = at
        /\ Len(answers') = na + 1
        /\ \A i_ \in 1 .. na : answers'[i_] = answers[i_]
        /\ Pointed(answers'[na + 1]) = n
    BY <1>1, <1>3, <2>1, <2>2, <2>3, RowWritten DEF PointersFit
  <2>6. DOMAIN answers' = 1 .. na + 1
    <3>1. TypeInv'
      BY StoreParts, PTL
    <3>. QED
      BY <2>5, <3>1, LenProperties DEF TypeInv, AnswersOK
  <2>7. /\ DOMAIN uniq_cells_lookup' = DOMAIN uniq_cells_lookup \cup {c}
        /\ uniq_cells_lookup'[c] = at
        /\ \A k \in DOMAIN uniq_cells_lookup : uniq_cells_lookup'[k] = uniq_cells_lookup[k]
    <3>1. uniq_cells_lookup' = ST!Put(uniq_cells_lookup, c, at)
      BY <1>3, <2>1, <2>4 DEF FinishRow
    <3>2. c \in DOMAIN uniq_cells_lookup => at = uniq_cells_lookup[c]
      BY <2>1, <2>4 DEF UniqOffset, UniqKnown
    <3>. QED
      BY <3>1, <3>2 DEF ST!Put
  <2>8. ASSUME NEW k \in DOMAIN uniq_cells_lookup'
        PROVE  \E j \in DOMAIN answers' :
                 /\ Pointed(answers'[j]) + 1 \in 1 .. Len(v')
                 /\ v'[Pointed(answers'[j]) + 1] = uniq_cells_lookup'[k]
    <3>1. CASE k = c
      <4>1. n + 1 \in 1 .. Len(v') /\ na + 1 \in DOMAIN answers'
        BY <2>5, <2>6
      <4>. QED
        BY <2>5, <2>7, <3>1, <4>1
    <3>2. CASE k # c
      <4>1. PICK j \in DOMAIN answers : /\ Pointed(answers[j]) + 1 \in 1 .. Len(v)
                                        /\ v[Pointed(answers[j]) + 1] = uniq_cells_lookup[k]
        BY <2>7, <3>2 DEF RecordsMet
      <4>2. j \in DOMAIN answers' /\ answers'[j] = answers[j]
        BY <2>3, <2>5, <2>6, <4>1
      <4>3. PICK p : p = Pointed(answers[j])
        OBVIOUS
      <4>4. p + 1 \in 1 .. n
        BY <2>2, <4>1, <4>3
      <4>5. p + 1 \in 1 .. Len(v') /\ v'[p + 1] = uniq_cells_lookup[k]
        BY <2>5, <4>1, <4>3, <4>4
      <4>6. Pointed(answers'[j]) = p
        BY <4>2, <4>3
      <4>. QED
        BY <2>7, <3>2, <4>2, <4>5, <4>6
    <3>. QED
      BY <3>1, <3>2
  <2>9. \E k \in DOMAIN uniq_cells_lookup' : uniq_cells_lookup'[k] = 0
    <3>1. CASE DOMAIN uniq_cells_lookup = {}
      <4>1. unique_cells_written = 0
        BY <3>1 DEF RecordsMet
      <4>2. at = 0
        BY <2>1, <3>1, <4>1 DEF UniqOffset, UniqKnown
      <4>. QED
        BY <2>7, <4>2
    <3>2. CASE DOMAIN uniq_cells_lookup # {}
      BY <2>7, <3>2 DEF RecordsMet
    <3>. QED
      BY <3>1, <3>2
  <2>10. DOMAIN uniq_cells_lookup' # {}
    BY <2>7
  <2>. QED
    BY <2>8, <2>9, <2>10 DEF RecordsMet, Pointed
<1>. QED
  BY <1>2, <1>3

-----------------------------------------------------------------------------
(* A set has no more elements than one that covers it, and as many when no *)
(* two of that one lead to the same.                                       *)
LEMMA Covered ==
  ASSUME NEW A, IsFiniteSet(A), NEW B, NEW f, DOMAIN f = A,
         \A b \in B : \E a \in A : f[a] = b
  PROVE  IsFiniteSet(B) /\ Cardinality(B) <= Cardinality(A)
<1>1. PICK part : part = {a \in A : f[a] \in B}
  OBVIOUS
<1>2. IsFiniteSet(part) /\ Cardinality(part) <= Cardinality(A)
  BY <1>1, FS_Subset
<1>3. PICK g : g = [a \in part |-> f[a]]
  OBVIOUS
<1>4. g \in Surjection(part, B)
  BY <1>1, <1>3 DEF Surjection
<1>5. IsFiniteSet(B) /\ Cardinality(B) <= Cardinality(part)
  BY <1>2, <1>4, FS_Surjection
<1>6. Cardinality(A) \in Nat /\ Cardinality(B) \in Nat /\ Cardinality(part) \in Nat
  BY <1>2, <1>5, FS_CardinalityType
<1>. QED
  BY <1>2, <1>5, <1>6

LEMMA Matched ==
  ASSUME NEW A, IsFiniteSet(A), NEW f, DOMAIN f = A,
         \A a, b \in A : f[a] = f[b] => a = b
  PROVE  LET B == {f[a] : a \in A}
         IN  IsFiniteSet(B) /\ Cardinality(B) = Cardinality(A)
<1>1. PICK B : B = {f[a] : a \in A}
  OBVIOUS
<1>2. PICK g : g = [a \in A |-> f[a]]
  OBVIOUS
<1>3. g \in Surjection(A, B)
  BY <1>1, <1>2 DEF Surjection
<1>4. g \in Injection(A, B)
  BY <1>1, <1>2 DEF Injection, IsInjective
<1>5. IsFiniteSet(B) /\ Cardinality(B) = Cardinality(A)
  BY <1>3, <1>4, FS_Surjection
<1>. QED
  BY <1>1, <1>5

(* Two sets that share nothing. *)
LEMMA BothCounted ==
  ASSUME NEW A, NEW B, IsFiniteSet(A), IsFiniteSet(B), A \cap B = {}
  PROVE  /\ IsFiniteSet(A \cup B)
         /\ Cardinality(A \cup B) = Cardinality(A) + Cardinality(B)
         /\ Cardinality(A) \in Nat /\ Cardinality(B) \in Nat
<1>1. /\ IsFiniteSet(A \cup B)
      /\ Cardinality(A \cup B) = Cardinality(A) + Cardinality(B) - Cardinality(A \cap B)
  BY FS_Union
<1>2. Cardinality(A \cap B) = 0
  BY FS_EmptySet
<1>3. Cardinality(A) \in Nat /\ Cardinality(B) \in Nat
  BY FS_CardinalityType
<1>. QED
  BY <1>1, <1>2, <1>3

-----------------------------------------------------------------------------
(* The strings of a sequence that are of a class of stat's: those of two   *)
(* sequences add up...                                                     *)
CountIn(s, c) == Cardinality({k \in DOMAIN s : Stat!ClassOf(s[k]) = c})

LEMMA CountsJoin ==
  ASSUME NEW S, NEW s \in Seq(S), NEW t \in Seq(S), NEW c
  PROVE  CountIn(s \o t, c) = CountIn(s, c) + CountIn(t, c)
<1>1. PICK n \in Nat : n = Len(s) /\ DOMAIN s = 1 .. n
  BY LenProperties
<1>2. PICK m \in Nat : m = Len(t) /\ DOMAIN t = 1 .. m
  BY LenProperties
<1>3. PICK all : all = s \o t
  OBVIOUS
<1>4. /\ DOMAIN all = 1 .. n + m
      /\ \A k \in 1 .. n : all[k] = s[k]
      /\ \A k \in 1 .. m : all[n + k] = t[k]
  <2>1. all \in Seq(S) /\ Len(all) = n + m
    BY <1>1, <1>2, <1>3, JoinedParts
  <2>. QED
    BY <1>1, <1>2, <1>3, <2>1, JoinedParts, LenProperties
<1>5. PICK A : A = {k \in 1 .. n : Stat!ClassOf(s[k]) = c}
  OBVIOUS
<1>6. PICK B : B = {k \in 1 .. m : Stat!ClassOf(t[k]) = c}
  OBVIOUS
<1>7. PICK f : f = [k \in B |-> n + k]
  OBVIOUS
<1>8. PICK C : C = {f[k] : k \in B}
  OBVIOUS
<1>9. IsFiniteSet(A) /\ IsFiniteSet(B)
  <2>1. IsFiniteSet(1 .. n) /\ IsFiniteSet(1 .. m)
    BY FS_Interval
  <2>2. A \in SUBSET (1 .. n) /\ B \in SUBSET (1 .. m)
    BY <1>5, <1>6
  <2>. QED
    BY <2>1, <2>2, FS_Subset
<1>10. IsFiniteSet(C) /\ Cardinality(C) = Cardinality(B)
  <2>1. \A a, b \in B : f[a] = f[b] => a = b
    BY <1>6, <1>7
  <2>. QED
    BY <1>7, <1>8, <1>9, <2>1, Matched
<1>11. {k \in 1 .. n + m : Stat!ClassOf(all[k]) = c} = A \cup C
  <2>1. \A k \in 1 .. n + m : k \in A \cup C => Stat!ClassOf(all[k]) = c
    BY <1>4, <1>5, <1>6, <1>7, <1>8
  <2>2. ASSUME NEW k \in 1 .. n + m, Stat!ClassOf(all[k]) = c PROVE k \in A \cup C
    <3>1. CASE k <= n
      BY <1>4, <1>5, <2>2, <3>1
    <3>2. CASE ~(k <= n)
      <4>1. k - n \in 1 .. m /\ n + (k - n) = k
        BY <3>2
      <4>2. k - n \in B
        BY <1>4, <1>6, <2>2, <4>1
      <4>. QED
        BY <1>7, <1>8, <4>1, <4>2
    <3>. QED
      BY <3>1, <3>2
  <2>3. A \cup C \subseteq 1 .. n + m
    BY <1>5, <1>6, <1>7, <1>8
  <2>. QED
    BY <2>1, <2>2, <2>3
<1>12. A \cap C = {}
  BY <1>5, <1>6, <1>7, <1>8
<1>13. Cardinality(A \cup C) = Cardinality(A) + Cardinality(B)
  BY <1>9, <1>10, <1>12, BothCounted
<1>. QED
  BY <1>1, <1>2, <1>3, <1>4, <1>5, <1>6, <1>11, <1>13 DEF CountIn

(* ...and so do their bytes. *)
LEMMA SizesJoin ==
  ASSUME NEW S, NEW s \in Seq(S), NEW t \in Seq(S)
  PROVE  R!SizeOf(s \o t) = R!SizeOf(s) + R!SizeOf(t)
<1>1. PICK n \in Nat : n = Len(s)
  BY LenProperties
<1>2. PICK m \in Nat : m = Len(t)
  BY LenProperties
<1>3. PICK all : all = s \o t
  OBVIOUS
<1>4. /\ Len(all) = n + m
      /\ \A k \in 1 .. n : all[k] = s[k]
      /\ \A k \in 1 .. m : all[n + k] = t[k]
  BY <1>1, <1>2, <1>3, JoinedParts
<1>5. PICK f : f = R!SizesUpTo(all)
  OBVIOUS
<1>6. PICK g : g = R!SizesUpTo(s)
  OBVIOUS
<1>7. PICK h : h = R!SizesUpTo(t)
  OBVIOUS
<1>8. /\ f[0] = 0 /\ \A k \in 1 .. n + m : f[k] = f[k - 1] + LengthOf(all[k])
      /\ g[0] = 0 /\ \A k \in 1 .. n : g[k] = g[k - 1] + LengthOf(s[k])
      /\ h[0] = 0 /\ \A k \in 1 .. m : h[k] = h[k - 1] + LengthOf(t[k])
      /\ \A k \in 0 .. n : g[k] \in Nat
      /\ \A k \in 0 .. m : h[k] \in Nat
  <2>1. n + m \in Nat
    OBVIOUS
  <2>2. f[0] = 0 /\ \A k \in 1 .. n + m : f[k] = f[k - 1] + LengthOf(all[k])
    BY <1>4, <1>5, <2>1, SizesAre
  <2>3. /\ g[0] = 0 /\ \A k \in 1 .. n : g[k] = g[k - 1] + LengthOf(s[k])
        /\ \A k \in 0 .. n : g[k] \in Nat
    BY <1>1, <1>6, SizesAre
  <2>4. /\ h[0] = 0 /\ \A k \in 1 .. m : h[k] = h[k - 1] + LengthOf(t[k])
        /\ \A k \in 0 .. m : h[k] \in Nat
    BY <1>2, <1>7, SizesAre
  <2>. QED
    BY <2>2, <2>3, <2>4
<1> DEFINE P == {k \in Nat : k <= n => f[k] = g[k]}
           Q == {k \in Nat : k <= m => f[n + k] = g[n] + h[k]}
<1>9. Nat \subseteq P
  <2>1. 0 \in P
    BY <1>8
  <2>2. ASSUME NEW k \in P \cap Nat PROVE k + 1 \in P
    <3>1. CASE k + 1 <= n
      <4>1. k + 1 \in 1 .. n /\ k + 1 \in 1 .. n + m /\ k + 1 - 1 = k /\ k <= n
        BY <3>1
      <4>2. f[k] = g[k] /\ all[k + 1] = s[k + 1]
        BY <1>4, <4>1
      <4>. QED
        BY <1>8, <4>1, <4>2
    <3>2. CASE ~(k + 1 <= n)
      BY <3>2
    <3>. QED
      BY <3>1, <3>2
  <2> HIDE DEF P
  <2>. QED
    BY <2>1, <2>2, AllNumbers
<1>10. f[n] = g[n]
  BY <1>9
<1>11. Nat \subseteq Q
  <2>1. 0 \in Q
    BY <1>8, <1>10
  <2>2. ASSUME NEW k \in Q \cap Nat PROVE k + 1 \in Q
    <3>1. CASE k + 1 <= m
      <4>1. /\ k + 1 \in 1 .. m /\ n + (k + 1) \in 1 .. n + m
            /\ k + 1 - 1 = k /\ n + (k + 1) - 1 = n + k /\ k <= m /\ k \in 0 .. m
        BY <3>1
      <4>2. f[n + k] = g[n] + h[k] /\ all[n + (k + 1)] = t[k + 1]
        BY <1>4, <4>1
      <4>3. f[n + (k + 1)] = g[n] + h[k] + LengthOf(t[k + 1])
        BY <1>8, <4>1, <4>2
      <4>4. h[k + 1] = h[k] + LengthOf(t[k + 1])
        <5>1. \A j \in 1 .. m : h[j] = h[j - 1] + LengthOf(t[j])
          BY <1>8
        <5>2. h[k + 1] = h[k + 1 - 1] + LengthOf(t[k + 1])
          BY <4>1, <5>1
        <5>. QED
          BY <4>1, <5>2
      <4>5. g[n] \in Nat /\ h[k] \in Nat /\ LengthOf(t[k + 1]) \in Nat
        BY <1>8, <4>1, LengthIsNat
      <4>. QED
        BY <4>3, <4>4, <4>5
    <3>2. CASE ~(k + 1 <= m)
      BY <3>2
    <3>. QED
      BY <3>1, <3>2
  <2> HIDE DEF Q
  <2>. QED
    BY <2>1, <2>2, AllNumbers
<1>12. f[n + m] = g[n] + h[m]
  BY <1>11
<1>. QED
  BY <1>1, <1>2, <1>3, <1>4, <1>5, <1>6, <1>7, <1>12 DEF R!SizeOf

-----------------------------------------------------------------------------
(* What is seen of a string is a string. *)
LEMMA SeenIsString == \A s \in Strings : Seen(s) \in Strings
<1> SUFFICES ASSUME NEW s \in Strings PROVE Seen(s) \in Strings
  OBVIOUS
<1>1. CASE s \in Tiny
  <2>1. PICK t \in Tiny \ Mangled : TinyCode[t] = TinyCode[s]
    BY <1>1, ReadersAssumption
  <2>2. TinyText(TinyCode[s]) \in Tiny
    BY <2>1 DEF TinyText
  <2>. QED
    BY <1>1, <2>2 DEF Seen, Tiny
<1>2. CASE s \notin Tiny
  BY <1>2 DEF Seen
<1>. QED
  BY <1>1, <1>2

(* The text of a row, string by string as the library reads it. *)
LEMMA TextIsRead ==
  ASSUME StoreInv, Readable, NEW j \in DOMAIN answers
  PROVE  /\ TextOf(j) \in Seq(Strings) /\ DOMAIN TextOf(j) = 1 .. Len(TextOf(j))
         /\ Len(TextOf(j)) \in Nat
         /\ ~AtEnd(Sections, Pointed(answers[j]))
         /\ UcCount(Sections, Pointed(answers[j])) = Len(TextOf(j))
         /\ RowText(Sections, Pointed(answers[j])) = TextOf(j)
         /\ \A k \in DOMAIN TextOf(j) :
              TextOf(j)[k] = Resolve(table, CellWord(Sections, Pointed(answers[j]), k))
<1>1. PICK r : r = Pointed(answers[j])
  OBVIOUS
<1>2. PICK text : text = TextOf(j)
  OBVIOUS
<1>3. /\ r \in 0 .. Len(v) - 1
      /\ IovecAt(Sections, r) = [end |-> FALSE, text |-> text]
      /\ UcCount(Sections, r) = Len(text)
      /\ \E d \in Seq(Strings) : text = SeenAll(d)
  BY <1>1, <1>2, RowIsThere
<1>4. PICK d \in Seq(Strings) : text = SeenAll(d)
  BY <1>3
<1>5. PICK n \in Nat : n = Len(d) /\ DOMAIN d = 1 .. n /\ \A k \in 1 .. n : d[k] \in Strings
  BY LenProperties, ElementOfSeq
<1>6. text = [k \in 1 .. n |-> Seen(d[k])]
  BY <1>4, <1>5 DEF SeenAll
<1>7. \A k \in 1 .. n : Seen(d[k]) \in Strings
  BY <1>5, SeenIsString
<1>8. text \in Seq(Strings) /\ Len(text) = n /\ DOMAIN text = 1 .. n
  BY <1>6, <1>7
<1>9. PICK nv \in Nat : nv = Len(v)
  <2>1. TypeInv
    BY StoreParts
  <2>. QED
    BY <2>1, LenProperties DEF TypeInv, SectionsOK
<1>10. ~AtEnd(Sections, r)
  BY <1>3, <1>9 DEF AtEnd, Sections
<1>11. RowText(Sections, r) = text
  BY <1>3, <1>10 DEF IovecAt
<1>12. \A k \in 1 .. n : text[k] = Resolve(table, CellWord(Sections, r, k))
  BY <1>3, <1>8, <1>11 DEF RowText, Sections
<1>. QED
  BY <1>1, <1>2, <1>3, <1>8, <1>10, <1>11, <1>12

(* The texts of the first rows, one behind the other. *)
RowTexts == [j \in DOMAIN answers |-> TextOf(j)]
TextBefore(n) == UpTo(RowTexts, n)

LEMMA TextsAreRendered ==
  ASSUME StoreInv, Readable
  PROVE  /\ Len(answers) \in Nat /\ DOMAIN answers = 1 .. Len(answers)
         /\ TextBefore(0) = << >>
         /\ \A n \in 0 .. Len(answers) : TextBefore(n) \in Seq(Strings)
         /\ \A n \in 1 .. Len(answers) : TextBefore(n) = TextBefore(n - 1) \o TextOf(n)
         /\ Rendered = TextBefore(Len(answers))
<1>1. PICK na \in Nat : na = Len(answers) /\ DOMAIN answers = 1 .. na
  <2>1. TypeInv
    BY StoreParts
  <2>. QED
    BY <2>1, LenProperties DEF TypeInv, AnswersOK
<1>2. PICK texts : texts = RowTexts
  OBVIOUS
<1>3. texts \in [1 .. na -> Seq(Strings)] /\ \A j \in 1 .. na : texts[j] = TextOf(j)
  BY <1>1, <1>2, TextIsRead DEF RowTexts
<1>4. /\ \A n \in 0 .. na : UpTo(texts, n) \in Seq(Strings)
      /\ UpTo(texts, 0) = << >>
      /\ \A n \in 1 .. na : UpTo(texts, n) = UpTo(texts, n - 1) \o texts[n]
      /\ FlattenSeq(texts) = UpTo(texts, na)
  BY <1>3, PrefixesJoin
<1>5. Rendered = FlattenSeq(texts)
  BY <1>2 DEF Rendered, RowTexts
<1>. QED
  BY <1>1, <1>2, <1>3, <1>4, <1>5 DEF TextBefore

-----------------------------------------------------------------------------
(* The library is the same in stat, too. *)
LEMMA SameInStat ==
  ASSUME NEW f, NEW r
  PROVE  /\ Stat!AtEnd(f, r) = AtEnd(f, r) /\ Stat!R!AtEnd(f, r) = AtEnd(f, r)
         /\ Stat!UcOffset(f, r) = UcOffset(f, r)
         /\ Stat!UcCount(f, r) = UcCount(f, r) /\ Stat!R!UcCount(f, r) = UcCount(f, r)
         /\ Stat!R!ToSkip(f, r) = ToSkip(f, r)
  BY DEF Stat!AtEnd, Stat!R!AtEnd, Stat!UcOffset, Stat!WordAt, Stat!UcCount,
         Stat!R!UcCount, Stat!R!UcOffset, Stat!R!WordAt, Stat!R!ToSkip, Stat!R!UcVectorCount,
         AtEnd, UcOffset, WordAt, UcCount, ToSkip, UcVectorCount

LEMMA SameCellsInStat ==
  ASSUME NEW f, NEW r, NEW k
  PROVE  /\ Stat!CellWord(f, r, k) = CellWord(f, r, k)
         /\ Stat!R!CellWord(f, r, k) = CellWord(f, r, k)
  BY DEF Stat!CellWord, Stat!UcCell, Stat!UcOffset, Stat!WordAt, Stat!InVector,
         Stat!R!CellWord, Stat!R!UcCell, Stat!R!UcOffset, Stat!R!WordAt, Stat!R!InVector,
         Stat!Cardinality, Stat!IsFiniteSet, Stat!R!Cardinality, Stat!R!IsFiniteSet,
         Cardinality, IsFiniteSet, CellWord, UcCell, UcOffset, WordAt, InVector

LEMMA SameResolveInStat ==
  ASSUME NEW tbl, NEW w
  PROVE  /\ Stat!Resolve(tbl, w) = Resolve(tbl, w)
         /\ Stat!R!Resolve(tbl, w) = Resolve(tbl, w)
  BY DEF Stat!Resolve, Stat!IsInline, Stat!TinyText, Stat!Tiny, Stat!TinyMax,
         Stat!R!Resolve, Stat!R!IsInline, Stat!R!TinyText, Stat!R!Tiny, Stat!R!TinyMax,
         Resolve, IsInline, TinyText, Tiny, TinyMax

LEMMA SameSizesInStat ==
  ASSUME NEW pieces
  PROVE  Stat!R!SizeOf(pieces) = R!SizeOf(pieces)
<1>1. Stat!R!SizesUpTo(pieces) = R!SizesUpTo(pieces)
  BY DEF Stat!R!SizesUpTo, R!SizesUpTo
<1>. QED
  BY <1>1 DEF Stat!R!SizeOf, R!SizeOf

LEMMA SameCountInStat ==
  ASSUME NEW S
  PROVE  Stat!Cardinality(S) = Cardinality(S)
  BY DEF Stat!Cardinality, Stat!IsFiniteSet, Cardinality, IsFiniteSet

(* What a string of a row is told by. *)
IdOf(s, w) ==
  IF LenOf[s] > 5 THEN Stat!AddressOf(s, w) ELSE FirstFour[s]
IdAt(r, k) == IdOf(Resolve(table, CellWord(Sections, r, k)), CellWord(Sections, r, k))

(* What a turn counts of a row that was added, and of the end of the file. *)
LEMMA RowInStat ==
  ASSUME StoreInv, Readable, file.sections = Sections,
         NEW j \in DOMAIN answers, row_ptr = Pointed(answers[j])
  PROVE  /\ ~Stat!AtEnd(Stat!Opened, row_ptr)
         /\ Stat!Pieces = DOMAIN TextOf(j)
         /\ \A k \in DOMAIN TextOf(j) : Stat!Piece(k) = TextOf(j)[k]
         /\ \A k : Stat!Id(k) = IdAt(row_ptr, k)
         /\ Stat!R!Pieces(Stat!Opened) = TextOf(j)
<1>1. PICK f : f = Sections
  OBVIOUS
<1>2. Stat!Opened = f
  BY <1>1 DEF Stat!Opened
<1>3. PICK text : text = TextOf(j)
  OBVIOUS
<1>4. /\ DOMAIN text = 1 .. Len(text)
      /\ ~AtEnd(f, row_ptr) /\ UcCount(f, row_ptr) = Len(text)
      /\ RowText(f, row_ptr) = text
      /\ \A k \in DOMAIN text : text[k] = Resolve(table, CellWord(f, row_ptr, k))
  BY <1>1, <1>3, TextIsRead
<1>5. ~Stat!AtEnd(f, row_ptr) /\ ~Stat!R!AtEnd(f, row_ptr)
  BY <1>4, SameInStat
<1>6. Stat!Pieces = DOMAIN text
  BY <1>2, <1>4, <1>5, SameInStat DEF Stat!Pieces
<1>7. \A k : Stat!Piece(k) = Resolve(table, CellWord(f, row_ptr, k))
  BY <1>1, <1>2, SameCellsInStat, SameResolveInStat DEF Stat!Piece, Sections
<1>8. \A k : Stat!Id(k) = IdAt(row_ptr, k)
  BY <1>1, <1>2, <1>7, SameCellsInStat DEF Stat!Id, IdAt, IdOf
<1>9. Stat!R!RowText(f, row_ptr) = RowText(f, row_ptr)
  BY SameInStat, SameCellsInStat, SameResolveInStat DEF Stat!R!RowText, RowText
<1>10. Stat!R!Pieces(f) = text
  BY <1>4, <1>5, <1>9 DEF Stat!R!Pieces
<1>. QED
  BY <1>2, <1>3, <1>4, <1>5, <1>6, <1>7, <1>8, <1>10

-----------------------------------------------------------------------------
(* The counts after so many rows. *)
Tallied(n) ==
  /\ turns = n
  /\ \A c \in Stat!Classes : count[c] = CountIn(TextBefore(n), c)
  /\ bytes = R!SizeOf(TextBefore(n))

(* The turn at a row counts that row. *)
LEMMA TurnTallies ==
  ASSUME StoreInv, Readable, file.sections = Sections, Stat!Turn,
         NEW n, Nth(n, row_ptr), n < Len(answers), Tallied(n)
  PROVE  /\ turns' = n + 1
         /\ \A c \in Stat!Classes : count'[c] = CountIn(TextBefore(n + 1), c)
         /\ bytes' = R!SizeOf(TextBefore(n + 1))
<1>1. n + 1 \in DOMAIN answers /\ row_ptr = Pointed(answers[n + 1])
  BY PlaceRow
<1>2. PICK na \in Nat : na = Len(answers) /\ n \in 0 .. na /\ n + 1 \in 1 .. na
  <2>1. PICK na \in Nat : na = Len(answers)
    BY TextsAreRendered
  <2>2. n \in Nat /\ n < na
    BY <2>1 DEF Nth
  <2>. QED
    BY <2>1, <2>2
<1>3. PICK text : text = TextOf(n + 1)
  OBVIOUS
<1>4. PICK before : before = TextBefore(n)
  OBVIOUS
<1>5. before \in Seq(Strings) /\ text \in Seq(Strings)
  BY <1>1, <1>2, <1>3, <1>4, TextsAreRendered, TextIsRead
<1>6. TextBefore(n + 1) = before \o text
  <2>1. TextBefore(n + 1) = TextBefore(n + 1 - 1) \o TextOf(n + 1)
    BY <1>2, TextsAreRendered
  <2>2. n + 1 - 1 = n
    BY <1>2
  <2>. QED
    BY <1>3, <1>4, <2>1, <2>2
<1>7. /\ ~Stat!AtEnd(Stat!Opened, row_ptr)
      /\ Stat!Pieces = DOMAIN text
      /\ \A k \in DOMAIN text : Stat!Piece(k) = text[k]
      /\ Stat!R!Pieces(Stat!Opened) = text
  BY <1>1, <1>3, RowInStat
<1>8. turns' = n + 1
  BY <1>7 DEF Stat!Turn, Tallied
<1>9. ASSUME NEW c \in Stat!Classes
      PROVE  count'[c] = CountIn(TextBefore(n + 1), c)
  <2>1. count'[c] = count[c] + Stat!Among(Stat!Pieces, c)
    BY DEF Stat!Turn
  <2>2. Stat!Among(Stat!Pieces, c) = CountIn(text, c)
    <3>1. {k \in Stat!Pieces : Stat!ClassOf(Stat!Piece(k)) = c}
            = {k \in DOMAIN text : Stat!ClassOf(text[k]) = c}
      BY <1>7
    <3>. QED
      BY <3>1, SameCountInStat DEF Stat!Among, CountIn
  <2>3. CountIn(before \o text, c) = CountIn(before, c) + CountIn(text, c)
    BY <1>5, CountsJoin
  <2>. QED
    BY <1>4, <1>6, <2>1, <2>2, <2>3 DEF Tallied
<1>10. bytes' = R!SizeOf(TextBefore(n + 1))
  <2>1. bytes' = bytes + R!SizeOf(text)
    BY <1>7, SameSizesInStat DEF Stat!Turn
  <2>2. R!SizeOf(before \o text) = R!SizeOf(before) + R!SizeOf(text)
    BY <1>5, SizesJoin
  <2>. QED
    BY <1>4, <1>6, <2>1, <2>2 DEF Tallied
<1>. QED
  BY <1>8, <1>9, <1>10

(* The turn at the end of the file counts no row; what it adds up stays.   *)
LEMMA LastTurnTallies ==
  ASSUME StoreInv, Readable, file.sections = Sections, Stat!Turn,
         Nth(Len(answers), row_ptr), Tallied(Len(answers))
  PROVE  /\ turns' = Len(answers)
         /\ \A c \in Stat!Classes : count'[c] = CountIn(TextBefore(Len(answers)), c)
         /\ bytes' = R!SizeOf(TextBefore(Len(answers)))
         /\ uniq_str_hash' = uniq_str_hash
         /\ uniq_count' = [c \in Stat!Classes |-> uniq_count[c] + 0]
<1>1. PICK na \in Nat : na = Len(answers)
  BY TextsAreRendered
<1>2. AtEnd(Sections, row_ptr)
  BY <1>1, PlaceRow DEF AtEnd, Sections
<1>3. PICK f : f = Sections
  OBVIOUS
<1>4. Stat!Opened = f /\ Stat!AtEnd(f, row_ptr) /\ Stat!R!AtEnd(f, row_ptr)
  BY <1>2, <1>3, SameInStat DEF Stat!Opened
<1>5. Stat!Pieces = {} /\ Stat!R!Pieces(f) = << >>
  BY <1>4 DEF Stat!Pieces, Stat!R!Pieces
<1>6. Stat!NewPieces = {}
  BY <1>5 DEF Stat!NewPieces
<1>7. \A c : Stat!Among({}, c) = 0
  BY FS_EmptySet, SameCountInStat DEF Stat!Among
<1>8. PICK text : text = TextBefore(na)
  OBVIOUS
<1>9. text \in Seq(Strings) /\ << >> \in Seq(Strings)
  BY <1>1, <1>8, TextsAreRendered
<1>10. /\ turns = na /\ bytes = R!SizeOf(text)
       /\ \A c \in Stat!Classes : count[c] = CountIn(text, c)
  BY <1>1, <1>8 DEF Tallied
<1>11. turns' = na
  BY <1>1, <1>4, <1>10 DEF Stat!Turn
<1>12. ASSUME NEW c \in Stat!Classes PROVE count'[c] = CountIn(text, c)
  <2>1. count'[c] = count[c] + 0
    BY <1>5, <1>7 DEF Stat!Turn
  <2>2. CountIn(text, c) \in Nat
    <3>1. {k \in DOMAIN text : Stat!ClassOf(text[k]) = c} \in SUBSET (1 .. Len(text))
      BY <1>9, LenProperties
    <3>2. IsFiniteSet(1 .. Len(text))
      BY <1>9, LenProperties, FS_Interval
    <3>. QED
      BY <3>1, <3>2, FS_Subset, FS_CardinalityType DEF CountIn
  <2>. QED
    BY <1>10, <2>1, <2>2
<1>13. bytes' = R!SizeOf(text)
  <2>1. bytes' = bytes + R!SizeOf(<< >>)
    BY <1>4, <1>5, SameSizesInStat DEF Stat!Turn
  <2>2. R!SizeOf(<< >>) = 0
    <3>1. Len(<< >>) = 0
      OBVIOUS
    <3>. QED
      BY <3>1, SizesAre DEF R!SizeOf
  <2>3. R!SizeOf(text) \in Nat
    <3>1. Len(text) \in Nat /\ Len(text) \in 0 .. Len(text)
      BY <1>9, LenProperties
    <3>. QED
      BY <3>1, SizesAre DEF R!SizeOf
  <2>. QED
    BY <1>10, <2>1, <2>2, <2>3
<1>14. uniq_str_hash' = uniq_str_hash
  BY <1>5 DEF Stat!Turn
<1>15. uniq_count' = [c \in Stat!Classes |-> uniq_count[c] + 0]
  BY <1>6, <1>7 DEF Stat!Turn
<1>. QED
  BY <1>1, <1>8, <1>11, <1>12, <1>13, <1>14, <1>15

-----------------------------------------------------------------------------
(* A number of a set is either the least or has a lesser one in it. *)
LEMMA FirstOf ==
  ASSUME NEW T, T \subseteq Nat, T # {}
  PROVE  \E x \in T : \A y \in T : ~(y < x)
<1>1. PICK x \in T : \A y \in T : x <= y
  BY LeastNumber
<1>. QED
  BY <1>1

(* Of the members of a row that a set has not met, as many are counted as  *)
(* the set gets new ones: each at the first place it has.                  *)
FirstMet(f, m, H) == {k \in 1 .. m : f[k] \notin H /\ \A j \in 1 .. k - 1 : f[j] # f[k]}
AllMet(f, m, H) == H \cup {f[k] : k \in 1 .. m}

LEMMA FirstPlaces ==
  ASSUME NEW m \in Nat, NEW f, NEW H, IsFiniteSet(H)
  PROVE  /\ IsFiniteSet(FirstMet(f, m, H)) /\ IsFiniteSet(AllMet(f, m, H))
         /\ Cardinality(AllMet(f, m, H)) = Cardinality(H) + Cardinality(FirstMet(f, m, H))
         /\ Cardinality(H) \in Nat /\ Cardinality(FirstMet(f, m, H)) \in Nat
<1>1. PICK N : N = {k \in 1 .. m : f[k] \notin H /\ \A j \in 1 .. k - 1 : f[j] # f[k]}
  OBVIOUS
<1>2. PICK g : g = [k \in N |-> f[k]]
  OBVIOUS
<1>3. PICK D : D = {g[k] : k \in N}
  OBVIOUS
<1>4. IsFiniteSet(N)
  <2>1. IsFiniteSet(1 .. m)
    BY FS_Interval
  <2>2. N \in SUBSET (1 .. m)
    BY <1>1
  <2>. QED
    BY <2>1, <2>2, FS_Subset
<1>5. \A a, b \in N : g[a] = g[b] => a = b
  <2> SUFFICES ASSUME NEW a \in N, NEW b \in N, g[a] = g[b], a # b PROVE FALSE
    OBVIOUS
  <2>1. f[a] = f[b]
    BY <1>2
  <2>2. a \in 1 .. b - 1 \/ b \in 1 .. a - 1
    BY <1>1
  <2>. QED
    BY <1>1, <2>1, <2>2
<1>6. IsFiniteSet(D) /\ Cardinality(D) = Cardinality(N)
  BY <1>2, <1>3, <1>4, <1>5, Matched
<1>7. AllMet(f, m, H) = H \cup D
  <2>1. D \subseteq {f[k] : k \in 1 .. m}
    BY <1>1, <1>2, <1>3
  <2>2. ASSUME NEW k \in 1 .. m, f[k] \notin H PROVE f[k] \in D
    <3>1. PICK T : T = {j \in 1 .. m : f[j] = f[k]}
      OBVIOUS
    <3>2. T \subseteq Nat /\ T # {}
      BY <3>1
    <3>3. PICK x \in T : \A y \in T : ~(y < x)
      BY <3>2, FirstOf
    <3>4. x \in 1 .. m /\ f[x] = f[k]
      BY <3>1
    <3>5. \A j \in 1 .. x - 1 : f[j] # f[x]
      <4> SUFFICES ASSUME NEW j \in 1 .. x - 1, f[j] = f[x] PROVE FALSE
        OBVIOUS
      <4>1. j \in 1 .. m /\ j < x
        BY <3>4
      <4>. QED
        BY <3>1, <3>3, <3>4, <4>1
    <3>6. x \in N
      BY <1>1, <2>2, <3>4, <3>5
    <3>. QED
      BY <1>2, <1>3, <3>4, <3>6
  <2>. QED
    BY <2>1, <2>2 DEF AllMet
<1>8. H \cap D = {}
  BY <1>1, <1>2, <1>3
<1>9. /\ IsFiniteSet(H \cup D)
      /\ Cardinality(H \cup D) = Cardinality(H) + Cardinality(N)
      /\ Cardinality(H) \in Nat /\ Cardinality(N) \in Nat
  BY <1>6, <1>8, BothCounted
<1>. QED
  BY <1>1, <1>4, <1>7, <1>9 DEF FirstMet

(* The members of a set, class by class. *)
OfClass(ks, f, c) == {k \in ks : Stat!ClassOf(f[k]) = c}

LEMMA ClassByClass ==
  ASSUME NEW ks, IsFiniteSet(ks), NEW f
  PROVE  /\ \A c : IsFiniteSet(OfClass(ks, f, c)) /\ Cardinality(OfClass(ks, f, c)) \in Nat
         /\ Cardinality(ks) = Cardinality(OfClass(ks, f, "tiny"))
                               + Cardinality(OfClass(ks, f, "small"))
                               + Cardinality(OfClass(ks, f, "large"))
<1> DEFINE of(c) == OfClass(ks, f, c)
<1>1. \A c : IsFiniteSet(of(c)) /\ Cardinality(of(c)) \in Nat
  <2> SUFFICES ASSUME NEW c PROVE IsFiniteSet(of(c)) /\ Cardinality(of(c)) \in Nat
    OBVIOUS
  <2>1. of(c) \in SUBSET ks
    BY DEF OfClass
  <2> HIDE DEF of
  <2>. QED
    BY <2>1, FS_Subset, FS_CardinalityType
<1>2. ks = (of("tiny") \cup of("small")) \cup of("large")
  BY DEF Stat!ClassOf, OfClass
<1>3. of("tiny") \cap of("small") = {} /\ (of("tiny") \cup of("small")) \cap of("large") = {}
  BY DEF Stat!ClassOf, OfClass
<1> HIDE DEF of
<1>4. /\ IsFiniteSet(of("tiny") \cup of("small"))
      /\ Cardinality(of("tiny") \cup of("small"))
           = Cardinality(of("tiny")) + Cardinality(of("small"))
  BY <1>1, <1>3, BothCounted
<1>5. Cardinality((of("tiny") \cup of("small")) \cup of("large"))
        = Cardinality(of("tiny") \cup of("small")) + Cardinality(of("large"))
  BY <1>1, <1>3, <1>4, BothCounted
<1>. QED
  BY <1>1, <1>2, <1>4, <1>5 DEF of

-----------------------------------------------------------------------------
(* The ids of the strings of the first rows, and that each is counted.     *)
RowIds(j) == {IdAt(Pointed(answers[j]), k) : k \in DOMAIN TextOf(j)}
IdsOf(n) == UNION {RowIds(j) : j \in 1 .. n}
UniqueTotal == uniq_count["tiny"] + uniq_count["small"] + uniq_count["large"]
IdsTallied(n) ==
  /\ uniq_str_hash = IdsOf(n) /\ IsFiniteSet(uniq_str_hash)
  /\ uniq_count \in [Stat!Classes -> Nat]
  /\ UniqueTotal = Cardinality(uniq_str_hash)

(* The turn at a row counts its ids. *)
LEMMA TurnMeetsIds ==
  ASSUME StoreInv, Readable, file.sections = Sections, Stat!Turn,
         NEW n, Nth(n, row_ptr), n < Len(answers), IdsTallied(n)
  PROVE  /\ uniq_str_hash' = IdsOf(n + 1) /\ IsFiniteSet(uniq_str_hash')
         /\ uniq_count' \in [Stat!Classes -> Nat]
         /\ uniq_count'["tiny"] + uniq_count'["small"] + uniq_count'["large"]
              = Cardinality(uniq_str_hash')
<1>1. n \in Nat /\ n + 1 \in DOMAIN answers /\ row_ptr = Pointed(answers[n + 1])
  BY PlaceRow DEF Nth
<1>2. PICK text : text = TextOf(n + 1)
  OBVIOUS
<1>3. PICK m \in Nat : m = Len(text) /\ DOMAIN text = 1 .. m
  BY <1>1, <1>2, TextIsRead
<1>4. PICK r : r = row_ptr
  OBVIOUS
<1>5. PICK f : f = [k \in 1 .. m |-> IdAt(r, k)]
  OBVIOUS
<1>6. /\ Stat!Pieces = 1 .. m
      /\ \A k \in 1 .. m : Stat!Piece(k) = text[k]
      /\ \A k \in 1 .. m : Stat!Id(k) = f[k]
  BY <1>1, <1>2, <1>3, <1>4, <1>5, RowInStat
<1>7. PICK H : H = uniq_str_hash
  OBVIOUS
<1>8. PICK N : N = {k \in 1 .. m : f[k] \notin H /\ \A j \in 1 .. k - 1 : f[j] # f[k]}
  OBVIOUS
<1>9. Stat!NewPieces = N
  <2>1. \A k \in 1 .. m : \A j \in 1 .. k - 1 : j \in 1 .. m
    OBVIOUS
  <2>2. \A k \in 1 .. m : (\A j \in 1 .. k - 1 : Stat!Id(j) # Stat!Id(k))
                              <=> (\A j \in 1 .. k - 1 : f[j] # f[k])
    BY <1>6, <2>1
  <2>. QED
    BY <1>6, <1>7, <1>8, <2>2 DEF Stat!NewPieces
<1>10. PICK all : all = H \cup {f[k] : k \in 1 .. m}
  OBVIOUS
<1>11. uniq_str_hash' = all
  <2>1. uniq_str_hash' = uniq_str_hash \cup {Stat!Id(k) : k \in Stat!Pieces}
    BY DEF Stat!Turn
  <2>2. {Stat!Id(k) : k \in Stat!Pieces} = {f[k] : k \in 1 .. m}
    BY <1>6
  <2>. QED
    BY <1>7, <1>10, <2>1, <2>2
<1>12. all = IdsOf(n + 1)
  <2>1. 1 .. n + 1 = (1 .. n) \cup {n + 1}
    BY <1>1
  <2>2. H = IdsOf(n)
    BY <1>7 DEF IdsTallied
  <2>3. {f[k] : k \in 1 .. m} = RowIds(n + 1)
    BY <1>1, <1>2, <1>3, <1>4, <1>5 DEF RowIds
  <2>4. IdsOf(n + 1) = IdsOf(n) \cup RowIds(n + 1)
    BY <2>1 DEF IdsOf
  <2>. QED
    BY <1>10, <2>2, <2>3, <2>4
<1>13. IsFiniteSet(H)
  BY <1>7 DEF IdsTallied
<1>14. N = FirstMet(f, m, H) /\ all = AllMet(f, m, H)
  BY <1>8, <1>10 DEF FirstMet, AllMet
<1>15. /\ IsFiniteSet(N) /\ IsFiniteSet(all)
       /\ Cardinality(all) = Cardinality(H) + Cardinality(N)
       /\ Cardinality(H) \in Nat /\ Cardinality(N) \in Nat
  BY <1>13, <1>14, FirstPlaces
<1> DEFINE of(c) == Cardinality(OfClass(N, text, c))
<1>16. /\ \A c : of(c) \in Nat
       /\ Cardinality(N) = of("tiny") + of("small") + of("large")
  BY <1>15, ClassByClass
<1>17. \A c : Stat!Among(Stat!NewPieces, c) = of(c)
  <2>1. N \subseteq 1 .. m
    BY <1>8
  <2>2. ASSUME NEW c PROVE Stat!Among(Stat!NewPieces, c) = of(c)
    <3>1. {k \in N : Stat!ClassOf(Stat!Piece(k)) = c} = OfClass(N, text, c)
      BY <1>6, <2>1 DEF OfClass
    <3>. QED
      BY <1>9, <3>1, SameCountInStat DEF Stat!Among
  <2>. QED
    BY <2>2
<1> HIDE DEF of
<1>18. uniq_count' = [c \in Stat!Classes |-> uniq_count[c] + of(c)]
  BY <1>17 DEF Stat!Turn
<1>19. Stat!Classes = {"tiny", "small", "large"}
  BY DEF Stat!Classes
<1>20. /\ \A c \in Stat!Classes : uniq_count[c] \in Nat
       /\ uniq_count["tiny"] + uniq_count["small"] + uniq_count["large"] = Cardinality(H)
  BY <1>7 DEF IdsTallied, UniqueTotal
<1>21. uniq_count' \in [Stat!Classes -> Nat]
  BY <1>16, <1>18, <1>20
<1>22. uniq_count'["tiny"] + uniq_count'["small"] + uniq_count'["large"] = Cardinality(all)
  <2>1. \A c \in {"tiny", "small", "large"} :
          uniq_count'[c] = uniq_count[c] + of(c) /\ uniq_count[c] \in Nat /\ of(c) \in Nat
    BY <1>16, <1>18, <1>19, <1>20
  <2>2. PICK nh \in Nat : nh = Cardinality(H)
    BY <1>15
  <2>3. PICK nn \in Nat : nn = Cardinality(N)
    BY <1>15
  <2>4. Cardinality(all) = nh + nn
    BY <1>15, <2>2, <2>3
  <2>5. uniq_count["tiny"] + uniq_count["small"] + uniq_count["large"] = nh
    BY <1>20, <2>2
  <2>6. nn = of("tiny") + of("small") + of("large")
    BY <1>16, <2>3
  <2>7. /\ uniq_count'["tiny"] = uniq_count["tiny"] + of("tiny")
        /\ uniq_count'["small"] = uniq_count["small"] + of("small")
        /\ uniq_count'["large"] = uniq_count["large"] + of("large")
    BY <2>1
  <2>8. /\ uniq_count["tiny"] \in Nat /\ uniq_count["small"] \in Nat
        /\ uniq_count["large"] \in Nat
        /\ of("tiny") \in Nat /\ of("small") \in Nat /\ of("large") \in Nat
    BY <2>1
  <2>9. PICK a1 \in Nat, a2 \in Nat, a3 \in Nat :
          a1 = uniq_count["tiny"] /\ a2 = uniq_count["small"] /\ a3 = uniq_count["large"]
    BY <2>8
  <2>10. PICK b1 \in Nat, b2 \in Nat, b3 \in Nat :
           b1 = of("tiny") /\ b2 = of("small") /\ b3 = of("large")
    BY <2>8
  <2>11. uniq_count'["tiny"] + uniq_count'["small"] + uniq_count'["large"]
           = (a1 + b1) + (a2 + b2) + (a3 + b3)
    BY <2>7, <2>9, <2>10
  <2>12. nh = a1 + a2 + a3 /\ nn = b1 + b2 + b3
    BY <2>5, <2>6, <2>9, <2>10
  <2>13. (a1 + b1) + (a2 + b2) + (a3 + b3) = nh + nn
    BY <2>12
  <2>. QED
    BY <2>4, <2>11, <2>13
<1>. QED
  BY <1>11, <1>12, <1>15, <1>21, <1>22

-----------------------------------------------------------------------------
(* The offsets of the unique cells the first rows refer to: a turn meets   *)
(* that of its row, and zero behind the last one.                          *)
CellsOf(n) == {v[Pointed(answers[j]) + 1] : j \in 1 .. n}

LEMMA RowMeetsCells ==
  ASSUME StoreInv, Readable, NEW n, NEW r, Nth(n, r)
  PROVE  /\ n < Len(answers) => CellsOf(n) \cup {UcOffset(Sections, r)} = CellsOf(n + 1)
         /\ ~(n < Len(answers)) => UcOffset(Sections, r) = 0
<1>1. PICK nv \in Nat : nv = Len(v) /\ DOMAIN v = 1 .. nv
  <2>1. TypeInv
    BY StoreParts
  <2>. QED
    BY <2>1, LenProperties DEF TypeInv, SectionsOK
<1>2. CASE n < Len(answers)
  <2>1. n \in Nat /\ n + 1 \in DOMAIN answers /\ r = Pointed(answers[n + 1])
    BY <1>2, PlaceRow DEF Nth
  <2>2. r \in 0 .. nv - 1
    BY <1>1, <2>1, RowIsThere
  <2>3. UcOffset(Sections, r) = v[Pointed(answers[n + 1]) + 1]
    BY <1>1, <2>1, <2>2 DEF UcOffset, WordAt, Sections
  <2>4. 1 .. n + 1 = (1 .. n) \cup {n + 1}
    BY <2>1
  <2>. QED
    BY <1>2, <2>3, <2>4 DEF CellsOf
<1>3. CASE ~(n < Len(answers))
  <2>1. r \in Nat /\ r >= nv
    BY <1>1, <1>3, PlaceRow DEF Nth
  <2>2. r + 1 \notin 1 .. nv
    BY <2>1
  <2>. QED
    BY <1>1, <1>3, <2>2 DEF UcOffset, WordAt, Sections
<1>. QED
  BY <1>2, <1>3

(* There are as many unique cells among the rows as there are records: no  *)
(* two records lie at the same place, every row has one, every one has a   *)
(* row, and the first one lies at zero.                                    *)
LEMMA CellsAreRecords ==
  ASSUME StoreInv, Readable, RecordsMet
  PROVE  Cardinality(CellsOf(Len(answers)) \cup {0}) =
           IF answers = << >> THEN 1 ELSE Cardinality(DOMAIN uniq_cells_lookup)
<1>1. /\ TypeInv /\ TableFits /\ UcFits /\ VFits /\ ~Overran
      /\ RecordsLie /\ RowsKept
  BY StoreParts, TableFitsToo DEF StoreInv, RowsInv, RecordsInv, Readable, PointersFit
<1>2. PICK na \in Nat : na = Len(answers) /\ DOMAIN answers = 1 .. na
  BY TextsAreRendered
<1>3. CASE answers = << >>
  <2>1. CellsOf(Len(answers)) \cup {0} = {0}
    BY <1>3 DEF CellsOf
  <2>. QED
    BY <1>3, <2>1, FS_Singleton
<1>4. CASE answers # << >>
  <2>1. PICK f : f = uniq_cells_lookup
    OBVIOUS
  <2>2. PICK keys : keys = DOMAIN f
    OBVIOUS
  <2>3. PICK found : found = CellsOf(na)
    OBVIOUS
  <2>4. \A j \in 1 .. na : \E k \in keys : v[Pointed(answers[j]) + 1] = f[k]
    BY <1>1, <1>2, <2>1, <2>2 DEF RowsKept
  <2>5. \A k \in keys : \E j \in 1 .. na : v[Pointed(answers[j]) + 1] = f[k]
    BY <1>2, <2>1, <2>2 DEF RecordsMet
  <2>6. found = {f[k] : k \in keys}
    BY <2>3, <2>4, <2>5 DEF CellsOf
  <2>7. 1 \in 1 .. na
    BY <1>1, <1>2, <1>4, EmptySeq DEF TypeInv, AnswersOK
  <2>8. 0 \in found
    <3>1. keys # {}
      BY <2>4, <2>7
    <3>2. \E k \in keys : f[k] = 0
      BY <2>1, <2>2, <3>1 DEF RecordsMet
    <3>. QED
      BY <2>6, <3>2
  <2>9. ASSUME NEW k \in keys, NEW m \in keys, f[k] = f[m] PROVE k = m
    <3>1. k \in Seq(Word) /\ m \in Seq(Word)
      BY <1>1, <2>1, <2>2 DEF TypeInv, SectionsOK
    <3>2. PICK at \in Nat : at = f[k] \div 4
      BY <1>1, <2>1, <2>2 DEF RecordsLie, CellsAt
    <3>3. CellsAt(uc, k, at) /\ CellsAt(uc, m, at)
      BY <1>1, <2>1, <2>2, <2>9, <3>2 DEF RecordsLie
    <3>4. Len(k) = Len(m) /\ \A x \in 1 .. Len(k) : k[x] = m[x]
      BY <3>3 DEF CellsAt
    <3>5. k = [x \in 1 .. Len(k) |-> k[x]] /\ m = [x \in 1 .. Len(m) |-> m[x]]
      BY <3>1, LenProperties
    <3>. QED
      BY <3>4, <3>5
  <2>10. IsFiniteSet(keys)
    <3>1. PICK g : g = [j \in 1 .. na |-> v[Pointed(answers[j]) + 1]]
      OBVIOUS
    <3>2. IsFiniteSet(1 .. na) /\ DOMAIN g = 1 .. na
      BY <3>1, FS_Interval
    <3>3. \A b \in found : \E j \in 1 .. na : g[j] = b
      BY <2>3, <3>1 DEF CellsOf
    <3>4. IsFiniteSet(found)
      BY <3>2, <3>3, Covered
    <3>5. PICK h : h = [k \in keys |-> f[k]]
      OBVIOUS
    <3>6. h \in Injection(keys, found)
      BY <2>6, <2>9, <3>5 DEF Injection, IsInjective
    <3>. QED
      BY <3>4, <3>6, FS_Injection
  <2>11. Cardinality({f[k] : k \in keys}) = Cardinality(keys)
    BY <2>2, <2>9, <2>10, Matched
  <2>12. CellsOf(Len(answers)) \cup {0} = {f[k] : k \in keys}
    BY <1>2, <2>3, <2>6, <2>8
  <2>. QED
    BY <1>4, <2>1, <2>2, <2>11, <2>12
<1>. QED
  BY <1>3, <1>4

(* There are no more rows than words, so that their count is right. *)
LEMMA RowsAreCounted ==
  ASSUME StoreInv, Readable
  PROVE  num_rows = Len(answers)
<1>1. TypeInv /\ VFits /\ RowsCounted /\ RowsLie
  BY StoreParts DEF HeaderInv, Readable, PointersFit
<1>2. PICK na \in Nat : na = Len(answers) /\ DOMAIN answers = 1 .. na
  BY TextsAreRendered
<1>3. PICK nv \in Nat : nv = Len(v)
  BY <1>1, LenProperties DEF TypeInv, SectionsOK
<1>4. PICK f : f = [j \in 1 .. na |-> Pointed(answers[j])]
  OBVIOUS
<1>5. f \in Injection(1 .. na, 0 .. nv - 1)
  <2>1. \A j \in 1 .. na : f[j] \in 0 .. nv - 1
    BY <1>1, <1>2, <1>3, <1>4 DEF RowsLie
  <2>2. \A j, k \in 1 .. na : f[j] = f[k] => j = k
    BY <1>1, <1>2, <1>4 DEF RowsLie
  <2>. QED
    BY <1>4, <2>1, <2>2 DEF Injection, IsInjective
<1>6. /\ IsFiniteSet(0 .. nv - 1) /\ Cardinality(0 .. nv - 1) = nv
      /\ Cardinality(1 .. na) = na
  BY FS_Interval
<1>7. na <= nv
  BY <1>5, <1>6, FS_Injection
<1>8. PICK m \in Nat : m = 2 * Half
  BY FormatAssumption
<1>9. na < m
  BY <1>1, <1>3, <1>7, <1>8 DEF VFits
<1>. QED
  BY <1>1, <1>2, <1>8, <1>9 DEF RowsCounted

-----------------------------------------------------------------------------
(* Where stat is, and what it has counted so far: so many rows, once the   *)
(* turn at a row is over that row, too, and all of them in the end.        *)
Counting(n) == Tallied(n) /\ IdsTallied(n)
SizesRight ==
  \/ sizes[1] >= 2 * Half
  \/ sizes = << sizes[1], table_size, 4 * Len(uc), 4 * Len(v) >>

AtTurn(n) == Nth(n, row_ptr) /\ Counting(n) /\ uniq_c_hash = CellsOf(n)
AfterTurn(n) ==
  /\ Nth(n, row_ptr)
  /\ IF n < Len(answers) THEN Counting(n + 1) /\ uniq_c_hash = CellsOf(n + 1)
     ELSE Counting(n) /\ uniq_c_hash = CellsOf(n) \cup {0}

StatInv ==
  /\ main \in {"start", "turn", "next", "end"}
  /\ main = "start" => reader # "open" /\ Stat!StatInit
  /\ main = "turn" => \E n \in 0 .. Len(answers) : AtTurn(n)
  /\ main = "next" => \E n \in 0 .. Len(answers) : AfterTurn(n)
  /\ main = "end" /\ reader = "open" =>
       Counting(Len(answers)) /\ uniq_c_hash = CellsOf(Len(answers)) \cup {0}

(* The sizes it found, on course or not. *)
SizesInv == Begun => file.state = "whole" /\ SizesRight

StatAlsoInv ==
  /\ ReadersInv /\ RecordsMet /\ SizesInv
  /\ program = "stat" => (OnCourse => StatInv)
  /\ program # "stat" => sizes = << >>

(* They speak of nothing but the file, which stays. *)
LEMMA SameCounts ==
  ASSUME UNCHANGED vars
  PROVE  \A n : /\ TextBefore(n)' = TextBefore(n) /\ IdsOf(n)' = IdsOf(n)
               /\ CellsOf(n)' = CellsOf(n)
<1>1. UNCHANGED << answers, v, content, table, Sections >>
  BY FileKept
<1>2. RowTexts' = RowTexts /\ \A j : TextOf(j)' = TextOf(j)
  BY <1>1 DEF RowTexts, TextOf, RenderOf
<1>3. \A n : TextBefore(n)' = TextBefore(n)
  BY <1>2 DEF TextBefore
<1>4. \A n : CellsOf(n)' = CellsOf(n)
  BY <1>1 DEF CellsOf
<1>5. \A r, k : IdAt(r, k)' = IdAt(r, k)
  BY <1>1 DEF IdAt
<1>6. \A n : IdsOf(n)' = IdsOf(n)
  BY <1>1, <1>2, <1>5 DEF IdsOf, RowIds
<1>. QED
  BY <1>3, <1>4, <1>6

(* Nothing is counted at first. *)
LEMMA NoneCounted ==
  ASSUME Stat!StatInit
  PROVE  Counting(0) /\ uniq_c_hash = CellsOf(0)
<1>1. /\ uniq_c_hash = {} /\ uniq_str_hash = {} /\ bytes = 0 /\ turns = 0
      /\ count = [c \in Stat!Classes |-> 0] /\ uniq_count = [c \in Stat!Classes |-> 0]
  BY DEF Stat!StatInit, Stat!Nothing
<1>2. TextBefore(0) = << >>
  BY DEF TextBefore, UpTo
<1>3. \A c : CountIn(<< >>, c) = 0
  BY FS_EmptySet DEF CountIn
<1>4. R!SizeOf(<< >>) = 0
  <2>1. Len(<< >>) = 0
    OBVIOUS
  <2>. QED
    BY <2>1, SizesAre DEF R!SizeOf
<1>5. 1 .. 0 = {}
  OBVIOUS
<1>6. IdsOf(0) = {} /\ CellsOf(0) = {}
  BY <1>5 DEF IdsOf, CellsOf
<1>7. IsFiniteSet({}) /\ Cardinality({}) = 0
  BY FS_EmptySet
<1>8. Stat!Classes = {"tiny", "small", "large"}
  BY DEF Stat!Classes
<1>9. uniq_count["tiny"] = 0 /\ uniq_count["small"] = 0 /\ uniq_count["large"] = 0
  BY <1>1, <1>8
<1>. QED
  BY <1>1, <1>2, <1>3, <1>4, <1>6, <1>7, <1>9 DEF Counting, Tallied, IdsTallied, UniqueTotal

LEMMA StatInvInit == ReadersInit => StatAlsoInv
<1> SUFFICES ASSUME ReadersInit PROVE StatAlsoInv
  OBVIOUS
<1>1. ReadersInv /\ RecordsMet
  BY ReadersInvInit, RecordsMetInit DEF ReadersInit
<1>2. reader = "closed" /\ main = "start" /\ Stat!StatInit
  BY DEF ReadersInit
<1>3. sizes = << >>
  BY <1>2 DEF Stat!StatInit
<1>. QED
  BY <1>1, <1>2, <1>3 DEF StatAlsoInv, SizesInv, StatInv, Begun

(* What is between the bases it has found in the header. *)
LEMMA StatSizes ==
  ASSUME StoreInv, UNCHANGED vars, Stat!Start
  PROVE  SizesRight' /\ file.state' = "whole"
<1>1. UNCHANGED << file, answers, v, uc, table_size, Sections >>
  BY FileKept
<1>2. /\ file.state = "whole"
      /\ sizes' = Stat!SizesFound(file.header,
                     16 + table_size + 4 * (Len(Stat!Opened.uc) + Len(Stat!Opened.v)))
  BY DEF Stat!Start
<1>3. TypeInv /\ HeaderInv
  BY StoreParts
<1>4. file.sections = Sections
  BY <1>2, OpenedIsLeft
<1>5. PICK nu \in Nat : nu = Len(uc)
  BY <1>3, LenProperties DEF TypeInv, SectionsOK
<1>6. PICK nv \in Nat : nv = Len(v)
  BY <1>3, LenProperties DEF TypeInv, SectionsOK
<1>7. PICK ts \in Nat : ts = table_size
  BY <1>3 DEF TypeInv, ST!TypeOK
<1>8. PICK m \in Nat : m = 2 * Half
  BY FormatAssumption
<1>9. Stat!Opened.uc = uc /\ Stat!Opened.v = v
  BY <1>4 DEF Stat!Opened, Sections
<1>10. PICK h : h = file.header
  OBVIOUS
<1>11. 16 + table_size + 4 * (Len(Stat!Opened.uc) + Len(Stat!Opened.v))
         = 16 + ts + 4 * (nu + nv)
  BY <1>5, <1>6, <1>7, <1>9
<1>12. PICK end \in Nat : end = 16 + ts + 4 * (nu + nv)
  OBVIOUS
<1>13. sizes' = Stat!SizesFound(h, end)
  BY <1>2, <1>10, <1>11, <1>12
<1>14. sizes' = << end, h.uc - 16, h.v - h.uc, end - h.v >>
  BY <1>13 DEF Stat!SizesFound
<1>15. CASE end >= m
  <2>1. sizes'[1] >= 2 * Half
    BY <1>8, <1>14, <1>15
  <2>. QED
    BY <1>1, <1>2, <2>1 DEF SizesRight
<1>16. CASE ~(end >= m)
  <2>1. 16 + ts + 4 * nu < m
    BY <1>16, <1>12
  <2>2. h.uc = 16 + ts /\ h.v = 16 + ts + 4 * nu
    <3>1. HeaderExact
      BY <1>3, HeaderFollows
    <3>2. Len(file.sections.uc) = nu
      BY <1>4, <1>5 DEF Sections
    <3>. QED
      BY <1>2, <1>7, <1>8, <1>10, <2>1, <3>1, <3>2 DEF HeaderExact
  <2>3. h.uc - 16 = ts /\ h.v - h.uc = 4 * nu /\ end - h.v = 4 * nv
    BY <1>12, <2>2
  <2>4. sizes' = << sizes'[1], ts, 4 * nu, 4 * nv >>
    BY <1>14, <2>3
  <2>5. sizes' = << sizes'[1], table_size', 4 * Len(uc'), 4 * Len(v') >>
    BY <1>1, <1>5, <1>6, <1>7, <2>4
  <2>. QED
    BY <1>1, <1>2, <2>5 DEF SizesRight
<1>. QED
  BY <1>15, <1>16

(* Where it has opened the file. *)
LEMMA StatStarts ==
  ASSUME StoreInv, Readable, StatInv, UNCHANGED vars, OnCourse', Stat!Start
  PROVE  StatInv'
<1>1. UNCHANGED << file, answers, v, uc, table_size, Sections >>
  BY FileKept
<1>2. /\ main = "start" /\ main' = "turn" /\ row_ptr' = 0
      /\ UNCHANGED << uniq_c_hash, uniq_str_hash, count, uniq_count, bytes, turns >>
  BY DEF Stat!Start, Stat!R!Open
<1>3. Counting(0) /\ uniq_c_hash = CellsOf(0)
  BY <1>2, NoneCounted DEF StatInv
<1>4. (Counting(0) /\ uniq_c_hash = CellsOf(0))'
  BY <1>2, <1>3, SameCounts DEF Counting, Tallied, IdsTallied, UniqueTotal
<1>5. Nth(0, row_ptr)'
  BY <1>1, <1>2, FirstRow DEF Nth
<1>6. 0 \in 0 .. Len(answers)'
  BY <1>1, TextsAreRendered
<1>7. AtTurn(0)'
  BY <1>4, <1>5 DEF AtTurn
<1>8. (\E n \in 0 .. Len(answers) : AtTurn(n))'
  BY <1>6, <1>7
<1>. QED
  BY <1>2, <1>8 DEF StatInv

(* Where it has counted a row, or the end of the file. *)
LEMMA StatTurns ==
  ASSUME StoreInv, Readable, StatInv, UNCHANGED vars, file.sections = Sections, Stat!Turn
  PROVE  StatInv'
<1>1. UNCHANGED << file, answers, v, uc, table_size, Sections >>
  BY FileKept
<1>2. PICK na \in Nat : na = Len(answers)
  BY TextsAreRendered
<1>3. /\ main = "turn" /\ main' = "next"
      /\ UNCHANGED << reader, row_ptr, sizes >>
      /\ uniq_c_hash' = uniq_c_hash \cup {UcOffset(Sections, row_ptr)}
  BY SameInStat DEF Stat!Turn, Stat!readerVars, Stat!CellsMet, Stat!Opened
<1>4. PICK n \in 0 .. na : AtTurn(n)
  BY <1>2, <1>3 DEF StatInv
<1>5. Nth(n, row_ptr) /\ Tallied(n) /\ IdsTallied(n) /\ uniq_c_hash = CellsOf(n)
  BY <1>4 DEF AtTurn, Counting
<1>6. Nth(n, row_ptr)'
  BY <1>1, <1>3, <1>5 DEF Nth
<1>7. ASSUME n < na PROVE AfterTurn(n)'
  <2>1. /\ turns' = n + 1
        /\ \A c \in Stat!Classes : count'[c] = CountIn(TextBefore(n + 1), c)
        /\ bytes' = R!SizeOf(TextBefore(n + 1))
    BY <1>2, <1>5, <1>7, TurnTallies
  <2>2. Tallied(n + 1)'
    BY <2>1, SameCounts DEF Tallied
  <2>3. /\ uniq_str_hash' = IdsOf(n + 1) /\ IsFiniteSet(uniq_str_hash')
        /\ uniq_count' \in [Stat!Classes -> Nat]
        /\ uniq_count'["tiny"] + uniq_count'["small"] + uniq_count'["large"]
             = Cardinality(uniq_str_hash')
    BY <1>2, <1>5, <1>7, TurnMeetsIds
  <2>4. IdsTallied(n + 1)'
    BY <2>3, SameCounts DEF IdsTallied, UniqueTotal
  <2>5. uniq_c_hash' = CellsOf(n + 1)
    BY <1>2, <1>3, <1>5, <1>7, RowMeetsCells
  <2>6. (uniq_c_hash = CellsOf(n + 1))'
    BY <2>5, SameCounts
  <2>. QED
    BY <1>1, <1>2, <1>6, <1>7, <2>2, <2>4, <2>6 DEF AfterTurn, Counting
<1>8. ASSUME ~(n < na) PROVE AfterTurn(n)'
  <2>1. n = na
    BY <1>8
  <2>2. /\ turns' = n
        /\ \A c \in Stat!Classes : count'[c] = CountIn(TextBefore(n), c)
        /\ bytes' = R!SizeOf(TextBefore(n))
        /\ uniq_str_hash' = uniq_str_hash
        /\ uniq_count' = [c \in Stat!Classes |-> uniq_count[c] + 0]
    BY <1>2, <1>5, <2>1, LastTurnTallies
  <2>3. Tallied(n)'
    BY <2>2, SameCounts DEF Tallied
  <2>4. uniq_count \in [Stat!Classes -> Nat]
    BY <1>5 DEF IdsTallied
  <2>5. uniq_count' = uniq_count
    BY <2>2, <2>4
  <2>6. IdsTallied(n)'
    BY <1>5, <2>2, <2>5, SameCounts DEF IdsTallied, UniqueTotal
  <2>7. uniq_c_hash' = CellsOf(n) \cup {0}
    BY <1>2, <1>3, <1>5, <1>8, RowMeetsCells
  <2>8. (uniq_c_hash = CellsOf(n) \cup {0})'
    BY <2>7, SameCounts
  <2>. QED
    BY <1>1, <1>2, <1>6, <1>8, <2>3, <2>6, <2>8 DEF AfterTurn, Counting
<1>9. AfterTurn(n)'
  BY <1>7, <1>8
<1>10. (\E x \in 0 .. Len(answers) : AfterTurn(x))'
  BY <1>1, <1>2, <1>9
<1>. QED
  BY <1>3, <1>10 DEF StatInv

(* Where a turn has no room, or nothing to read. *)
LEMMA StatFaults ==
  ASSUME StatInv, Stat!TurnFaults
  PROVE  StatInv'
<1>1. main' = "end" /\ reader' # "open"
  BY DEF Stat!TurnFaults
<1>. QED
  BY <1>1 DEF StatInv

(* Where it goes on to the next row, or is done. *)
LEMMA StatGoesOn ==
  ASSUME StoreInv, Readable, StatInv, UNCHANGED vars, file.sections = Sections, Stat!Advance
  PROVE  StatInv'
<1>1. UNCHANGED << file, answers, v, uc, table_size, Sections >>
  BY FileKept
<1>2. PICK na \in Nat : na = Len(answers)
  BY TextsAreRendered
<1>3. PICK nv \in Nat : nv = Len(v)
  <2>1. TypeInv
    BY StoreParts
  <2>. QED
    BY <2>1, LenProperties DEF TypeInv, SectionsOK
<1>4. PICK r : r = row_ptr + ToSkip(Sections, row_ptr)
  OBVIOUS
<1>5. /\ main = "next" /\ row_ptr' = r
      /\ main' = IF r <= nv THEN "turn" ELSE "end"
      /\ UNCHANGED << sizes, uniq_c_hash, uniq_str_hash, count, uniq_count, bytes, turns >>
  <2>1. Stat!R!RowAfter(Stat!Opened) = r
    BY <1>4, SameInStat DEF Stat!R!RowAfter, Stat!Opened
  <2>2. Len(Stat!Opened.v) = nv
    BY <1>3 DEF Stat!Opened, Sections
  <2>. QED
    BY <2>1, <2>2 DEF Stat!Advance, Stat!counts, Stat!R!Next, Stat!R!NextAnswers
<1>6. PICK n \in 0 .. na : AfterTurn(n)
  BY <1>2, <1>5 DEF StatInv
<1>8. Nth(n, row_ptr)
  BY <1>6 DEF AfterTurn
<1>9. CASE n < na
  <2>1. Nth(n + 1, r) /\ r <= nv
    BY <1>2, <1>3, <1>4, <1>8, <1>9, RowFollows
  <2>2. Counting(n + 1) /\ uniq_c_hash = CellsOf(n + 1)
    BY <1>2, <1>6, <1>9 DEF AfterTurn
  <2>3. AtTurn(n + 1)'
    BY <1>1, <1>5, <2>1, <2>2, SameCounts
       DEF AtTurn, Nth, Counting, Tallied, IdsTallied, UniqueTotal
  <2>4. n + 1 \in 0 .. Len(answers)'
    BY <1>1, <1>2, <1>9
  <2>5. (\E x \in 0 .. Len(answers) : AtTurn(x))'
    BY <2>3, <2>4
  <2>6. main' = "turn"
    BY <1>5, <2>1
  <2>. QED
    BY <2>5, <2>6 DEF StatInv
<1>10. CASE ~(n < na)
  <2>1. n = na
    BY <1>10
  <2>2. Counting(na) /\ uniq_c_hash = CellsOf(na) \cup {0}
    BY <1>2, <1>6, <2>1 DEF AfterTurn
  <2>3. (Counting(Len(answers)) /\ uniq_c_hash = CellsOf(Len(answers)) \cup {0})'
    BY <1>1, <1>2, <1>5, <2>2, SameCounts DEF Counting, Tallied, IdsTallied, UniqueTotal
  <2>4. row_ptr \in Nat /\ row_ptr >= nv
    BY <1>2, <1>3, <1>8, <1>10, PlaceRow DEF Nth
  <2>5. ToSkip(Sections, row_ptr) \in Nat \ {0}
    <3>1. UcVectorCount(Sections, row_ptr) \in Nat
      <4>1. uc \in Seq(Nat)
        <5>1. TypeInv
          BY StoreParts
        <5>. QED
          BY <5>1 DEF TypeInv, SectionsOK
      <4>2. \A k : WordAt(uc, k) \in Nat
        BY <4>1, LenProperties, ElementOfSeq DEF WordAt
      <4>. QED
        BY <4>2 DEF UcVectorCount, Sections
    <3>. QED
      BY <3>1 DEF ToSkip
  <2>6. ~(r <= nv)
    BY <1>4, <2>4, <2>5
  <2>7. main' = "end"
    BY <1>5, <2>6
  <2>. QED
    BY <2>3, <2>7 DEF StatInv
<1>. QED
  BY <1>9, <1>10

(* The maker leaves a file that was opened alone, and what is counted. *)
LEMMA MakerKeepsCounts ==
  ASSUME ReadersInv, OnCourse, StatInv, MakerStep \/ UNCHANGED allVars
  PROVE  StatInv'
<1>1. /\ [Next]_vars
      /\ UNCHANGED << reader, row_ptr, main >>
      /\ UNCHANGED << sizes, uniq_c_hash, uniq_str_hash, count, uniq_count, bytes, turns >>
  BY DEF MakerStep, allVars, libraryVars, statVars
<1>2. CASE main = "start"
  <2>1. reader # "open" /\ Stat!StatInit
    BY <1>2 DEF StatInv
  <2>2. (reader # "open" /\ Stat!StatInit)'
    BY <1>1, <2>1 DEF Stat!StatInit
  <2>. QED
    BY <1>1, <1>2, <2>2 DEF StatInv
<1>3. CASE main # "start"
  <2>1. UNCHANGED vars
    BY <1>1, <1>3, FileStays DEF ReadersInv, CourseInv, FileThere, Started
  <2>2. UNCHANGED << answers, v, uc, table_size, Sections >>
    BY <2>1, FileKept
  <2>3. \A n : Counting(n)' = Counting(n)
    BY <1>1, <2>1, SameCounts DEF Counting, Tallied, IdsTallied, UniqueTotal
  <2>4. \A n : AtTurn(n)' = AtTurn(n)
    BY <1>1, <2>1, <2>2, <2>3, SameCounts DEF AtTurn, Nth
  <2>5. \A n : AfterTurn(n)' = AfterTurn(n)
    BY <1>1, <2>1, <2>2, <2>3, SameCounts DEF AfterTurn, Nth
  <2>6. main = "turn" => (\E n \in 0 .. Len(answers) : AtTurn(n))'
    BY <2>2, <2>4 DEF StatInv
  <2>7. main = "next" => (\E n \in 0 .. Len(answers) : AfterTurn(n))'
    BY <2>2, <2>5 DEF StatInv
  <2>8. main = "end" /\ reader = "open" =>
          (Counting(Len(answers)) /\ uniq_c_hash = CellsOf(Len(answers)) \cup {0})'
    <3>1. PICK na : na = Len(answers)
      OBVIOUS
    <3>2. main = "end" /\ reader = "open" => Counting(na)' /\ uniq_c_hash' = CellsOf(na)' \cup {0}
      BY <1>1, <2>1, <2>3, <3>1, SameCounts DEF StatInv
    <3>3. na = Len(answers)'
      BY <2>2, <3>1
    <3>. QED
      BY <3>2, <3>3 DEF Counting, Tallied, IdsTallied, CellsOf
  <2>. QED
    BY <1>1, <1>3, <2>6, <2>7, <2>8 DEF StatInv
<1>. QED
  BY <1>2, <1>3

(* The sizes stay what they are as long as the file does.                  *)
LEMMA SizesStay ==
  ASSUME ReadersInv, SizesInv, program # "stat" => sizes = << >>, [ReadersNext]_allVars
  PROVE  SizesInv' /\ (program' # "stat" => sizes' = << >>)
<1>1. [Next]_vars /\ UNCHANGED program
  BY DEF ReadersNext, MakerStep, RenderStep, StatStep, PerlStep, allVars
<1>2. CASE StatStep /\ Stat!Start
  <2>1. SizesRight' /\ file.state' = "whole" /\ program' = "stat"
    BY <1>1, <1>2, StatSizes DEF StatStep, ReadersInv
  <2>. QED
    BY <2>1 DEF SizesInv
<1>3. CASE ~(StatStep /\ Stat!Start)
  <2>1. UNCHANGED sizes
    BY <1>3 DEF ReadersNext, MakerStep, RenderStep, StatStep, PerlStep, allVars, statVars,
                Stat!StatStep, Stat!StartsAstray, Stat!Turn, Stat!TurnFaults, Stat!Advance,
                Stat!counts
  <2>2. CASE Begun
    <3>1. UNCHANGED vars
      BY <1>1, <2>2, FileStays DEF SizesInv, ReadersInv
    <3>2. UNCHANGED << file, table_size, uc, v >>
      BY <3>1, FileKept
    <3>. QED
      BY <1>1, <2>1, <2>2, <3>2 DEF SizesInv, SizesRight
  <2>3. CASE ~Begun
    BY <1>1, <2>1, <2>3 DEF SizesInv, Begun
  <2>. QED
    BY <2>2, <2>3
<1>. QED
  BY <1>2, <1>3

(* Every step keeps all of it. *)
LEMMA StatInvStep ==
  StatAlsoInv /\ Readable /\ Readable' /\ [ReadersNext]_allVars => StatAlsoInv'
<1> SUFFICES ASSUME StatAlsoInv, Readable, Readable', [ReadersNext]_allVars
             PROVE  StatAlsoInv'
  OBVIOUS
<1>1. ReadersInv /\ RecordsMet /\ StoreInv /\ ObjectInv
  BY DEF StatAlsoInv, ReadersInv
<1>2. ReadersInv'
  BY <1>1, ReadersInvStep
<1>3. RecordsMet'
  <2>1. [Next]_vars
    BY DEF ReadersNext, MakerStep, RenderStep, StatStep, PerlStep, allVars
  <2>2. StoreInv'
    BY <1>2 DEF ReadersInv
  <2>3. PointersFit /\ PointersFit'
    BY DEF Readable
  <2>. QED
    BY <1>1, <2>1, <2>2, <2>3, RecordsStayMet
<1>4. SizesInv' /\ (program' # "stat" => sizes' = << >>)
  BY <1>1, SizesStay DEF StatAlsoInv
<1>5. ASSUME program' = "stat", OnCourse' PROVE StatInv'
  <2>1. program = "stat"
    BY <1>5 DEF ReadersNext, MakerStep, RenderStep, StatStep, PerlStep, allVars
  <2>2. OnCourse
    BY <1>1, <1>5, OnceAstray DEF ReadersNext
  <2>3. StatInv /\ FileThere
    BY <1>1, <2>1, <2>2 DEF StatAlsoInv, ReadersInv, CourseInv
  <2>4. CASE MakerStep \/ UNCHANGED allVars
    BY <1>1, <2>2, <2>3, <2>4, MakerKeepsCounts
  <2>5. CASE StatStep
    <3>1. UNCHANGED vars
      BY <2>5 DEF StatStep
    <3>2. main # "start" => file.sections = Sections
      BY <1>1, <2>3, OpenedIsLeft DEF FileThere, Started
    <3>3. CASE Stat!Start
      BY <1>1, <1>5, <2>3, <3>1, <3>3, StatStarts
    <3>4. CASE Stat!Turn
      <4>1. main # "start"
        BY <3>4 DEF Stat!Turn
      <4>. QED
        BY <1>1, <2>3, <3>1, <3>2, <3>4, <4>1, StatTurns
    <3>5. CASE Stat!TurnFaults
      BY <2>3, <3>5, StatFaults
    <3>6. CASE Stat!Advance
      <4>1. main # "start"
        BY <3>6 DEF Stat!Advance
      <4>. QED
        BY <1>1, <2>3, <3>1, <3>2, <3>6, <4>1, StatGoesOn
    <3>7. ~Stat!StartsAstray
      BY <1>5 DEF Stat!StartsAstray, Stat!R!OpenNothing, OnCourse
    <3>. QED
      BY <2>5, <3>3, <3>4, <3>5, <3>6, <3>7 DEF StatStep, Stat!StatStep
  <2>. QED
    BY <2>1, <2>4, <2>5 DEF ReadersNext, RenderStep, PerlStep
<1>. QED
  BY <1>2, <1>3, <1>4, <1>5 DEF StatAlsoInv

LEMMA StatInvHolds == ReadersSpec /\ []Readable => []StatAlsoInv
  BY StatInvInit, StatInvStep, PTL DEF ReadersSpec, ReadersNext

(* The report of stat is right when it is done: it has counted every       *)
(* string of every row in its class, the bytes the rows render to, and     *)
(* every record of unique cells, for every content file and every set of   *)
(* rows; and below 4 GiB the sizes are those of the sections.              *)
THEOREM ReportIsRightHolds == ReadersSpec /\ []Readable => []ReportIsRight
<1>1. StatAlsoInv /\ Readable => ReportIsRight
  <2> SUFFICES ASSUME StatAlsoInv, Readable PROVE ReportIsRight
    OBVIOUS
  <2>1. StoreInv /\ RecordsMet
    BY DEF StatAlsoInv, ReadersInv
  <2>2. Counted => StatInv
    BY DEF StatAlsoInv, Counted, Begun, OnCourse
  <2>3. ASSUME Counted
        PROVE  /\ turns = num_rows
               /\ \A c \in Stat!Classes :
                    count[c] =
                      Cardinality({k \in DOMAIN Rendered : Stat!ClassOf(Rendered[k]) = c})
               /\ bytes = R!SizeOf(Rendered)
               /\ Cardinality(uniq_c_hash) =
                    IF answers = << >> THEN 1 ELSE Cardinality(DOMAIN uniq_cells_lookup)
    <3>1. Counting(Len(answers)) /\ uniq_c_hash = CellsOf(Len(answers)) \cup {0}
      BY <2>2, <2>3 DEF Counted, StatInv
    <3>2. Rendered = TextBefore(Len(answers)) /\ num_rows = Len(answers)
      BY <2>1, TextsAreRendered, RowsAreCounted
    <3>3. Tallied(Len(answers))
      BY <3>1 DEF Counting
    <3>4. turns = num_rows /\ bytes = R!SizeOf(Rendered)
      BY <3>2, <3>3 DEF Tallied
    <3>5. \A c \in Stat!Classes : count[c] = CountIn(Rendered, c)
      BY <3>2, <3>3 DEF Tallied
    <3>6. Cardinality(uniq_c_hash) =
            IF answers = << >> THEN 1 ELSE Cardinality(DOMAIN uniq_cells_lookup)
      BY <2>1, <3>1, CellsAreRecords
    <3>. QED
      BY <3>4, <3>5, <3>6 DEF CountIn
  <2>4. Begun => SizesRight
    BY DEF StatAlsoInv, SizesInv
  <2>. QED
    BY <2>3, <2>4 DEF ReportIsRight, SizesRight
<1>. QED
  BY <1>1, StatInvHolds, PTL

-----------------------------------------------------------------------------
(* The strings of all rows are those of each. *)
StringsIn(s) == {s[k] : k \in DOMAIN s}
RowStrings(j) == StringsIn(TextOf(j))

LEMMA StringsJoin ==
  ASSUME NEW S, NEW s \in Seq(S), NEW t \in Seq(S)
  PROVE  StringsIn(s \o t) = StringsIn(s) \cup StringsIn(t)
<1>1. PICK n \in Nat : n = Len(s) /\ DOMAIN s = 1 .. n
  BY LenProperties
<1>2. PICK m \in Nat : m = Len(t) /\ DOMAIN t = 1 .. m
  BY LenProperties
<1>3. PICK all : all = s \o t
  OBVIOUS
<1>4. /\ DOMAIN all = 1 .. n + m
      /\ \A k \in 1 .. n : all[k] = s[k]
      /\ \A k \in 1 .. m : all[n + k] = t[k]
  <2>1. all \in Seq(S) /\ Len(all) = n + m
    BY <1>1, <1>2, <1>3, JoinedParts
  <2>. QED
    BY <1>1, <1>2, <1>3, <2>1, JoinedParts, LenProperties
<1>5. ASSUME NEW k \in 1 .. n + m PROVE all[k] \in StringsIn(s) \cup StringsIn(t)
  <2>1. CASE k <= n
    <3>1. k \in 1 .. n
      BY <2>1
    <3>. QED
      BY <1>1, <1>4, <3>1 DEF StringsIn
  <2>2. CASE ~(k <= n)
    <3>1. k - n \in 1 .. m /\ n + (k - n) = k
      BY <2>2
    <3>. QED
      BY <1>2, <1>4, <3>1 DEF StringsIn
  <2>. QED
    BY <2>1, <2>2
<1>6. ASSUME NEW k \in 1 .. n PROVE s[k] \in StringsIn(all)
  <2>1. k \in 1 .. n + m
    OBVIOUS
  <2>. QED
    BY <1>4, <2>1 DEF StringsIn
<1>7. ASSUME NEW k \in 1 .. m PROVE t[k] \in StringsIn(all)
  <2>1. n + k \in 1 .. n + m
    OBVIOUS
  <2>. QED
    BY <1>4, <2>1 DEF StringsIn
<1>8. StringsIn(all) \subseteq StringsIn(s) \cup StringsIn(t)
  BY <1>4, <1>5 DEF StringsIn
<1>9. StringsIn(s) \subseteq StringsIn(all) /\ StringsIn(t) \subseteq StringsIn(all)
  BY <1>1, <1>2, <1>6, <1>7 DEF StringsIn
<1>. QED
  BY <1>3, <1>8, <1>9

LEMMA StringsOfRows ==
  ASSUME StoreInv, Readable
  PROVE  Texts = UNION {RowStrings(j) : j \in DOMAIN answers} /\ IsFiniteSet(Texts)
<1>1. PICK na \in Nat : na = Len(answers) /\ DOMAIN answers = 1 .. na
  BY TextsAreRendered
<1> DEFINE S == {n \in Nat : n <= na =>
                   StringsIn(TextBefore(n)) = UNION {RowStrings(j) : j \in 1 .. n}}
<1>3. 0 \in S
  <2>1. StringsIn(<< >>) = {} /\ 1 .. 0 = {}
    BY DEF StringsIn
  <2>. QED
    BY <2>1, TextsAreRendered
<1>4. ASSUME NEW n \in S \cap Nat PROVE n + 1 \in S
  <2> SUFFICES ASSUME n + 1 <= na
               PROVE  StringsIn(TextBefore(n + 1)) = UNION {RowStrings(j) : j \in 1 .. n + 1}
    OBVIOUS
  <2>1. n + 1 \in 1 .. na /\ n \in 0 .. na /\ n + 1 - 1 = n /\ n <= na
    OBVIOUS
  <2>2. TextBefore(n + 1) = TextBefore(n) \o TextOf(n + 1)
    <3>1. TextBefore(n + 1) = TextBefore(n + 1 - 1) \o TextOf(n + 1)
      BY <1>1, <2>1, TextsAreRendered
    <3>. QED
      BY <2>1, <3>1
  <2>3. TextBefore(n) \in Seq(Strings) /\ TextOf(n + 1) \in Seq(Strings)
    BY <1>1, <2>1, TextsAreRendered, TextIsRead
  <2>4. StringsIn(TextBefore(n + 1)) = StringsIn(TextBefore(n)) \cup StringsIn(TextOf(n + 1))
    <3>1. PICK before \in Seq(Strings) : before = TextBefore(n)
      BY <2>3
    <3>2. PICK text \in Seq(Strings) : text = TextOf(n + 1)
      BY <2>3
    <3>3. StringsIn(before \o text) = StringsIn(before) \cup StringsIn(text)
      BY StringsJoin
    <3>. QED
      BY <2>2, <3>1, <3>2, <3>3
  <2>5. StringsIn(TextOf(n + 1)) = RowStrings(n + 1)
    BY DEF RowStrings
  <2>6. StringsIn(TextBefore(n)) = UNION {RowStrings(j) : j \in 1 .. n}
    BY <2>1
  <2>7. 1 .. n + 1 = (1 .. n) \cup {n + 1}
    OBVIOUS
  <2>. QED
    BY <2>4, <2>5, <2>6, <2>7
<1> HIDE DEF S
<1>5. Nat \subseteq S
  BY <1>3, <1>4, AllNumbers
<1>6. StringsIn(TextBefore(na)) = UNION {RowStrings(j) : j \in 1 .. na}
  BY <1>5 DEF S
<1>7. Rendered = TextBefore(na)
  BY <1>1, TextsAreRendered
<1>8. Texts = StringsIn(Rendered)
  BY DEF Texts, StringsIn
<1>9. IsFiniteSet(Texts)
  <2>1. Rendered \in Seq(Strings)
    BY <1>1, <1>7, TextsAreRendered
  <2>2. PICK n \in Nat : DOMAIN Rendered = 1 .. n
    BY <2>1, LenProperties
  <2>3. IsFiniteSet(1 .. n)
    BY FS_Interval
  <2>4. \A t \in Texts : \E k \in 1 .. n : Rendered[k] = t
    BY <2>2 DEF Texts
  <2>. QED
    BY <2>2, <2>3, <2>4, Covered
<1>. QED
  BY <1>1, <1>6, <1>7, <1>8, <1>9

(* Where a string of a row lies: in its word, or in the table.             *)
LEMMA StringsLie ==
  ASSUME StoreInv, Readable, NEW w \in Nat, Resolve(table, w) \in Strings
  PROVE  \/ Resolve(table, w) \in Tiny
         \/ w - 1 \in DOMAIN table /\ Resolve(table, w) = table[w - 1]
<1>1. NoString \notin Strings
  BY FormatAssumption
<1>2. CASE IsInline(w)
  <2>1. Resolve(table, w) = TinyText(w - Half)
    BY <1>2 DEF Resolve
  <2>2. TinyText(w - Half) \in Tiny
    BY <1>1, <2>1 DEF TinyText
  <2>. QED
    BY <2>1, <2>2
<1>3. CASE ~IsInline(w)
  BY <1>1, <1>3 DEF Resolve
<1>. QED
  BY <1>2, <1>3

LEMMA WordsAreNumbers ==
  ASSUME StoreInv, NEW r, NEW k
  PROVE  CellWord(Sections, r, k) \in Nat
<1>1. TypeInv
  BY StoreParts
<1>2. uc \in Seq(Nat) /\ v \in Seq(Word) /\ Word \subseteq Nat
  <2>1. Word \subseteq Nat
    BY FormatAssumption DEF Word
  <2>. QED
    BY <1>1, <2>1 DEF TypeInv, SectionsOK
<1>3. \A x : WordAt(uc, x) \in Nat
  BY <1>2, LenProperties, ElementOfSeq DEF WordAt
<1>4. \A x : WordAt(v, x) \in Nat
  <2>1. \A x \in DOMAIN v : v[x] \in Word
    BY <1>2, LenProperties, ElementOfSeq
  <2>. QED
    BY <1>2, <2>1 DEF WordAt
<1>. QED
  BY <1>3, <1>4 DEF CellWord, UcCell, Sections

(* The strings of the table, and the different ones there are of those     *)
(* that fit a word, cover the ids: an id by address is that of a string in *)
(* the table, and an id by bytes that of one there or of one in its word.  *)
LEMMA IdsAreCovered ==
  ASSUME StoreInv, Readable
  PROVE  LET ids == IdsOf(Len(answers)) IN
         IsFiniteSet(ids) /\
         Cardinality(ids) <= Cardinality(DOMAIN table) + Cardinality(Texts \cap Tiny)
<1>1. PICK na \in Nat : na = Len(answers) /\ DOMAIN answers = 1 .. na
  BY TextsAreRendered
<1>2. DOMAIN table \subseteq Nat /\ IsFiniteSet(DOMAIN table)
  <2>1. /\ table_size \in Nat /\ DOMAIN table \subseteq Nat
        /\ \A p \in DOMAIN table : p < table_size
    <3>1. TypeInv /\ STP!RecordsInFile
      BY StoreParts DEF StoreInv, STP!IInv
    <3>. QED
      BY <3>1 DEF TypeInv, ST!TypeOK, STP!RecordsInFile
  <2>2. \A p \in DOMAIN table : p <= table_size
    BY <2>1
  <2>. QED
    BY <2>1, <2>2, FS_BoundedSetOfNaturals
<1>3. PICK tiny : tiny = Texts \cap Tiny
  OBVIOUS
<1>4. IsFiniteSet(tiny)
  <2>1. IsFiniteSet(Texts) /\ tiny \in SUBSET Texts
    BY <1>3, StringsOfRows
  <2>. QED
    BY <2>1, FS_Subset
<1>5. PICK f : f = [p \in DOMAIN table |-> << "table", p >>]
  OBVIOUS
<1>6. PICK g : g = [s \in tiny |-> << "word", s >>]
  OBVIOUS
<1>7. PICK A : A = {f[p] : p \in DOMAIN table}
  OBVIOUS
<1>8. PICK B : B = {g[s] : s \in tiny}
  OBVIOUS
<1>9. IsFiniteSet(A) /\ Cardinality(A) = Cardinality(DOMAIN table)
  <2>1. \A p, q \in DOMAIN table : f[p] = f[q] => p = q
    BY <1>5
  <2>2. DOMAIN f = DOMAIN table
    BY <1>5
  <2>. QED
    BY <1>2, <1>7, <2>1, <2>2, Matched
<1>10. IsFiniteSet(B) /\ Cardinality(B) = Cardinality(tiny)
  <2>1. \A s, t \in tiny : g[s] = g[t] => s = t
    BY <1>6
  <2>2. DOMAIN g = tiny
    BY <1>6
  <2>. QED
    BY <1>4, <1>8, <2>1, <2>2, Matched
<1>11. A \cap B = {}
  BY <1>5, <1>6, <1>7, <1>8
<1>12. /\ IsFiniteSet(A \cup B)
       /\ Cardinality(A \cup B) = Cardinality(DOMAIN table) + Cardinality(tiny)
  <2>1. /\ IsFiniteSet(A \cup B)
        /\ Cardinality(A \cup B) = Cardinality(A) + Cardinality(B)
    BY <1>9, <1>10, <1>11, BothCounted
  <2>. QED
    BY <1>9, <1>10, <2>1
<1>13. PICK idOf : idOf = [e \in A \cup B |->
                            IF e[1] = "table" THEN IdOf(table[e[2]], e[2] + 1)
                            ELSE IdOf(e[2], 0)]
  OBVIOUS
<1>14. ASSUME NEW x \in IdsOf(na) PROVE \E e \in A \cup B : idOf[e] = x
  <2>1. PICK j \in 1 .. na : x \in RowIds(j)
    BY <1>14 DEF IdsOf
  <2>2. PICK k \in DOMAIN TextOf(j) : x = IdAt(Pointed(answers[j]), k)
    BY <2>1 DEF RowIds
  <2>3. PICK w \in Nat : w = CellWord(Sections, Pointed(answers[j]), k)
    BY WordsAreNumbers
  <2>4. PICK s : s = Resolve(table, w)
    OBVIOUS
  <2>5. TextOf(j)[k] = s /\ s \in Strings
    <3>1. TextOf(j) \in Seq(Strings) /\ TextOf(j)[k] = s
      BY <1>1, <2>3, <2>4, TextIsRead
    <3>. QED
      BY <3>1, LenProperties, ElementOfSeq
  <2>6. x = IdOf(s, w)
    BY <2>2, <2>3, <2>4 DEF IdAt
  <2>7. s \in Texts
    <3>1. s \in RowStrings(j)
      BY <2>5 DEF RowStrings, StringsIn
    <3>. QED
      BY <1>1, <3>1, StringsOfRows
  <2>8. CASE s \in Tiny
    <3>1. << "word", s >> \in B
      BY <1>3, <1>6, <1>8, <2>7, <2>8
    <3>2. idOf[<< "word", s >>] = IdOf(s, 0)
      BY <1>13, <3>1
    <3>3. ~(LenOf[s] > 5)
      <4>1. LenOf[s] \in Nat /\ LenOf[s] < 5
        BY <2>8, FormatAssumption DEF Tiny, TinyMax
      <4>. QED
        BY <4>1
    <3>4. IdOf(s, 0) = IdOf(s, w)
      BY <3>3 DEF IdOf
    <3>. QED
      BY <2>6, <3>1, <3>2, <3>4
  <2>9. CASE s \notin Tiny
    <3>1. w - 1 \in DOMAIN table /\ s = table[w - 1]
      BY <2>4, <2>5, <2>9, StringsLie
    <3>2. << "table", w - 1 >> \in A
      BY <1>5, <1>7, <3>1
    <3>3. idOf[<< "table", w - 1 >>] = IdOf(table[w - 1], (w - 1) + 1)
      BY <1>13, <3>2
    <3>4. (w - 1) + 1 = w
      OBVIOUS
    <3>. QED
      BY <2>6, <3>1, <3>2, <3>3, <3>4
  <2>. QED
    BY <2>8, <2>9
<1>15. IsFiniteSet(IdsOf(na)) /\ Cardinality(IdsOf(na)) <= Cardinality(A \cup B)
  <2>1. DOMAIN idOf = A \cup B
    BY <1>13
  <2>. QED
    BY <1>12, <1>14, <2>1, Covered
<1>. QED
  BY <1>1, <1>3, <1>12, <1>15

(* Numbers below the width, moved by the same number, stay different when  *)
(* they are cut to the width.                                              *)
LEMMA SameRemainder ==
  ASSUME NEW m \in Nat \ {0}, NEW a \in Nat, NEW b \in Nat, NEW c \in Nat,
         a < m, b < m, (c + a) % m = (c + b) % m
  PROVE  a = b
<1>1. PICK x \in Int, y \in Int : x = c + a /\ y = c + b
  OBVIOUS
<1>2. x - y = m * ((x \div m) - (y \div m))
  BY <1>1
<1>3. PICK q \in Int : x - y = m * q
  <2>1. (x \div m) - (y \div m) \in Int
    BY <1>1
  <2>. QED
    BY <1>2, <2>1
<1>4. m * q < m /\ 0 - m < m * q
  BY <1>1, <1>3
<1>5. q = 0
  <2>1. ASSUME q >= 1 PROVE m * q >= m
    BY <2>1
  <2>2. ASSUME q <= 0 - 1 PROVE m * q <= 0 - m
    BY <2>2
  <2>. QED
    BY <1>4, <2>1, <2>2
<1>. QED
  BY <1>1, <1>3, <1>5

(* A record has its place in memory to itself: where its text begins no    *)
(* other text begins, below 4 GiB.                                         *)
LEMMA AddressesApart ==
  ASSUME StoreInv, Readable, NEW p \in DOMAIN table, NEW q \in DOMAIN table,
         Stat!AddressOf(table[p], p + 1) = Stat!AddressOf(table[q], q + 1)
  PROVE  p = q
<1>1. TypeInv /\ STP!RecordsApart /\ table_size <= Half
  BY StoreParts DEF StoreInv, STP!IInv, Readable, PointersFit
<1>2. \A s : STP!RecordSize(s) = RecordSize(s) /\ Stat!RecordSize(s) = RecordSize(s)
  BY DEF STP!RecordSize, STP!Short, Stat!RecordSize, Stat!Short, RecordSize, Short
<1>3. /\ DOMAIN table \subseteq Nat /\ table_size \in Nat
      /\ \A n \in DOMAIN table : table[n] \in Strings
  BY <1>1 DEF TypeInv, ST!TypeOK
<1>4. PICK m \in Nat \ {0} : m = 2 * Half /\ table_size < m
  <2>1. Half \in Nat \ {0}
    BY FormatAssumption
  <2>2. table_size < 2 * Half
    BY <1>1, <1>3, <2>1
  <2>. QED
    BY <2>1, <2>2
<1>5. PICK base \in Nat : base = Mapped
  BY ReadersAssumption, FormatAssumption DEF Word
<1> DEFINE place(n) == n + (RecordSize(table[n]) - LenOf[table[n]])
<1>6. ASSUME NEW n \in DOMAIN table
      PROVE  /\ n \in Nat /\ place(n) \in Nat /\ n < place(n)
             /\ place(n) <= n + RecordSize(table[n])
             /\ n + RecordSize(table[n]) <= table_size
             /\ place(n) < table_size \/ LenOf[table[n]] = 0
             /\ Stat!AddressOf(table[n], n + 1) = (base + place(n)) % m
  <2>1. PICK s \in Strings : s = table[n]
    BY <1>3
  <2>2. PICK len \in Nat : len = LenOf[s]
    BY FormatAssumption
  <2>3. PICK c \in {1, 4} : RecordSize(s) = len + c
    BY <2>2 DEF RecordSize
  <2>4. n \in Nat /\ place(n) = n + c
    BY <1>3, <2>1, <2>2, <2>3
  <2>5. n + (len + c) <= table_size
    BY <1>1, <1>2, <2>1, <2>3 DEF STP!RecordsApart
  <2>6. Stat!AddressOf(s, n + 1) = (base + (n + 1) - 1 + (len + c) - len) % m
    BY <1>2, <1>4, <1>5, <2>2, <2>3 DEF Stat!AddressOf
  <2>7. base + (n + 1) - 1 + (len + c) - len = base + (n + c)
    BY <2>4
  <2>8. RecordSize(table[n]) = len + c /\ LenOf[table[n]] = len
    BY <2>1, <2>2, <2>3
  <2>9. /\ n \in Nat /\ n + c \in Nat /\ n < n + c /\ n + c <= n + (len + c)
        /\ n + c < table_size \/ len = 0
    BY <1>3, <2>2, <2>4, <2>5
  <2>10. Stat!AddressOf(table[n], n + 1) = (base + (n + c)) % m
    BY <2>1, <2>6, <2>7
  <2>. QED
    BY <2>4, <2>5, <2>8, <2>9, <2>10
<1> HIDE DEF place
<1>7. ASSUME NEW x \in DOMAIN table, NEW y \in DOMAIN table, x < y PROVE place(x) < place(y)
  <2>1. x + RecordSize(table[x]) <= y
    BY <1>1, <1>2, <1>7 DEF STP!RecordsApart
  <2>2. RecordSize(table[x]) \in Nat
    BY <1>3, FormatAssumption DEF RecordSize
  <2>. QED
    BY <1>6, <2>1, <2>2
<1>8. place(p) = place(q)
  <2>1. \A a, b, c \in Nat :
          a <= table_size /\ b <= table_size /\ (c + a) % m = (c + b) % m => a = b
    <3>1. ASSUME NEW a \in Nat, NEW b \in Nat, NEW c \in Nat,
                 a <= table_size, b <= table_size, (c + a) % m = (c + b) % m
          PROVE  a = b
      <4>1. a < m /\ b < m
        BY <1>3, <1>4, <3>1
      <4>. QED
        BY <3>1, <4>1, SameRemainder
    <3>. QED
      BY <3>1
  <2>2. ASSUME NEW n \in DOMAIN table PROVE place(n) <= table_size
    <3>1. PICK r : r = RecordSize(table[n])
      OBVIOUS
    <3>2. r \in Nat
      BY <1>3, <3>1, FormatAssumption DEF RecordSize
    <3>. QED
      BY <1>3, <1>6, <3>1, <3>2
  <2>3. Stat!AddressOf(table[p], p + 1) = Stat!AddressOf(table[q], q + 1)
    OBVIOUS
  <2>4. (base + place(p)) % m = (base + place(q)) % m
    BY <1>6, <2>3
  <2>. QED
    BY <1>6, <2>1, <2>2, <2>4
<1>9. ~(p < q) /\ ~(q < p)
  BY <1>6, <1>7, <1>8
<1>. QED
  BY <1>6, <1>9

(* A string is told by an id when it is read through a word that has it.   *)
Told(t, x) == \E w \in Nat : t = Resolve(table, w) /\ x = IdOf(t, w)

(* No id tells two strings of the rows that are not confused.              *)
LEMMA ToldApart ==
  ASSUME StoreInv, Readable, NEW t \in Texts \ Confused, NEW u \in Texts \ Confused, NEW x,
         Told(t, x), Told(u, x)
  PROVE  t = u
<1>1. Texts \subseteq Strings
  <2>1. Rendered \in Seq(Strings)
    BY TextsAreRendered
  <2>. QED
    BY <2>1, LenProperties, ElementOfSeq DEF Texts
<1>2. ASSUME NEW s \in Texts \ Confused, ~(LenOf[s] > 5)
      PROVE  s \in Tiny /\ LenOf[s] <= 5
  BY <1>1, <1>2, FormatAssumption DEF Tiny, TinyMax, Confused
<1>3. ASSUME NEW s \in Texts \ Confused, Told(s, x), LenOf[s] > 5
      PROVE  \E p \in DOMAIN table : s = table[p] /\ x = Stat!AddressOf(s, p + 1)
  <2>1. PICK w \in Nat : s = Resolve(table, w) /\ x = IdOf(s, w)
    BY <1>3 DEF Told
  <2>2. s \notin Tiny
    BY <1>1, <1>3, FormatAssumption DEF Tiny, TinyMax
  <2>3. w - 1 \in DOMAIN table /\ s = table[w - 1]
    BY <1>1, <2>1, <2>2, StringsLie
  <2>4. (w - 1) + 1 = w
    OBVIOUS
  <2>5. x = Stat!AddressOf(s, w)
    BY <1>3, <2>1 DEF IdOf
  <2>. QED
    BY <2>3, <2>4, <2>5
<1>4. ASSUME NEW s \in Texts \ Confused, Told(s, x), ~(LenOf[s] > 5)
      PROVE  x = FirstFour[s]
  BY <1>4 DEF Told, IdOf
<1>5. ASSUME NEW a \in Texts \ Confused, NEW b \in Texts \ Confused,
             Told(a, x), Told(b, x), LenOf[a] > 5, ~(LenOf[b] > 5)
      PROVE  FALSE
  <2>1. PICK p \in DOMAIN table : a = table[p] /\ x = Stat!AddressOf(a, p + 1)
    BY <1>3, <1>5
  <2>2. LenOf[b] <= 5 /\ x = FirstFour[b]
    BY <1>2, <1>4, <1>5
  <2>. QED
    BY <1>5, <2>1, <2>2 DEF Confused
<1>6. CASE LenOf[t] > 5 /\ LenOf[u] > 5
  <2>1. PICK p \in DOMAIN table : t = table[p] /\ x = Stat!AddressOf(t, p + 1)
    BY <1>3, <1>6
  <2>2. PICK q \in DOMAIN table : u = table[q] /\ x = Stat!AddressOf(u, q + 1)
    BY <1>3, <1>6
  <2>. QED
    BY <2>1, <2>2, AddressesApart
<1>7. CASE ~(LenOf[t] > 5) /\ ~(LenOf[u] > 5)
  BY <1>2, <1>4, <1>7, ReadersAssumption
<1>. QED
  BY <1>5, <1>6, <1>7

(* The ids cover the strings that are not confused with others.            *)
LEMMA IdsCover ==
  ASSUME StoreInv, Readable, IsFiniteSet(IdsOf(Len(answers)))
  PROVE  Cardinality(Texts \ Confused) <= Cardinality(IdsOf(Len(answers)))
<1>1. PICK na \in Nat : na = Len(answers) /\ DOMAIN answers = 1 .. na
  BY TextsAreRendered
<1>2. PICK ids : ids = IdsOf(na)
  OBVIOUS
<1>3. PICK f : f = [x \in ids |-> CHOOSE t \in Texts \ Confused : Told(t, x)]
  OBVIOUS
<1>4. ASSUME NEW t \in Texts \ Confused PROVE \E x \in ids : f[x] = t
  <2>1. PICK j \in 1 .. na : t \in RowStrings(j)
    BY <1>1, StringsOfRows
  <2>2. PICK k \in DOMAIN TextOf(j) : t = TextOf(j)[k]
    BY <2>1 DEF RowStrings, StringsIn
  <2>3. PICK w \in Nat : w = CellWord(Sections, Pointed(answers[j]), k)
    BY WordsAreNumbers
  <2>4. t = Resolve(table, w)
    BY <1>1, <2>2, <2>3, TextIsRead
  <2>5. PICK x : x = IdOf(t, w)
    OBVIOUS
  <2>6. x \in ids
    <3>1. x = IdAt(Pointed(answers[j]), k)
      BY <2>3, <2>4, <2>5 DEF IdAt
    <3>2. x \in RowIds(j)
      BY <3>1 DEF RowIds
    <3>. QED
      BY <1>2, <3>2 DEF IdsOf
  <2>7. Told(t, x)
    BY <2>4, <2>5 DEF Told
  <2>8. \A u \in Texts \ Confused : Told(u, x) => u = t
    BY <2>7, ToldApart
  <2>9. f[x] = t
    BY <1>3, <2>6, <2>7, <2>8
  <2>. QED
    BY <2>6, <2>9
<1>5. DOMAIN f = ids
  BY <1>3
<1>. QED
  BY <1>1, <1>2, <1>4, <1>5, Covered

(* The unique strings are counted as often as there are ids: no less than  *)
(* there are strings that cannot be confused with others, by an address or *)
(* by their first bytes, and no more than the table and the words of the   *)
(* file have, wherever the file is mapped.                                 *)
THEOREM CountsUniqueHolds == ReadersSpec /\ []Readable => []CountsUnique
<1>1. StatAlsoInv /\ Readable => CountsUnique
  <2> SUFFICES ASSUME StatAlsoInv, Readable, Counted
               PROVE  /\ UniqueTotal >= Cardinality(Texts \ Confused)
                      /\ UniqueTotal <= Cardinality(DOMAIN table) + Cardinality(Texts \cap Tiny)
    BY DEF CountsUnique, UniqueTotal
  <2>1. StoreInv
    BY DEF StatAlsoInv, ReadersInv
  <2>2. StatInv
    BY DEF StatAlsoInv, Counted, Begun, OnCourse
  <2>3. IdsTallied(Len(answers))
    BY <2>2 DEF StatInv, Counted, Counting
  <2>4. PICK ids : ids = IdsOf(Len(answers))
    OBVIOUS
  <2>5. UniqueTotal = Cardinality(ids) /\ IsFiniteSet(ids)
    BY <2>3, <2>4 DEF IdsTallied
  <2>6. Cardinality(Texts \ Confused) <= Cardinality(ids)
    BY <2>1, <2>4, <2>5, IdsCover
  <2>7. Cardinality(ids) <= Cardinality(DOMAIN table) + Cardinality(Texts \cap Tiny)
    BY <2>1, <2>4, IdsAreCovered
  <2>8. Cardinality(ids) \in Nat /\ Cardinality(Texts \ Confused) \in Nat
    <3>1. IsFiniteSet(Texts)
      BY <2>1, StringsOfRows
    <3>2. Texts \ Confused \in SUBSET Texts
      OBVIOUS
    <3>3. IsFiniteSet(Texts \ Confused)
      BY <3>1, <3>2, FS_Subset
    <3>. QED
      BY <2>5, <3>3, FS_CardinalityType
  <2>. QED
    BY <2>5, <2>6, <2>7, <2>8
<1>. QED
  BY <1>1, StatInvHolds, PTL
=============================================================================
