--------------------------- MODULE FrfMakerProofs ---------------------------
(***************************************************************************)
(* The maker keeps its types, for every content file and every set of      *)
(* rows: it never works on a row, a content or a cell that is not there,   *)
(* and never gives a tag a slot that `results' cannot have.  Two tags      *)
(* never share a slot, and the header of a finished file is exact,         *)
(* whatever lookups the freed keys make miss.  The words of a row point    *)
(* into the string table or hold their strings, the records that rows      *)
(* share say what each of them has in the vectors, and stepping by them    *)
(* visits exactly the rows.  And the maker implements the store: below     *)
(* 2 GiB every row it adds stays in the file, where its offset leads, as   *)
(* the rendering of the row.                                               *)
(***************************************************************************)
EXTENDS FrfRendering, FiniteSetTheorems, SequenceTheorems, WellFoundedInduction, TLAPS

(* The types, part by part: the templates... *)
TemplatesOK ==
  /\ DOMAIN compiled \subseteq Contents
  /\ \A c \in DOMAIN compiled : compiled[c] \in Seq(Cell)
  /\ DOMAIN tag_lookup \subseteq Meaningful
  /\ \A k \in DOMAIN tag_lookup : tag_lookup[k] \in Cell
  /\ num_uniq_tags = Cardinality(DOMAIN tag_lookup)

(* ...the content being compiled... *)
CompilingOK ==
  /\ compiling \in Contents \cup {NoContent}
  /\ segment \in Nat \ {0}
  /\ cc_head \in Seq(Cell)

(* ...the slots and the stack of the row... *)
SlotsOK ==
  /\ stack \in Seq(Cell)
  /\ results \in [Slots -> Word]
  /\ capacity \in Nat
  /\ old_num_uniq_tags \in 0 .. num_uniq_tags

(* ...what the row has come to... *)
OutputOK == cells \in Seq(Word) /\ vector \in Seq(Word) /\ overrun \in BOOLEAN

(* ...the sections of unique cells and vectors... *)
SectionsOK ==
  /\ \A k \in DOMAIN uniq_cells_lookup : k \in Seq(Word) /\ uniq_cells_lookup[k] \in Word
  /\ uc \in Seq(Nat) /\ unique_cells_written \in Word
  /\ v \in Seq(Word) /\ vector_written \in Word
  /\ num_rows \in Word

(* ...and what the calls have returned. *)
AnswersOK ==
  answers \in Seq([offset : -Half .. Half - 1, row : Rows, overrun : BOOLEAN])

(* Where the maker is: a content is compiled for the body first and then   *)
(* for the row that needs it, and rows are added once there is a body.     *)
InARow == pc = "row" \/ (pc = "precompile" /\ compiling # content)
PlaceOK ==
  /\ pc \in {"precompile", "idle", "row", "finished", "crashed", "exited"}
  /\ content \in Bodies
  /\ pc = "precompile" => compiling \in Contents
  /\ InARow => p13n \in Rows
  /\ InARow \/ pc = "idle" => content \in DOMAIN compiled

TypeInv ==
  /\ ST!TypeOK /\ TemplatesOK /\ CompilingOK /\ SlotsOK
  /\ OutputOK /\ SectionsOK /\ AnswersOK /\ PlaceOK

-----------------------------------------------------------------------------
(* What fits 32 bits. *)
LEMMA WordType ==
  /\ Half \in Nat \ {0} /\ 0 \in Word /\ InVector \in Word
  /\ \A n \in Int : n % (2 * Half) \in Word
<1>1. Half \in Nat \ {0}
  BY FormatAssumption
<1>2. 2 * Half \in Nat /\ 2 * Half > 0
  BY <1>1
<1>3. \A n \in Int : n % (2 * Half) \in 0 .. 2 * Half - 1
  BY <1>2
<1>. QED
  BY <1>1, <1>2, <1>3 DEF Word, InVector

(* The format the table goes by is the one the maker goes by. *)
LEMMA SameFormat ==
  /\ ST!Word = Word /\ ST!Tiny = Tiny /\ ST!Short = Short
  /\ \A s : ST!RecordSize(s) = RecordSize(s) /\ ST!TinyWord(s) = TinyWord(s)
<1>1. ST!Tiny = Tiny
  BY DEF ST!Tiny, Tiny, ST!TinyMax, TinyMax
<1>2. ST!Short = Short
  BY DEF ST!Short, Short
<1>3. ST!Word = Word
  BY DEF ST!Word, Word
<1>4. \A s : ST!RecordSize(s) = RecordSize(s)
  BY <1>2 DEF ST!RecordSize, RecordSize
<1>5. \A s : ST!TinyWord(s) = TinyWord(s)
  BY DEF ST!TinyWord, TinyWord
<1>. QED
  BY <1>1, <1>2, <1>3, <1>4, <1>5

(* Whatever string is asked for, its pointer is a word. *)
LEMMA PointerType ==
  ASSUME ST!TypeOK, NEW s \in Strings
  PROVE  ST!Pointer(s) \in Word
<1>1. CASE s \in Tiny
  BY <1>1, FormatAssumption, SameFormat DEF ST!Pointer, TinyWord, Word
<1>2. CASE s \notin Tiny
  BY <1>2, FormatAssumption, SameFormat DEF ST!Pointer, ST!LookupNow, ST!NoEntry, ST!TypeOK
<1>. QED
  BY <1>1, <1>2

(* The string table keeps its types as the maker uses it. *)
LEMMA TableKeepsTypes ==
  ASSUME ST!TypeOK, NEW s \in Strings, ST!AddString(s)
  PROVE  ST!TypeOK'
<1>1. issued' \subseteq [str : Strings, word : Word]
  BY PointerType, SameFormat DEF ST!AddString, ST!Issue, ST!TypeOK
<1>2. RecordSize(s) \in Nat
  BY FormatAssumption DEF RecordSize
<1>3. \A n \in Int : n % (2 * Half) \in Word
  BY WordType
<1>4. /\ DOMAIN ST!LookupNow \subseteq Short
      /\ \A t \in DOMAIN ST!LookupNow : ST!LookupNow[t] \in Word
  BY SameFormat DEF ST!LookupNow, ST!NoEntry, ST!TypeOK
<1>5. CASE UNCHANGED << table, table_size, string_table_written, strings_lookup, str_used,
                        reset_at >>
  BY <1>1, <1>5, SameFormat DEF ST!TypeOK
<1>6. ASSUME ST!WriteRecord(s)
      PROVE  /\ table_size' \in Nat /\ DOMAIN table' \subseteq Nat
             /\ \A p \in DOMAIN table' : table'[p] \in Strings
             /\ string_table_written' \in Word
  <2>1. string_table_written + RecordSize(s) \in Int
    BY <1>2, WordType, SameFormat DEF ST!TypeOK, ST!Word, Word
  <2>2. string_table_written' \in Word
    BY <1>3, <1>6, <2>1, SameFormat DEF ST!WriteRecord, ST!CounterAfter
  <2>. QED
    BY <1>2, <1>6, <2>2, SameFormat DEF ST!WriteRecord, ST!Put, ST!TypeOK
<1>7. ASSUME ST!ResetMark PROVE reset_at' \in Nat
  BY <1>7 DEF ST!ResetMark, ST!TypeOK
<1>8. CASE ST!AddShort(s)
  <2>1. str_used' \in Nat
    BY <1>8, MakerAssumption DEF ST!AddShort, ST!TypeOK
  <2>2. /\ DOMAIN strings_lookup' \subseteq Short
        /\ \A t \in DOMAIN strings_lookup' : strings_lookup'[t] \in Word
    BY <1>4, <1>8, WordType, SameFormat DEF ST!AddShort, ST!Put, ST!TypeOK
  <2>. QED
    BY <1>1, <1>6, <1>7, <1>8, <2>1, <2>2, SameFormat DEF ST!AddShort, ST!TypeOK
<1>9. CASE ST!AddLong(s)
  <2>1. str_used' \in Nat
    BY <1>9 DEF ST!AddLong, ST!TypeOK
  <2>. QED
    BY <1>1, <1>4, <1>6, <1>7, <1>9, <2>1, SameFormat DEF ST!AddLong, ST!TypeOK
<1>. QED
  BY <1>5, <1>8, <1>9
     DEF ST!AddString, ST!AddTiny, ST!AddKnown, ST!tableVars, ST!lookupVars

-----------------------------------------------------------------------------
(* What a cell of each type holds. *)
LEMMA CellParts ==
  ASSUME NEW c \in Cell
  PROVE  /\ c.type \in {"static", "p13n", "dc", "dt"}
         /\ c.type = "static" => c.offset \in Word
         /\ c.type = "p13n" => c.p13n \in {FieldOf[k] : k \in DOMAIN FieldOf}
         /\ c.type = "dc" => c.dc \in DOMAIN Dc
         /\ c.type = "dt" => c.exp \in DtKeys
         /\ c.type \in {"p13n", "dt"} => c.value_index \in Slots
  BY DEF Cell

(* The tags are the keys of a finite set, so that they can be counted. *)
LEMMA TagsCounted ==
  ASSUME TemplatesOK
  PROVE  IsFiniteSet(DOMAIN tag_lookup) /\ num_uniq_tags \in Nat
<1>1. IsFiniteSet(Keys) /\ DOMAIN tag_lookup \in SUBSET Keys
  BY TemplateAssumption DEF TemplatesOK, Meaningful
<1>2. IsFiniteSet(DOMAIN tag_lookup)
  BY <1>1, FS_Subset
<1>. QED
  BY <1>2, FS_CardinalityType DEF TemplatesOK

(* There is a slot left for a tag that is not known yet. *)
LEMMA SlotLeft ==
  ASSUME TemplatesOK, NEW key \in Meaningful \ DOMAIN tag_lookup
  PROVE  /\ num_uniq_tags \in Slots
         /\ Cardinality(DOMAIN tag_lookup \cup {key}) = num_uniq_tags + 1
<1>1. Meaningful \subseteq Keys
  BY TemplateAssumption DEF Meaningful
<1>2. /\ IsFiniteSet(Keys)
      /\ DOMAIN tag_lookup \in SUBSET Keys
      /\ DOMAIN tag_lookup \cup {key} \in SUBSET Keys
  BY <1>1, TemplateAssumption DEF TemplatesOK
<1>3. IsFiniteSet(DOMAIN tag_lookup)
  BY TagsCounted
<1>4. Cardinality(DOMAIN tag_lookup \cup {key}) = Cardinality(DOMAIN tag_lookup) + 1
  BY <1>3, FS_AddElement
<1>5. Cardinality(DOMAIN tag_lookup \cup {key}) <= Cardinality(Keys)
  BY <1>2, FS_Subset
<1>6. Cardinality(Keys) \in Nat /\ Cardinality(DOMAIN tag_lookup) \in Nat
  BY <1>2, <1>3, FS_CardinalityType
<1>. QED
  BY <1>4, <1>5, <1>6 DEF TemplatesOK, Slots

(* The cell of a new tag is a cell. *)
LEMMA NewCellType ==
  ASSUME TemplatesOK, NEW key \in Meaningful \ DOMAIN tag_lookup
  PROVE  \A cell \in NewCells(key) : cell \in Cell /\ cell.type # "static"
<1>1. num_uniq_tags \in Slots
  BY SlotLeft
<1>. QED
  BY <1>1 DEF NewCells, P13nCell, DcCell, DtCell, Cell, Meaningful

(* The cell of a text is a cell. *)
LEMMA StaticCellType ==
  ASSUME NEW w \in Word
  PROVE  StaticCell(w) \in Cell
  BY DEF StaticCell, Cell

(* A row gives every tag a string, or a call of transforms refuses. *)
LEMMA ValueType ==
  ASSUME NEW c \in Cell, c.type \in {"p13n", "dt"}, p13n \in Rows
  PROVE  ValueOf(c) \in Strings \cup {NoValue}
<1>1. CASE c.type = "p13n"
  BY <1>1, CellParts, TemplateAssumption DEF ValueOf
<1>2. CASE c.type = "dt"
  BY <1>2, CellParts, TemplateAssumption DEF ValueOf
<1>. QED
  BY <1>1, <1>2

(* What a piece of dynamic content comes to is a content, never a body. *)
LEMMA AlternativeType ==
  ASSUME NEW c \in Cell, c.type = "dc", p13n \in Rows
  PROVE  Alternative(c.dc, p13n) \in Contents \ Bodies
  BY CellParts, TemplateAssumption DEF Alternative

(* The segment at hand is a text or a tag. *)
LEMMA SegmentType ==
  ASSUME PlaceOK, CompilingOK, pc = "precompile", segment <= Len(SegmentsOf[compiling])
  PROVE  /\ Segment.kind = "text" => Segment.str \in Strings
         /\ Segment.kind = "tag" => Segment.key \in Keys
<1> DEFINE kinds == {Text(s) : s \in {t \in Strings : LenOf[t] > 0}} \cup {Tag(k) : k \in Keys}
<1>1. SegmentsOf[compiling] \in Seq(kinds)
  BY TemplateAssumption DEF PlaceOK
<1>2. segment \in 1 .. Len(SegmentsOf[compiling])
  BY <1>1 DEF CompilingOK
<1>3. Segment \in kinds
  <2> HIDE DEF kinds
  <2>. QED BY <1>1, <1>2, ElementOfSeq DEF Segment
<1>. QED
  BY <1>3 DEF Text, Tag

-----------------------------------------------------------------------------
(* Everything is empty at first. *)
LEMMA TypeInit == Init => TypeInv
<1> SUFFICES ASSUME Init PROVE TypeInv
  OBVIOUS
<1> USE DEF Init
<1>1. ST!TypeOK
  <2>1. 1 \in Word /\ 0 \in Word
    BY WordType DEF Word
  <2>. QED
    BY <2>1, SameFormat DEF ST!TypeOK, ST!Init, ST!NoEntry
<1>2. Cardinality({}) = 0
  BY FS_EmptySet
<1>3. 0 \in Word
  BY WordType
<1>4. TemplatesOK
  BY <1>2 DEF TemplatesOK, ST!NoEntry
<1>5. /\ << >> \in Seq(Cell) /\ << >> \in Seq(Word) /\ << >> \in Seq(Nat)
      /\ << >> \in Seq([offset : -Half .. Half - 1, row : Rows, overrun : BOOLEAN])
  BY EmptySeq
<1>6. CompilingOK
  <2>1. content \in Contents
    BY TemplateAssumption
  <2>2. /\ compiling = content /\ segment = 1 /\ cc_head = << >>
    OBVIOUS
  <2>. QED
    BY ONLY <1>5, <2>1, <2>2 DEF CompilingOK
<1>7. PlaceOK
  BY TemplateAssumption DEF PlaceOK, InARow
<1>8. SlotsOK
  BY <1>3, <1>5 DEF SlotsOK
<1>9. OutputOK /\ AnswersOK
  BY <1>5 DEF OutputOK, AnswersOK
<1>10. SectionsOK
  BY <1>3, <1>5 DEF SectionsOK, ST!NoEntry
<1>. QED
  BY <1>1, <1>4, <1>6, <1>7, <1>8, <1>9, <1>10 DEF TypeInv

(* The table is left alone by most steps. *)
LEMMA TableUnchanged ==
  ST!TypeOK /\ UNCHANGED tableVars => ST!TypeOK'
  BY DEF ST!TypeOK, tableVars

(* Compiling a segment leaves the row and the sections alone. *)
LEMMA AtSegmentKeeps ==
  ASSUME TypeInv, NEW kind, AtSegment(kind)
  PROVE  /\ OutputOK' /\ SectionsOK' /\ AnswersOK' /\ segment' \in Nat \ {0}
         /\ UNCHANGED << stack, results, capacity, old_num_uniq_tags, pc, compiled,
                         compiling, p13n >>
  BY DEF AtSegment, TypeInv, rowVars, slotVars, outputVars, fileVars,
         OutputOK, SectionsOK, AnswersOK, CompilingOK

(* A text goes to the string table, and its cell holds a word. *)
LEMMA TextKeepsTypes ==
  ASSUME TypeInv, PrecompileText, UNCHANGED content PROVE TypeInv'
<1> USE DEF PrecompileText
<1>1. Segment.str \in Strings
  BY SegmentType DEF AtSegment, TypeInv
<1>2. ST!TypeOK'
  BY <1>1, TableKeepsTypes DEF TypeInv
<1>3. cc_head' \in Seq(Cell)
  <2>1. ST!Pointer(Segment.str) \in Word
    BY <1>1, PointerType DEF TypeInv
  <2>. QED
    BY <2>1, StaticCellType, AppendProperties DEF TypeInv, CompilingOK
<1>4. /\ OutputOK' /\ SectionsOK' /\ AnswersOK' /\ segment' \in Nat \ {0}
      /\ UNCHANGED << stack, results, capacity, old_num_uniq_tags, pc, compiled,
                      compiling, p13n >>
  BY AtSegmentKeeps
<1>5. TemplatesOK' /\ CompilingOK'
  BY <1>3, <1>4 DEF TypeInv, TemplatesOK, CompilingOK
<1>6. SlotsOK' /\ PlaceOK'
  BY <1>4 DEF TypeInv, SlotsOK, PlaceOK, InARow
<1>. QED
  BY <1>2, <1>4, <1>5, <1>6 DEF TypeInv

(* A tag that is known gives the cell it has. *)
LEMMA KnownTagKeepsTypes ==
  ASSUME TypeInv, PrecompileKnownTag, UNCHANGED content PROVE TypeInv'
<1> USE DEF PrecompileKnownTag
<1>1. ST!TypeOK'
  BY TableUnchanged DEF TypeInv
<1>2. cc_head' \in Seq(Cell)
  BY AppendProperties DEF TypeInv, TemplatesOK, CompilingOK
<1>3. /\ OutputOK' /\ SectionsOK' /\ AnswersOK' /\ segment' \in Nat \ {0}
      /\ UNCHANGED << stack, results, capacity, old_num_uniq_tags, pc, compiled,
                      compiling, p13n >>
  BY AtSegmentKeeps
<1>4. TemplatesOK' /\ CompilingOK'
  BY <1>2, <1>3 DEF TypeInv, TemplatesOK, CompilingOK
<1>5. SlotsOK' /\ PlaceOK'
  BY <1>3 DEF TypeInv, SlotsOK, PlaceOK, InARow
<1>. QED
  BY <1>1, <1>3, <1>4, <1>5 DEF TypeInv

(* A new tag is counted with the tags that are known. *)
LEMMA NewTagKeepsTypes ==
  ASSUME TypeInv, PrecompileNewTag, UNCHANGED content PROVE TypeInv'
<1> DEFINE key == KeyOf(Segment.key)
<1>1. /\ AtSegment("tag") /\ key \in Meaningful \ DOMAIN tag_lookup
      /\ num_uniq_tags' = num_uniq_tags + 1 /\ UNCHANGED tableVars
  BY DEF PrecompileNewTag, TagsAfter
<1>0. PICK cell \in NewCells(key) :
        cc_head' = Append(cc_head, cell) /\ tag_lookup' = ST!Put(tag_lookup, key, cell)
  BY DEF PrecompileNewTag
<1> HIDE DEF key
<1>2. ST!TypeOK'
  BY <1>1, TableUnchanged DEF TypeInv
<1>3. cell \in Cell
  BY <1>1, NewCellType DEF TypeInv
<1>4. /\ OutputOK' /\ SectionsOK' /\ AnswersOK' /\ segment' \in Nat \ {0}
      /\ UNCHANGED << stack, results, capacity, old_num_uniq_tags, pc, compiled,
                      compiling, p13n >>
  BY <1>1, AtSegmentKeeps
<1>5. CompilingOK'
  <2>1. cc_head' \in Seq(Cell)
    BY <1>0, <1>3, AppendProperties DEF TypeInv, CompilingOK
  <2>. QED
    BY <1>4, <2>1 DEF TypeInv, CompilingOK
<1>6. TemplatesOK' /\ num_uniq_tags \in Nat
  <2>1. DOMAIN tag_lookup' = DOMAIN tag_lookup \cup {key}
    BY <1>0 DEF ST!Put
  <2>2. num_uniq_tags \in Slots /\ Cardinality(DOMAIN tag_lookup') = num_uniq_tags'
    BY <1>1, <2>1, SlotLeft DEF TypeInv
  <2>3. \A k \in DOMAIN tag_lookup' : tag_lookup'[k] \in Cell
    BY <1>0, <1>3 DEF ST!Put, TypeInv, TemplatesOK
  <2>4. num_uniq_tags \in Nat
    BY <2>2 DEF Slots
  <2>. QED
    BY <1>1, <1>4, <2>1, <2>2, <2>3, <2>4 DEF TypeInv, TemplatesOK
<1>7. SlotsOK' /\ PlaceOK'
  BY <1>1, <1>4, <1>6 DEF TypeInv, SlotsOK, PlaceOK, InARow
<1>. QED
  BY <1>2, <1>4, <1>5, <1>6, <1>7 DEF TypeInv

(* A tag that means nothing leaves no cell. *)
LEMMA UnknownTagKeepsTypes ==
  ASSUME TypeInv, PrecompileUnknownTag, UNCHANGED content PROVE TypeInv'
<1> USE DEF PrecompileUnknownTag
<1>1. ST!TypeOK'
  BY TableUnchanged DEF TypeInv
<1>2. /\ OutputOK' /\ SectionsOK' /\ AnswersOK' /\ segment' \in Nat \ {0}
      /\ UNCHANGED << stack, results, capacity, old_num_uniq_tags, pc, compiled,
                      compiling, p13n >>
  BY AtSegmentKeeps
<1>3. TemplatesOK' /\ CompilingOK'
  BY <1>2 DEF TypeInv, TemplatesOK, CompilingOK
<1>4. SlotsOK' /\ PlaceOK'
  BY <1>2 DEF TypeInv, SlotsOK, PlaceOK, InARow
<1>. QED
  BY <1>1, <1>2, <1>3, <1>4 DEF TypeInv

(* Most steps compile nothing new. *)
LEMMA TemplatesUnchanged ==
  TemplatesOK /\ UNCHANGED templateVars => TemplatesOK' /\ UNCHANGED num_uniq_tags
  BY DEF TemplatesOK, templateVars

(* Most steps are not at a content. *)
LEMMA CompilingUnchanged ==
  CompilingOK /\ UNCHANGED compileVars => CompilingOK' /\ UNCHANGED compiling
  BY DEF CompilingOK, compileVars

(* Most steps leave the file alone. *)
LEMMA FileUnchanged ==
  SectionsOK /\ AnswersOK /\ UNCHANGED fileVars => SectionsOK' /\ AnswersOK'
  BY DEF SectionsOK, AnswersOK, fileVars

(* A step off the row leaves its parts alone. *)
LEMMA RowUnchanged ==
  SlotsOK /\ OutputOK /\ UNCHANGED << rowVars, num_uniq_tags >> =>
    SlotsOK' /\ OutputOK' /\ UNCHANGED p13n
  BY DEF SlotsOK, OutputOK, rowVars, slotVars, outputVars

(* The cells of a content are kept under it. *)
LEMMA EndKeepsTypes ==
  ASSUME TypeInv, PrecompileEnd, UNCHANGED content PROVE TypeInv'
<1> USE DEF PrecompileEnd
<1>1. ST!TypeOK'
  BY TableUnchanged DEF TypeInv
<1>2. SlotsOK' /\ OutputOK' /\ UNCHANGED p13n
  BY RowUnchanged DEF TypeInv
<1>3. SectionsOK' /\ AnswersOK'
  BY FileUnchanged DEF TypeInv
<1>4. compiling \in Contents /\ DOMAIN compiled' = DOMAIN compiled \cup {compiling}
  BY DEF TypeInv, PlaceOK, ST!Put
<1>5. TemplatesOK'
  <2>1. DOMAIN compiled' \subseteq Contents
    BY <1>4 DEF TypeInv, TemplatesOK
  <2>2. \A c \in DOMAIN compiled' : compiled'[c] \in Seq(Cell)
    BY DEF TypeInv, TemplatesOK, CompilingOK, ST!Put
  <2>. QED
    BY <2>1, <2>2 DEF TypeInv, TemplatesOK
<1>6. CompilingOK'
  BY EmptySeq DEF CompilingOK
<1>7. PlaceOK'
  BY <1>2, <1>4 DEF TypeInv, PlaceOK, InARow
<1>. QED
  BY <1>1, <1>2, <1>3, <1>5, <1>6, <1>7 DEF TypeInv

(* A row begins with the cells of the body, which is compiled by then. *)
LEMMA BeginKeepsTypes ==
  ASSUME TypeInv, NEW p \in Rows, BeginAdd(p), UNCHANGED content PROVE TypeInv'
<1> USE DEF BeginAdd
<1>1. ST!TypeOK' /\ TemplatesOK' /\ CompilingOK' /\ SectionsOK' /\ AnswersOK'
  BY TableUnchanged, TemplatesUnchanged, CompilingUnchanged, FileUnchanged DEF TypeInv
<1>2. num_uniq_tags \in Nat
  BY TagsCounted DEF TypeInv
<1>3. SlotsOK'
  <2>1. stack' \in Seq(Cell)
    BY DEF TypeInv, TemplatesOK, PlaceOK
  <2>2. results' \in [Slots -> Word]
    BY WordType DEF FreshResults
  <2>3. capacity' \in Nat
    BY <1>2 DEF Capacity
  <2>4. num_uniq_tags' = num_uniq_tags
    BY DEF templateVars
  <2>5. old_num_uniq_tags' \in 0 .. num_uniq_tags'
    BY <1>2, <2>4
  <2>. QED
    BY <2>1, <2>2, <2>3, <2>5 DEF SlotsOK
<1>4. OutputOK'
  BY EmptySeq DEF OutputOK
<1>5. PlaceOK'
  BY DEF TypeInv, PlaceOK, InARow, templateVars
<1>. QED
  BY <1>1, <1>3, <1>4, <1>5 DEF TypeInv

(* The cell at hand. *)
LEMMA HeadType ==
  ASSUME TypeInv, NEW types, AtCell(types)
  PROVE  /\ Head(stack) \in Cell /\ Tail(stack) \in Seq(Cell)
         /\ p13n \in Rows /\ Head(stack).type \in types
  BY HeadTailProperties DEF AtCell, TypeInv, SlotsOK, PlaceOK, InARow

(* An alternative is compiled for the row that needs it. *)
LEMMA CompileKeepsTypes ==
  ASSUME TypeInv, CompileDc, UNCHANGED content PROVE TypeInv'
<1> USE DEF CompileDc
<1>1. ST!TypeOK' /\ TemplatesOK' /\ SectionsOK' /\ AnswersOK'
  BY TableUnchanged, TemplatesUnchanged, FileUnchanged DEF TypeInv
<1>2. SlotsOK' /\ OutputOK' /\ UNCHANGED p13n
  BY RowUnchanged DEF TypeInv, templateVars
<1>3. compiling' \in Contents \ Bodies /\ p13n \in Rows
  <2>1. Head(stack) \in Cell /\ p13n \in Rows /\ Head(stack).type \in {"dc"}
    BY HeadType
  <2>. QED
    BY <2>1, AlternativeType
<1>4. CompilingOK'
  BY <1>3 DEF TypeInv, CompilingOK
<1>5. PlaceOK'
  BY <1>2, <1>3 DEF TypeInv, PlaceOK, InARow, AtCell, templateVars
<1>. QED
  BY <1>1, <1>2, <1>4, <1>5 DEF TypeInv

(* What a store behind `results' leaves of the row are still words. *)
LEMMA SpilledType ==
  ASSUME NEW row \in Seq(Word), NEW r \in Spilled(row)
  PROVE  r \in Seq(Word)
<1>1. CASE row = << >>
  BY <1>1 DEF Spilled
<1>2. CASE row # << >>
  <2>1. 1 \in 1 .. Len(row)
    BY <1>2
  <2>2. row[1] \in Word
    BY <2>1, ElementOfSeq
  <2>3. {row[1], InVector} \cup Garbage \subseteq Word
    BY <2>2, MakerAssumption, WordType
  <2>4. \E w \in Word : r = [row EXCEPT ![1] = w]
    BY <1>2, <2>3 DEF Spilled
  <2>. QED
    BY <2>1, <2>4, ExceptSeq
<1>. QED
  BY <1>1, <1>2

(* What such a store leaves of an alternative are still cells. *)
LEMMA SpilledStackType ==
  ASSUME NEW e \in Seq(Cell), e # << >>, NEW s \in SpilledStack(e)
  PROVE  s \in Seq(Cell)
<1>1. 1 \in 1 .. Len(e)
  OBVIOUS
<1>2. \A w \in Garbage : StaticCell(w) \in Cell
  BY MakerAssumption, StaticCellType
<1>3. s = e \/ \E c \in Cell : s = [e EXCEPT ![1] = c]
  BY <1>2 DEF SpilledStack
<1>. QED
  BY <1>1, <1>3, ExceptSeq

(* The cells of the alternative take the place of the one for it. *)
LEMMA SpliceKeepsTypes ==
  ASSUME TypeInv, SpliceDc, UNCHANGED content PROVE TypeInv'
<1> DEFINE expansion == compiled[Alternative(Head(stack).dc, p13n)]
<1> USE DEF SpliceDc
<1>1. ST!TypeOK' /\ TemplatesOK' /\ CompilingOK' /\ SectionsOK' /\ AnswersOK'
  BY TableUnchanged, TemplatesUnchanged, CompilingUnchanged, FileUnchanged DEF TypeInv
<1>2. expansion \in Seq(Cell) /\ expansion # << >>
  BY DEF TypeInv, TemplatesOK
<1>3. Tail(stack) \in Seq(Cell)
  BY HeadType
<1>4. stack' \in Seq(Cell)
  <2>1. \E e \in Seq(Cell) : stack' = e \o Tail(stack)
    <3>1. \A e \in SpilledStack(expansion) : e \in Seq(Cell)
      BY <1>2, SpilledStackType
    <3>2. CASE ClearsBehind
      BY <1>2, <3>1, <3>2
    <3>3. CASE ~ClearsBehind
      BY <1>2, <3>3
    <3>. QED
      BY <3>2, <3>3
  <2>. QED
    BY <1>3, <2>1, ConcatProperties
<1>5. num_uniq_tags \in Nat /\ num_uniq_tags' = num_uniq_tags
  BY TagsCounted DEF TypeInv, templateVars
<1>6. SlotsOK'
  <2>1. results' \in [Slots -> Word]
    BY WordType DEF TypeInv, SlotsOK, Cleared
  <2>. QED
    BY <1>4, <1>5, <2>1 DEF TypeInv, SlotsOK
<1>7. OutputOK'
  <2>1. cells' \in Seq(Word)
    BY SpilledType DEF TypeInv, OutputOK
  <2>. QED
    BY <2>1 DEF TypeInv, OutputOK
<1>8. PlaceOK'
  BY DEF TypeInv, PlaceOK, InARow, compileVars, templateVars
<1>. QED
  BY <1>1, <1>6, <1>7, <1>8 DEF TypeInv

(* A maker that is gone leaves everything as it is. *)
LEMMA CrashKeepsTypes ==
  ASSUME TypeInv, UNCHANGED content,
         SpliceNothing \/ EmitNull \/ PrecompileExits \/ OverrunCrashes
  PROVE  TypeInv'
<1>1. /\ UNCHANGED << tableVars, templateVars, compileVars, p13n, stack, slotVars, cells,
                      vector, fileVars >>
      /\ pc' \in {"crashed", "exited"} /\ overrun' \in {overrun, TRUE}
  BY DEF SpliceNothing, EmitNull, PrecompileExits, OverrunCrashes, rowVars, outputVars
<1>2. ST!TypeOK' /\ TemplatesOK' /\ CompilingOK' /\ SectionsOK' /\ AnswersOK'
  BY <1>1, TableUnchanged, TemplatesUnchanged, CompilingUnchanged, FileUnchanged DEF TypeInv
<1>3. SlotsOK' /\ OutputOK'
  BY <1>1 DEF TypeInv, SlotsOK, OutputOK, templateVars, slotVars
<1>4. PlaceOK'
  BY <1>1 DEF TypeInv, PlaceOK, InARow
<1>. QED
  BY <1>2, <1>3, <1>4 DEF TypeInv

(* A word that goes to the row goes there as a word. *)
LEMMA EmittedType ==
  ASSUME OutputOK, NEW w \in Word
  PROVE  EmittedCells(w) \in Seq(Word) /\ EmittedVector(w) \in Seq(Word)
<1>1. (IF Head(stack).type = "static" THEN w ELSE InVector) \in Word
  BY WordType
<1>. QED
  BY <1>1, AppendProperties DEF OutputOK, EmittedCells, EmittedVector

(* Where the maker is does not change as it works off the stack. *)
LEMMA PlaceUnchanged ==
  PlaceOK /\ UNCHANGED << pc, content, templateVars, compileVars, p13n >> => PlaceOK'
  BY DEF PlaceOK, InARow, templateVars, compileVars

(* A static cell holds the word it is emitted as. *)
LEMMA StaticKeepsTypes ==
  ASSUME TypeInv, EmitStatic, UNCHANGED content PROVE TypeInv'
<1> USE DEF EmitStatic
<1>1. ST!TypeOK' /\ TemplatesOK' /\ CompilingOK' /\ SectionsOK' /\ AnswersOK' /\ PlaceOK'
  BY TableUnchanged, TemplatesUnchanged, CompilingUnchanged, FileUnchanged, PlaceUnchanged
     DEF TypeInv
<1>2. /\ Head(stack) \in Cell /\ Tail(stack) \in Seq(Cell)
      /\ Head(stack).type = "static"
  BY HeadType
<1>3. Head(stack).offset \in Word
  BY <1>2, CellParts
<1>4. OutputOK'
  <2>1. cells' \in Seq(Word) /\ vector' \in Seq(Word)
    BY <1>3, EmittedType DEF TypeInv, Emit
  <2>. QED
    BY <2>1 DEF TypeInv, OutputOK
<1>5. SlotsOK'
  BY <1>2 DEF TypeInv, SlotsOK, slotVars, templateVars
<1>. QED
  BY <1>1, <1>4, <1>5 DEF TypeInv

(* A tag of the row that was done holds its word in its slot. *)
LEMMA KnownKeepsTypes ==
  ASSUME TypeInv, EmitKnown, UNCHANGED content PROVE TypeInv'
<1> USE DEF EmitKnown
<1>1. ST!TypeOK' /\ TemplatesOK' /\ CompilingOK' /\ SectionsOK' /\ AnswersOK' /\ PlaceOK'
  BY TableUnchanged, TemplatesUnchanged, CompilingUnchanged, FileUnchanged, PlaceUnchanged
     DEF TypeInv
<1>2. /\ Head(stack) \in Cell /\ Tail(stack) \in Seq(Cell)
      /\ Head(stack).type \in {"p13n", "dt"}
  BY HeadType
<1>3. results[Head(stack).value_index] \in Word
  BY <1>2, CellParts DEF TypeInv, SlotsOK
<1>4. OutputOK'
  <2>1. cells' \in Seq(Word) /\ vector' \in Seq(Word)
    BY <1>3, EmittedType DEF TypeInv, Emit
  <2>. QED
    BY <2>1 DEF TypeInv, OutputOK
<1>5. SlotsOK'
  BY <1>2 DEF TypeInv, SlotsOK, slotVars, templateVars
<1>. QED
  BY <1>1, <1>4, <1>5 DEF TypeInv

(* The pointer of a value goes to its slot as well. *)
LEMMA ValueKeepsTypes ==
  ASSUME TypeInv, EmitValue, UNCHANGED content PROVE TypeInv'
<1> DEFINE cell == Head(stack)
           word == ST!Pointer(ValueOf(cell))
<1> USE DEF EmitValue
<1>1. TemplatesOK' /\ CompilingOK' /\ SectionsOK' /\ AnswersOK' /\ PlaceOK'
  BY TemplatesUnchanged, CompilingUnchanged, FileUnchanged, PlaceUnchanged DEF TypeInv
<1>2. /\ cell \in Cell /\ Tail(stack) \in Seq(Cell) /\ p13n \in Rows
      /\ cell.type \in {"p13n", "dt"}
  BY HeadType
<1>3. ValueOf(cell) \in Strings
  BY <1>2, ValueType
<1>4. ST!TypeOK'
  BY <1>3, TableKeepsTypes DEF TypeInv
<1>5. word \in Word
  BY <1>3, PointerType DEF TypeInv
<1>6. SlotsOK'
  <2>1. cell.value_index \in Slots
    BY <1>2, CellParts
  <2>2. results' \in [Slots -> Word]
    BY <1>5, <2>1 DEF TypeInv, SlotsOK
  <2>. QED
    BY <1>2, <2>2 DEF TypeInv, SlotsOK, templateVars
<1>7. OutputOK'
  <2>1. EmittedCells(word) \in Seq(Word) /\ EmittedVector(word) \in Seq(Word)
    BY <1>5, EmittedType DEF TypeInv
  <2>2. \A c \in Spilled(EmittedCells(word)) : c \in Seq(Word)
    BY <2>1, SpilledType
  <2>3. CASE cell.value_index >= capacity
    BY <2>1, <2>2, <2>3 DEF TypeInv, OutputOK
  <2>4. CASE ~(cell.value_index >= capacity)
    BY <2>1, <2>4 DEF TypeInv, OutputOK, Emit
  <2>. QED
    BY <2>3, <2>4
<1>. QED
  BY <1>1, <1>4, <1>6, <1>7 DEF TypeInv

(* A counter that is added to stays a word. *)
LEMMA Add32Type ==
  ASSUME NEW w \in Word, NEW n \in Int
  PROVE  Add32(w, n) \in Word
<1>1. w + n \in Int
  BY WordType DEF Word
<1>. QED
  BY <1>1, WordType DEF Add32

(* Read as an int it lies between the limits of one. *)
LEMMA AsIntType ==
  ASSUME NEW w \in Word
  PROVE  AsInt(w) \in -Half .. Half - 1
  BY WordType DEF Word, AsInt

(* The row goes to the sections, and its offset to the caller. *)
LEMMA FinishRowKeepsTypes ==
  ASSUME TypeInv, FinishRow, UNCHANGED content PROVE TypeInv'
<1> USE DEF FinishRow
<1>1. ST!TypeOK' /\ TemplatesOK' /\ CompilingOK'
  BY TableUnchanged, TemplatesUnchanged, CompilingUnchanged DEF TypeInv
<1>2. SlotsOK' /\ OutputOK' /\ UNCHANGED p13n
  BY RowUnchanged DEF TypeInv, templateVars
<1>3. cells \in Seq(Word) /\ vector \in Seq(Word) /\ overrun \in BOOLEAN /\ p13n \in Rows
  BY DEF TypeInv, OutputOK, PlaceOK, InARow
<1>4. Len(cells) \in Nat /\ Len(vector) \in Nat
  BY <1>3
<1>5. UniqOffset \in Word
  BY DEF TypeInv, SectionsOK, UniqOffset, UniqKnown
<1>6. uc' \in Seq(Nat) /\ unique_cells_written' \in Word
  <2>1. Word \subseteq Nat
    BY WordType DEF Word
  <2>2. cells \in Seq(Nat)
    BY <1>3, <2>1, SeqMonotonic
  <2>3. << Len(cells), Len(vector) >> \in Seq(Nat)
    BY <1>4
  <2>4. UcAdded \in Seq(Nat)
    BY <2>2, <2>3, ConcatProperties DEF UcAdded
  <2>5. uc \in Seq(Nat) /\ unique_cells_written \in Word
    BY DEF TypeInv, SectionsOK
  <2>6. uc \o UcAdded \in Seq(Nat) /\ 4 * Len(UcAdded) \in Int
    BY <2>4, <2>5, ConcatProperties
  <2>7. Add32(unique_cells_written, 4 * Len(UcAdded)) \in Word
    BY <2>5, <2>6, Add32Type
  <2>. QED
    BY <2>5, <2>6, <2>7
<1>7. v' \in Seq(Word) /\ vector_written' \in Word
  <2>1. v \in Seq(Word) /\ vector_written \in Word
    BY DEF TypeInv, SectionsOK
  <2>2. << UniqOffset >> \in Seq(Word)
    BY <1>5
  <2>3. v \o << UniqOffset >> \in Seq(Word)
    BY <2>1, <2>2, ConcatProperties
  <2>4. v \o << UniqOffset >> \o vector \in Seq(Word)
    BY <1>3, <2>3, ConcatProperties
  <2>5. 4 * (Len(vector) + 1) \in Int
    BY <1>4
  <2>. QED
    BY <2>1, <2>4, <2>5, Add32Type
<1>8. num_rows' \in Word
  BY Add32Type DEF TypeInv, SectionsOK
<1>9. \A k \in DOMAIN uniq_cells_lookup' : k \in Seq(Word) /\ uniq_cells_lookup'[k] \in Word
  BY <1>3, <1>5 DEF TypeInv, SectionsOK, ST!Put
<1>10. AnswersOK'
  <2> DEFINE answer == [offset |-> AsInt(vector_written), row |-> p13n, overrun |-> overrun]
             Answer == [offset : -Half .. Half - 1, row : Rows, overrun : BOOLEAN]
  <2>1. AsInt(vector_written) \in -Half .. Half - 1
    BY AsIntType DEF TypeInv, SectionsOK
  <2>2. answer \in Answer
    BY <1>3, <2>1
  <2>3. answers \in Seq(Answer)
    BY DEF TypeInv, AnswersOK
  <2>4. answers' = Append(answers, answer)
    OBVIOUS
  <2> HIDE DEF answer, Answer
  <2>5. answers' \in Seq(Answer)
    BY <2>2, <2>3, <2>4, AppendProperties
  <2>. QED
    BY <2>5 DEF AnswersOK, Answer
<1>11. SectionsOK'
  BY <1>6, <1>7, <1>8, <1>9 DEF SectionsOK
<1>12. PlaceOK'
  BY <1>2 DEF TypeInv, PlaceOK, InARow, templateVars, compileVars
<1>. QED
  BY <1>1, <1>2, <1>10, <1>11, <1>12 DEF TypeInv

(* A file that is finished, or nothing at all, changes no type. *)
LEMMA FinishKeepsTypes ==
  ASSUME TypeInv, Finish \/ UNCHANGED vars, UNCHANGED content PROVE TypeInv'
<1>1. UNCHANGED << tableVars, templateVars, compileVars, rowVars, fileVars >>
  BY DEF Finish, vars
<1>2. ST!TypeOK' /\ TemplatesOK' /\ CompilingOK' /\ SectionsOK' /\ AnswersOK'
  BY <1>1, TableUnchanged, TemplatesUnchanged, CompilingUnchanged, FileUnchanged DEF TypeInv
<1>3. SlotsOK' /\ OutputOK' /\ UNCHANGED p13n
  BY <1>1, RowUnchanged DEF TypeInv, templateVars
<1>4. PlaceOK'
  BY <1>1, <1>3 DEF TypeInv, PlaceOK, InARow, Finish, vars, templateVars, compileVars
<1>. QED
  BY <1>2, <1>3, <1>4 DEF TypeInv

(* Every step keeps the types. *)
LEMMA NextKeepsTypes == TypeInv /\ [Next]_vars => TypeInv'
<1> SUFFICES ASSUME TypeInv, [Next]_vars PROVE TypeInv'
  OBVIOUS
<1>1. UNCHANGED content
  BY DEF Next, Step, Stopped, vars
<1>2. CASE PrecompileText \/ PrecompileKnownTag \/ PrecompileNewTag \/ PrecompileUnknownTag
             \/ PrecompileEnd
  BY <1>1, <1>2, TextKeepsTypes, KnownTagKeepsTypes, NewTagKeepsTypes, UnknownTagKeepsTypes,
     EndKeepsTypes
<1>3. CASE CompileDc \/ SpliceDc \/ SpliceNothing \/ PrecompileExits \/ OverrunCrashes
  BY <1>1, <1>3, CompileKeepsTypes, SpliceKeepsTypes, CrashKeepsTypes
<1>4. CASE EmitStatic \/ EmitKnown \/ EmitValue \/ EmitNull \/ FinishRow
  BY <1>1, <1>4, StaticKeepsTypes, KnownKeepsTypes, ValueKeepsTypes, CrashKeepsTypes,
     FinishRowKeepsTypes
<1>5. CASE \E p \in Rows : BeginAdd(p)
  BY <1>1, <1>5, BeginKeepsTypes
<1>6. CASE Finish \/ UNCHANGED vars
  BY <1>1, <1>6, FinishKeepsTypes
<1>. QED
  BY <1>2, <1>3, <1>4, <1>5, <1>6 DEF Next, Step, Stopped

(* The maker keeps its types: every cell that frf_maker_add takes off its  *)
(* stack is one, the row it works for is there, and the number of every    *)
(* slot is below the number of keys (which is not to say that `results'    *)
(* has room for it: see AssertIndexHolds).                                 *)
THEOREM MakerTypeCorrect == Spec => []TypeOK
<1>1. TypeInv => TypeOK
  BY DEF TypeInv, TypeOK, TemplatesOK, CompilingOK, SlotsOK, OutputOK, SectionsOK,
         AnswersOK, PlaceOK, InARow
<1>. QED
  BY <1>1, TypeInit, NextKeepsTypes, PTL DEF Spec

-----------------------------------------------------------------------------
(* The slots given out lie below the counter, so the next one is new. *)
SlotsCounted ==
  /\ num_uniq_tags \in Nat
  /\ \A k \in DOMAIN tag_lookup : tag_lookup[k].value_index \in 0 .. num_uniq_tags - 1

SlotsInv == SlotsCounted /\ SlotsDistinct

(* The cell of a key takes the next slot, whatever the key means. *)
LEMMA NewCellSlot ==
  ASSUME NEW key
  PROVE  \A cell \in NewCells(key) : cell.value_index = num_uniq_tags
  BY DEF NewCells, P13nCell, DcCell, DtCell

(* No tag is known at first. *)
LEMMA SlotsInit == Init => SlotsInv
  BY DEF Init, SlotsInv, SlotsCounted, SlotsDistinct, ST!NoEntry

(* A new tag is the one thing that gives out a slot. *)
LEMMA NewTagKeepsSlots == SlotsInv /\ PrecompileNewTag => SlotsInv'
<1> SUFFICES ASSUME SlotsInv, PrecompileNewTag PROVE SlotsInv'
  OBVIOUS
<1> DEFINE key == KeyOf(Segment.key)
<1>1. /\ key \notin DOMAIN tag_lookup
      /\ \E c \in NewCells(key) : tag_lookup' = ST!Put(tag_lookup, key, c)
      /\ num_uniq_tags' = num_uniq_tags + 1
  BY DEF PrecompileNewTag, TagsAfter
<1>0. PICK cell \in NewCells(key) : tag_lookup' = ST!Put(tag_lookup, key, cell)
  BY <1>1
<1>2. cell.value_index = num_uniq_tags
  BY NewCellSlot
<1> HIDE DEF key
<1>3. /\ DOMAIN tag_lookup' = DOMAIN tag_lookup \cup {key}
      /\ tag_lookup'[key].value_index = num_uniq_tags
      /\ \A l \in DOMAIN tag_lookup : tag_lookup'[l] = tag_lookup[l]
  BY <1>0, <1>1, <1>2 DEF ST!Put
<1>4. SlotsCounted'
  BY <1>1, <1>3 DEF SlotsInv, SlotsCounted
<1>5. SlotsDistinct'
  BY <1>3 DEF SlotsInv, SlotsCounted, SlotsDistinct
<1>. QED
  BY <1>4, <1>5 DEF SlotsInv

(* Every other step leaves the tags alone. *)
LEMMA TagsLeftAlone ==
  [Next]_vars => PrecompileNewTag \/ UNCHANGED << tag_lookup, num_uniq_tags >>
<1> SUFFICES ASSUME [Next]_vars, ~PrecompileNewTag
             PROVE  UNCHANGED << tag_lookup, num_uniq_tags >>
  OBVIOUS
<1>1. CASE PrecompileText \/ PrecompileKnownTag \/ PrecompileUnknownTag \/ PrecompileEnd
  BY <1>1 DEF PrecompileText, PrecompileKnownTag, PrecompileUnknownTag, PrecompileEnd
<1>2. CASE CompileDc \/ SpliceDc \/ SpliceNothing \/ PrecompileExits \/ OverrunCrashes
  BY <1>2 DEF CompileDc, SpliceDc, SpliceNothing, PrecompileExits, OverrunCrashes, templateVars
<1>3. CASE EmitStatic \/ EmitKnown \/ EmitValue \/ EmitNull \/ FinishRow
  BY <1>3 DEF EmitStatic, EmitKnown, EmitValue, EmitNull, FinishRow, templateVars
<1>4. CASE Finish \/ \E p \in Rows : BeginAdd(p)
  BY <1>4 DEF Finish, BeginAdd, templateVars
<1>5. CASE UNCHANGED vars
  BY <1>5 DEF vars, templateVars
<1>. QED
  BY <1>1, <1>2, <1>3, <1>4, <1>5 DEF Next, Step, Stopped

(* Of a template's tags no two share a slot of `results', as                *)
(* frf_maker_precompile numbers them.                                      *)
THEOREM SlotsDistinctHolds == Spec => []SlotsDistinct
<1>1. SlotsInv /\ [Next]_vars => SlotsInv'
  <2>1. SlotsInv /\ UNCHANGED << tag_lookup, num_uniq_tags >> => SlotsInv'
    BY DEF SlotsInv, SlotsCounted, SlotsDistinct
  <2>. QED
    BY <2>1, NewTagKeepsSlots, TagsLeftAlone
<1>2. SlotsInv => SlotsDistinct
  BY DEF SlotsInv
<1>. QED
  BY <1>1, <1>2, SlotsInit, PTL DEF Spec

-----------------------------------------------------------------------------
(* Each 32-bit counter is what it counts, as long as that fits.            *)
TableCounted ==
  table_size + 1 < 2 * Half => string_table_written = table_size + 1
UcCounted ==
  4 * Len(uc) < 2 * Half => unique_cells_written = 4 * Len(uc)
RowsCounted ==
  Len(answers) < 2 * Half => num_rows = Len(answers)

(* A whole file was put together from what there still is. *)
FileIsLast ==
  file.state = "whole" =>
    pc = "finished" /\ file.header = HeaderWords /\ file.sections = Sections

HeaderInv == TableCounted /\ UcCounted /\ RowsCounted /\ FileIsLast

(* Nothing is counted at first, and there is no file. *)
LEMMA HeaderInit == Init => HeaderInv
<1> SUFFICES ASSUME Init PROVE HeaderInv
  OBVIOUS
<1>1. /\ table_size = 0 /\ string_table_written = 1 /\ uc = << >> /\ answers = << >>
      /\ unique_cells_written = 0 /\ num_rows = 0 /\ file.state = "absent"
  BY DEF Init, ST!Init, NoFile
<1>. QED
  BY <1>1 DEF HeaderInv, TableCounted, UcCounted, RowsCounted, FileIsLast

(* A sum that fits is not cut off. *)
LEMMA SumFits ==
  ASSUME NEW c \in Nat, NEW n \in Nat, c + n < 2 * Half
  PROVE  (c + n) % (2 * Half) = c + n
<1> DEFINE m == 2 * Half
<1>1. m \in Nat \ {0} /\ c + n \in Nat /\ c + n < m
  BY WordType
<1> HIDE DEF m
<1>2. \A a \in Nat : a < m => a % m = a
  BY <1>1
<1>3. (c + n) % m = c + n
  BY <1>1, <1>2
<1>. QED
  BY <1>3 DEF m

(* The table's counter keeps up with the table. *)
LEMMA TableStaysCounted ==
  ASSUME ST!TypeOK, TableCounted, NEW s \in Strings, ST!AddString(s)
  PROVE  TableCounted'
<1>1. RecordSize(s) \in Nat /\ table_size \in Nat /\ Half \in Nat
  BY FormatAssumption DEF RecordSize, ST!TypeOK
<1>2. CASE UNCHANGED << table_size, string_table_written >>
  BY <1>2 DEF TableCounted
<1>3. CASE ST!WriteRecord(s)
  <2>1. /\ table_size' = table_size + RecordSize(s)
        /\ string_table_written' = (string_table_written + RecordSize(s)) % (2 * Half)
    BY <1>3, SameFormat DEF ST!WriteRecord, ST!CounterAfter
  <2>2. SUFFICES ASSUME table_size' + 1 < 2 * Half
                 PROVE  string_table_written' = table_size' + 1
    BY DEF TableCounted
  <2>3. table_size + 1 < 2 * Half /\ (table_size + 1) + RecordSize(s) < 2 * Half
    BY <1>1, <2>1, <2>2
  <2>4. string_table_written = table_size + 1
    BY <2>3 DEF TableCounted
  <2>. QED
    BY <1>1, <2>1, <2>3, <2>4, SumFits
<1>. QED
  BY <1>2, <1>3 DEF ST!AddString, ST!AddTiny, ST!AddKnown, ST!AddShort, ST!AddLong,
                    ST!tableVars

(* The other two keep up with the rows. *)
LEMMA RowsStayCounted ==
  ASSUME TypeInv, UcCounted, RowsCounted, FinishRow
  PROVE  UcCounted' /\ RowsCounted'
<1>1. uc \in Seq(Nat) /\ cells \in Seq(Word) /\ Len(uc) \in Nat /\ Half \in Nat
  BY FormatAssumption DEF TypeInv, SectionsOK, OutputOK
<1>2. RowsCounted'
  <2>1. num_rows' = (num_rows + 1) % (2 * Half) /\ Len(answers') = Len(answers) + 1
        /\ Len(answers) \in Nat
    BY DEF FinishRow, Add32, TypeInv, AnswersOK
  <2>2. SUFFICES ASSUME Len(answers') < 2 * Half PROVE num_rows' = Len(answers')
    BY DEF RowsCounted
  <2>3. num_rows = Len(answers)
    BY <1>1, <2>1, <2>2 DEF RowsCounted
  <2>. QED
    BY <2>1, <2>2, <2>3, SumFits
<1>3. UcCounted'
  <2>1. CASE UniqKnown
    BY <2>1 DEF FinishRow, UcCounted
  <2>2. CASE ~UniqKnown
    <3> DEFINE more == Len(UcAdded)
    <3>1. more \in Nat /\ Len(uc \o UcAdded) = Len(uc) + more
      BY <1>1 DEF UcAdded
    <3>2. /\ uc' = uc \o UcAdded
          /\ unique_cells_written' = (unique_cells_written + 4 * more) % (2 * Half)
      BY <2>2 DEF FinishRow, Add32
    <3> HIDE DEF more
    <3>3. SUFFICES ASSUME 4 * Len(uc') < 2 * Half
                   PROVE  unique_cells_written' = 4 * Len(uc')
      BY DEF UcCounted
    <3>4. /\ 4 * Len(uc) < 2 * Half /\ 4 * Len(uc) \in Nat /\ 4 * more \in Nat
          /\ 4 * Len(uc) + 4 * more < 2 * Half /\ 4 * Len(uc') = 4 * Len(uc) + 4 * more
      <4>1. Len(uc') = Len(uc) + more /\ Len(uc) \in Nat /\ more \in Nat /\ Half \in Nat
        BY <1>1, <3>1, <3>2
      <4>. QED
        BY <3>3, <4>1
    <3>5. unique_cells_written = 4 * Len(uc)
      BY <3>4 DEF UcCounted
    <3>. QED
      BY <3>2, <3>4, <3>5, SumFits
  <2>. QED
    BY <2>1, <2>2
<1>. QED
  BY <1>2, <1>3

(* A step before the end writes no file, and counts what it adds. *)
LEMMA StepKeepsHeader ==
  ASSUME TypeInv, HeaderInv, Step \/ \E p \in Rows : BeginAdd(p)
  PROVE  HeaderInv'
<1>1. FileIsLast'
  <2>1. pc # "finished" /\ UNCHANGED file
    <3>1. CASE PrecompileText \/ PrecompileKnownTag \/ PrecompileNewTag
                 \/ PrecompileUnknownTag \/ PrecompileEnd
      BY <3>1 DEF PrecompileText, PrecompileKnownTag, PrecompileNewTag, PrecompileUnknownTag,
                  PrecompileEnd, AtSegment
    <3>2. CASE CompileDc \/ SpliceDc \/ SpliceNothing \/ PrecompileExits \/ OverrunCrashes
      BY <3>2 DEF CompileDc, SpliceDc, SpliceNothing, PrecompileExits, OverrunCrashes, AtCell
    <3>3. CASE EmitStatic \/ EmitKnown \/ EmitValue \/ EmitNull \/ FinishRow
      BY <3>3 DEF EmitStatic, EmitKnown, EmitValue, EmitNull, FinishRow, AtCell
    <3>4. CASE \E p \in Rows : BeginAdd(p)
      BY <3>4 DEF BeginAdd
    <3>. QED
      BY <3>1, <3>2, <3>3, <3>4 DEF Step
  <2>. QED
    BY <2>1 DEF HeaderInv, FileIsLast
<1>2. CASE PrecompileText
  <2>1. Segment.str \in Strings
    BY <1>2, SegmentType DEF PrecompileText, AtSegment, TypeInv
  <2>2. TableCounted'
    BY <1>2, <2>1, TableStaysCounted DEF PrecompileText, TypeInv, HeaderInv
  <2>. QED
    BY <1>1, <1>2, <2>2
       DEF PrecompileText, AtSegment, fileVars, HeaderInv, UcCounted, RowsCounted
<1>3. CASE EmitValue
  <2>1. /\ Head(stack) \in Cell /\ p13n \in Rows /\ Head(stack).type \in {"p13n", "dt"}
    BY <1>3, HeadType DEF EmitValue
  <2>2. ValueOf(Head(stack)) \in Strings
    BY <1>3, <2>1, ValueType DEF EmitValue
  <2>3. TableCounted'
    BY <1>3, <2>2, TableStaysCounted DEF EmitValue, TypeInv, HeaderInv
  <2>. QED
    BY <1>1, <1>3, <2>3 DEF EmitValue, fileVars, HeaderInv, UcCounted, RowsCounted
<1>4. CASE FinishRow
  <2>1. UNCHANGED << table_size, string_table_written >>
    BY <1>4 DEF FinishRow, tableVars
  <2>. QED
    BY <1>1, <1>4, <2>1, RowsStayCounted DEF HeaderInv, TableCounted
<1>5. CASE UNCHANGED << tableVars, fileVars >>
  BY <1>1, <1>5 DEF HeaderInv, TableCounted, UcCounted, RowsCounted, tableVars, fileVars
<1>6. PrecompileText \/ EmitValue \/ FinishRow \/ UNCHANGED << tableVars, fileVars >>
  <2>1. CASE PrecompileKnownTag \/ PrecompileNewTag \/ PrecompileUnknownTag \/ PrecompileEnd
    BY <2>1 DEF PrecompileKnownTag, PrecompileNewTag, PrecompileUnknownTag, PrecompileEnd,
                AtSegment
  <2>2. CASE \/ CompileDc \/ SpliceDc \/ SpliceNothing \/ EmitStatic \/ EmitKnown \/ EmitNull
             \/ PrecompileExits \/ OverrunCrashes
    BY <2>2 DEF CompileDc, SpliceDc, SpliceNothing, EmitStatic, EmitKnown, EmitNull,
                PrecompileExits, OverrunCrashes
  <2>3. CASE \E p \in Rows : BeginAdd(p)
    BY <2>3 DEF BeginAdd
  <2>. QED
    BY <2>1, <2>2, <2>3 DEF Step
<1>. QED
  BY <1>2, <1>3, <1>4, <1>5, <1>6

(* frf_maker_finish writes the header of what there is. *)
LEMMA FinishKeepsHeader ==
  ASSUME HeaderInv, Finish
  PROVE  HeaderInv'
<1>1. UNCHANGED << table, table_size, string_table_written, uc, unique_cells_written, v,
                   num_rows, answers >>
  BY DEF Finish, tableVars, fileVars
<1>2. HeaderWords' = HeaderWords /\ Sections' = Sections
  BY <1>1 DEF HeaderWords, Sections, Add32
<1>3. FileIsLast'
  BY <1>2 DEF Finish, FileIsLast, Torn
<1>. QED
  BY <1>1, <1>3 DEF HeaderInv, TableCounted, UcCounted, RowsCounted

(* A counter that counts right gives the place the section begins at. *)
LEMMA HeaderFollows == TypeInv /\ HeaderInv => HeaderExact
<1> SUFFICES ASSUME TypeInv, HeaderInv, file.state = "whole"
             PROVE  LET uc_at == 16 + table_size
                        v_at == uc_at + 4 * Len(file.sections.uc) IN
                    /\ Len(answers) < 2 * Half => file.header.rows = Len(answers)
                    /\ v_at < 2 * Half =>
                         file.header.st = 16 /\ file.header.uc = uc_at /\ file.header.v = v_at
  BY DEF HeaderExact
<1>1. file.header = HeaderWords
  BY DEF HeaderInv, FileIsLast
<1>2. Len(answers) < 2 * Half => file.header.rows = Len(answers)
  BY <1>1 DEF HeaderInv, RowsCounted, HeaderWords
<1>3. ASSUME 16 + table_size + 4 * Len(uc) < 2 * Half
      PROVE  /\ file.header.st = 16 /\ file.header.uc = 16 + table_size
             /\ file.header.v = 16 + table_size + 4 * Len(uc)
  <2>1. table_size \in Nat /\ Len(uc) \in Nat /\ Half \in Nat
    BY FormatAssumption DEF TypeInv, ST!TypeOK, SectionsOK
  <2>2. string_table_written = table_size + 1 /\ unique_cells_written = 4 * Len(uc)
    BY <1>3, <2>1 DEF HeaderInv, TableCounted, UcCounted
  <2>3. /\ string_table_written - 1 = table_size
        /\ string_table_written - 1 + unique_cells_written = table_size + 4 * Len(uc)
    BY <2>1, <2>2
  <2>4. /\ file.header.st = 16
        /\ file.header.uc = (16 + table_size) % (2 * Half)
        /\ file.header.v = (16 + (table_size + 4 * Len(uc))) % (2 * Half)
    BY <1>1, <2>3 DEF HeaderWords, Add32
  <2>5. (16 + table_size) % (2 * Half) = 16 + table_size
    BY <1>3, <2>1, SumFits
  <2>6. (16 + (table_size + 4 * Len(uc))) % (2 * Half) = 16 + (table_size + 4 * Len(uc))
    <3>1. /\ table_size + 4 * Len(uc) \in Nat
          /\ 16 + (table_size + 4 * Len(uc)) < 2 * Half
      BY <1>3, <2>1
    <3>. QED
      BY <3>1, SumFits
  <2>. QED
    BY <2>1, <2>4, <2>5, <2>6
<1>4. file.sections.uc = uc
  BY DEF HeaderInv, FileIsLast, Sections
<1>. QED
  BY <1>2, <1>3, <1>4

(* The header frf_maker_finish writes points at the sections that follow   *)
(* it and counts the rows, whenever they fit 32 bits.                      *)
THEOREM HeaderExactHolds == Spec => []HeaderExact
<1>1. TypeInv /\ HeaderInv /\ [Next]_vars => HeaderInv'
  <2> SUFFICES ASSUME TypeInv, HeaderInv, [Next]_vars PROVE HeaderInv'
    OBVIOUS
  <2>1. CASE UNCHANGED vars
    BY <2>1 DEF vars, tableVars, fileVars, HeaderInv, TableCounted, UcCounted, RowsCounted,
                FileIsLast, HeaderWords, Sections, Add32
  <2>. QED
    BY <2>1, StepKeepsHeader, FinishKeepsHeader DEF Next, Stopped
<1>. QED
  BY <1>1, TypeInit, NextKeepsTypes, HeaderInit, HeaderFollows, PTL DEF Spec

-----------------------------------------------------------------------------
(* A word the maker may store when the table's counter is at n: it is not  *)
(* the mark for the vector, and ASSERT_INDEX holds of it.                  *)
Sound(w, n) == w \in Word /\ w # InVector /\ AssertIndex(w, n)

(* Cells whose own words are sound. *)
SoundCells(cs, n) == \A i \in DOMAIN cs : cs[i].type = "static" => Sound(cs[i].offset, n)

(* The words that wait to be used: of the lookup... *)
LookupSound ==
  \A s \in DOMAIN strings_lookup : Sound(strings_lookup[s], string_table_written)

(* ...of the contents compiled, or being compiled... *)
TemplatesSound ==
  /\ \A c \in DOMAIN compiled : SoundCells(compiled[c], string_table_written)
  /\ SoundCells(cc_head, string_table_written)
  /\ \A k \in DOMAIN tag_lookup : tag_lookup[k].type # "static"

(* ...of the tags the row has done... *)
ResultsSound ==
  \A i \in Slots : results[i] = 0 \/ Sound(results[i], string_table_written)

(* ...and those of the row itself, done or still on the stack. *)
RowSound ==
  /\ SoundCells(stack, string_table_written)
  /\ \A i \in DOMAIN cells : cells[i] = InVector \/ Sound(cells[i], string_table_written)
  /\ \A i \in DOMAIN vector : Sound(vector[i], string_table_written)

WordsSound ==
  TableFits =>
    LookupSound /\ TemplatesSound /\ ResultsSound /\ (~overrun => RowSound)

-----------------------------------------------------------------------------
(* As the counter grows, what was sound stays it. *)
LEMMA SoundStays ==
  ASSUME NEW n \in Nat, NEW m \in Nat, n <= m, NEW w, Sound(w, n)
  PROVE  Sound(w, m)
  BY FormatAssumption DEF Sound, AssertIndex, IsInline, Word

(* So do cells. *)
LEMMA SoundCellsStay ==
  ASSUME NEW n \in Nat, NEW m \in Nat, n <= m, NEW cs, SoundCells(cs, n)
  PROVE  SoundCells(cs, m)
  BY SoundStays DEF SoundCells

(* A cell that is sound joins cells that are. *)
LEMMA SoundAppend ==
  ASSUME NEW n, NEW cs \in Seq(Cell), SoundCells(cs, n),
         NEW c \in Cell, c.type = "static" => Sound(c.offset, n)
  PROVE  SoundCells(Append(cs, c), n)
<1> DEFINE all == Append(cs, c)
<1>1. /\ DOMAIN all = 1 .. Len(cs) + 1 /\ DOMAIN cs = 1 .. Len(cs) /\ Len(cs) \in Nat
      /\ \A i \in 1 .. Len(cs) : all[i] = cs[i]
      /\ all[Len(cs) + 1] = c
  BY AppendProperties
<1> HIDE DEF all
<1>2. SoundCells(all, n)
  BY <1>1 DEF SoundCells
<1>. QED
  BY <1>2 DEF all

(* Cells that are sound follow others. *)
LEMMA SoundConcat ==
  ASSUME NEW n, NEW cs \in Seq(Cell), SoundCells(cs, n), NEW ds \in Seq(Cell), SoundCells(ds, n)
  PROVE  SoundCells(cs \o ds, n)
<1> DEFINE all == cs \o ds
<1>1. /\ DOMAIN all = 1 .. Len(cs) + Len(ds) /\ Len(cs) \in Nat /\ Len(ds) \in Nat
      /\ DOMAIN cs = 1 .. Len(cs) /\ DOMAIN ds = 1 .. Len(ds)
      /\ \A i \in 1 .. Len(cs) + Len(ds) :
           all[i] = IF i <= Len(cs) THEN cs[i] ELSE ds[i - Len(cs)]
  BY ConcatProperties
<1> HIDE DEF all
<1>2. SoundCells(all, n)
  BY <1>1 DEF SoundCells
<1>. QED
  BY <1>2 DEF all

(* What is left of a stack without its head is as sound as it was. *)
LEMMA SoundTail ==
  ASSUME NEW n, NEW cs \in Seq(Cell), cs # << >>, SoundCells(cs, n)
  PROVE  /\ SoundCells(Tail(cs), n)
         /\ Head(cs).type = "static" => Sound(Head(cs).offset, n)
<1>1. /\ Tail(cs) \in Seq(Cell) /\ Len(Tail(cs)) = Len(cs) - 1 /\ Len(cs) \in Nat
      /\ \A i \in 1 .. Len(Tail(cs)) : Tail(cs)[i] = cs[i + 1]
      /\ Head(cs) = cs[1]
  BY HeadTailProperties
<1>2. Len(cs) > 0
  BY EmptySeq
<1>3. 1 \in DOMAIN cs /\ \A i \in DOMAIN Tail(cs) : i + 1 \in DOMAIN cs
  BY <1>1, <1>2
<1>. QED
  BY <1>1, <1>3 DEF SoundCells

-----------------------------------------------------------------------------
(* Below 4 GiB the counter is one more than the size of the table. *)
LEMMA CounterIs ==
  TypeInv /\ TableCounted /\ TableFits =>
    string_table_written = table_size + 1 /\ string_table_written \in Nat \ {0}
<1> SUFFICES ASSUME TypeInv, TableCounted, TableFits
             PROVE  string_table_written = table_size + 1
                      /\ string_table_written \in Nat \ {0}
  OBVIOUS
<1>1. table_size \in Nat
  BY DEF TypeInv, ST!TypeOK
<1>. QED
  BY <1>1 DEF TableCounted, TableFits

(* A table only grows, and its counter with it. *)
LEMMA CounterGrows ==
  ASSUME TypeInv, TypeInv', TableCounted, TableCounted', TableFits',
         NEW s \in Strings, ST!AddString(s)
  PROVE  /\ TableFits
         /\ string_table_written \in Nat \ {0} /\ string_table_written' \in Nat \ {0}
         /\ string_table_written <= string_table_written'
<1>1. RecordSize(s) \in Nat /\ table_size \in Nat /\ Half \in Nat
  BY FormatAssumption DEF RecordSize, TypeInv, ST!TypeOK
<1>2. PICK more \in Nat : table_size' = table_size + more
  BY <1>1, SameFormat
     DEF ST!AddString, ST!AddTiny, ST!AddKnown, ST!AddShort, ST!AddLong, ST!tableVars,
         ST!WriteRecord
<1>3. TableFits
  BY <1>1, <1>2 DEF TableFits
<1>4. /\ string_table_written = table_size + 1
      /\ string_table_written' = table_size + more + 1
  BY <1>2, <1>3 DEF TableCounted, TableFits
<1>. QED
  BY <1>1, <1>2, <1>3, <1>4

(* The pointer of a string is sound by the time it has been handed out. *)
LEMMA PointerSound ==
  ASSUME TypeInv, TypeInv', TableCounted, TableCounted', TableFits', LookupSound,
         NEW s \in Strings, ST!AddString(s)
  PROVE  Sound(ST!Pointer(s), string_table_written')
<1> DEFINE w == ST!Pointer(s)
           n == string_table_written
<1>1. n \in Nat \ {0} /\ n' \in Nat \ {0} /\ n <= n' /\ w \in Word /\ n \in Word
  BY CounterGrows, PointerType, SameFormat DEF TypeInv, ST!TypeOK
<1>2. CASE s \in Tiny
  <2>1. w = Half + TinyCode[s] /\ TinyCode[s] \in Nat /\ Half \in Nat \ {0}
    BY <1>2, FormatAssumption, SameFormat DEF ST!Pointer, TinyWord
  <2>2. w >= Half /\ w # 0
    BY <2>1
  <2>. QED
    BY <1>1, <2>2 DEF Sound, AssertIndex, IsInline, InVector
<1>3. CASE s \notin Tiny /\ s \in DOMAIN ST!LookupNow
  <2>1. w = strings_lookup[s] /\ s \in DOMAIN strings_lookup
    BY <1>3, SameFormat DEF ST!Pointer, ST!LookupNow, ST!NoEntry
  <2>2. Sound(w, n)
    BY <2>1 DEF LookupSound
  <2>. QED
    BY <1>1, <2>2, SoundStays
<1>4. CASE s \notin Tiny /\ s \notin DOMAIN ST!LookupNow
  <2>1. w = n
    BY <1>4, SameFormat DEF ST!Pointer
  <2>. QED
    BY <1>1, <2>1 DEF Sound, AssertIndex, InVector
<1>. QED
  BY <1>2, <1>3, <1>4

(* The lookup notes where the next record goes, or forgets. *)
LEMMA LookupStaysSound ==
  ASSUME TypeInv, TypeInv', TableCounted, TableCounted', TableFits', LookupSound,
         NEW s \in Strings, ST!AddString(s)
  PROVE  LookupSound'
<1>1. /\ string_table_written \in Nat \ {0} /\ string_table_written' \in Nat \ {0}
      /\ string_table_written <= string_table_written' /\ string_table_written \in Word
  BY CounterGrows, SameFormat DEF TypeInv, ST!TypeOK
<1>2. Sound(string_table_written, string_table_written')
  BY <1>1 DEF Sound, AssertIndex, InVector
<1>3. \A t \in DOMAIN strings_lookup : Sound(strings_lookup[t], string_table_written')
  BY <1>1, SoundStays DEF LookupSound
<1>4. \A t \in DOMAIN ST!LookupNow :
        t \in DOMAIN strings_lookup /\ ST!LookupNow[t] = strings_lookup[t]
  BY DEF ST!LookupNow, ST!NoEntry
<1>5. \A t \in DOMAIN strings_lookup' :
        \/ strings_lookup'[t] = string_table_written
        \/ t \in DOMAIN strings_lookup /\ strings_lookup'[t] = strings_lookup[t]
  BY <1>4 DEF ST!AddString, ST!AddTiny, ST!AddKnown, ST!AddShort, ST!AddLong, ST!lookupVars,
              ST!Put
<1>. QED
  BY <1>2, <1>3, <1>5 DEF LookupSound

-----------------------------------------------------------------------------
(* Contents that are left alone stay sound as the counter grows. *)
LEMMA TemplatesStaySound ==
  ASSUME TemplatesSound, string_table_written \in Nat, string_table_written' \in Nat,
         string_table_written <= string_table_written', UNCHANGED << compiled, tag_lookup >>
  PROVE  /\ \A c \in DOMAIN compiled' : SoundCells(compiled'[c], string_table_written')
         /\ SoundCells(cc_head, string_table_written')
         /\ \A k \in DOMAIN tag_lookup' : tag_lookup'[k].type # "static"
<1>1. \A c \in DOMAIN compiled : SoundCells(compiled[c], string_table_written')
  BY SoundCellsStay DEF TemplatesSound
<1>2. SoundCells(cc_head, string_table_written')
  BY SoundCellsStay DEF TemplatesSound
<1>. QED
  BY <1>1, <1>2 DEF TemplatesSound

(* So do the words of a row. *)
LEMMA RowStaysSound ==
  ASSUME string_table_written \in Nat, string_table_written' \in Nat,
         string_table_written <= string_table_written'
  PROVE  /\ ResultsSound => \A i \in Slots : results[i] = 0
                                  \/ Sound(results[i], string_table_written')
         /\ RowSound =>
              /\ SoundCells(stack, string_table_written')
              /\ \A i \in DOMAIN cells : cells[i] = InVector
                                           \/ Sound(cells[i], string_table_written')
              /\ \A i \in DOMAIN vector : Sound(vector[i], string_table_written')
  BY SoundStays, SoundCellsStay DEF ResultsSound, RowSound

(* The word of a text is sound, and so is all that was there before it. *)
LEMMA TextKeepsSound ==
  ASSUME TypeInv, TypeInv', TableCounted, TableCounted', WordsSound, PrecompileText
  PROVE  WordsSound'
<1> SUFFICES ASSUME TableFits'
             PROVE  LookupSound' /\ TemplatesSound' /\ ResultsSound' /\ (~overrun => RowSound)'
  BY DEF WordsSound
<1>1. PICK s \in Strings : /\ ST!AddString(s)
                           /\ cc_head' = Append(cc_head, StaticCell(ST!Pointer(s)))
  BY SegmentType DEF PrecompileText, AtSegment, TypeInv
<1>2. /\ TableFits /\ string_table_written \in Nat /\ string_table_written' \in Nat
      /\ string_table_written <= string_table_written'
  BY <1>1, CounterGrows
<1>3. LookupSound /\ TemplatesSound /\ ResultsSound /\ (~overrun => RowSound)
  BY <1>2 DEF WordsSound
<1>4. LookupSound' /\ Sound(ST!Pointer(s), string_table_written')
  BY <1>1, <1>3, LookupStaysSound, PointerSound
<1>5. TemplatesSound'
  <2>1. UNCHANGED << compiled, tag_lookup >>
    BY DEF PrecompileText, AtSegment
  <2>2. /\ \A c \in DOMAIN compiled' : SoundCells(compiled'[c], string_table_written')
        /\ SoundCells(cc_head, string_table_written')
        /\ \A k \in DOMAIN tag_lookup' : tag_lookup'[k].type # "static"
    BY <1>2, <1>3, <2>1, TemplatesStaySound
  <2> DEFINE c == StaticCell(ST!Pointer(s))
  <2>3. c \in Cell /\ c.offset = ST!Pointer(s)
    BY <1>1, PointerType, StaticCellType DEF StaticCell, TypeInv
  <2>4. SoundCells(Append(cc_head, c), string_table_written')
    <3>1. cc_head \in Seq(Cell) /\ (c.type = "static" => Sound(c.offset, string_table_written'))
      BY <1>4, <2>3 DEF TypeInv, CompilingOK
    <3> HIDE DEF c
    <3>. QED
      BY <2>2, <2>3, <3>1, SoundAppend
  <2>. QED
    BY <1>1, <2>2, <2>4 DEF TemplatesSound
<1>6. UNCHANGED << results, stack, cells, vector, overrun >>
  BY DEF PrecompileText, AtSegment, rowVars, slotVars, outputVars
<1>7. ResultsSound' /\ (RowSound => RowSound')
  BY <1>2, <1>3, <1>6, RowStaysSound DEF ResultsSound, RowSound
<1>. QED
  BY <1>3, <1>4, <1>5, <1>6, <1>7

(* A cell that is emitted leaves the row sound, if its word is. *)
LEMMA EmitSound ==
  ASSUME NEW n, OutputOK, NEW w \in Word, Sound(w, n), Emit(w),
         \A i \in DOMAIN cells : cells[i] = InVector \/ Sound(cells[i], n),
         \A i \in DOMAIN vector : Sound(vector[i], n)
  PROVE  /\ \A i \in DOMAIN cells' : cells'[i] = InVector \/ Sound(cells'[i], n)
         /\ \A i \in DOMAIN vector' : Sound(vector'[i], n)
<1> DEFINE x == IF Head(stack).type = "static" THEN w ELSE InVector
<1>1. x \in Word /\ (x = InVector \/ Sound(x, n))
  BY WordType
<1>2. cells' = Append(cells, x)
  BY DEF Emit, EmittedCells
<1>3. vector' = vector \/ vector' = Append(vector, w)
  BY DEF Emit, EmittedVector
<1> HIDE DEF x
<1>4. /\ DOMAIN cells' = 1 .. Len(cells) + 1 /\ DOMAIN cells = 1 .. Len(cells)
      /\ Len(cells) \in Nat /\ cells'[Len(cells) + 1] = x
      /\ \A i \in 1 .. Len(cells) : cells'[i] = cells[i]
  BY <1>1, <1>2, AppendProperties DEF OutputOK
<1>5. ASSUME vector' = Append(vector, w)
      PROVE  /\ DOMAIN vector' = 1 .. Len(vector) + 1 /\ DOMAIN vector = 1 .. Len(vector)
             /\ Len(vector) \in Nat /\ vector'[Len(vector) + 1] = w
             /\ \A i \in 1 .. Len(vector) : vector'[i] = vector[i]
  BY <1>5, AppendProperties DEF OutputOK
<1>6. \A i \in DOMAIN cells' : cells'[i] = InVector \/ Sound(cells'[i], n)
  BY <1>1, <1>4
<1>7. \A i \in DOMAIN vector' : Sound(vector'[i], n)
  BY <1>3, <1>5
<1>. QED
  BY <1>6, <1>7

(* The pointer of a value is sound, in its slot and in the row. *)
LEMMA ValueKeepsSound ==
  ASSUME TypeInv, TypeInv', TableCounted, TableCounted', WordsSound, EmitValue
  PROVE  WordsSound'
<1> SUFFICES ASSUME TableFits'
             PROVE  LookupSound' /\ TemplatesSound' /\ ResultsSound' /\ (~overrun => RowSound)'
  BY DEF WordsSound
<1>1. PICK s \in Strings : ST!AddString(s) /\ s = ValueOf(Head(stack))
  <2>1. Head(stack) \in Cell /\ p13n \in Rows /\ Head(stack).type \in {"p13n", "dt"}
    BY HeadType DEF EmitValue
  <2>. QED
    BY <2>1, ValueType DEF EmitValue
<1>2. /\ TableFits /\ string_table_written \in Nat /\ string_table_written' \in Nat
      /\ string_table_written <= string_table_written'
  BY <1>1, CounterGrows
<1>3. LookupSound /\ TemplatesSound /\ ResultsSound /\ (~overrun => RowSound)
  BY <1>2 DEF WordsSound
<1>4. PICK w \in Word : w = ST!Pointer(s)
  BY <1>1, PointerType DEF TypeInv
<1>5. LookupSound' /\ Sound(w, string_table_written')
  BY <1>1, <1>3, <1>4, LookupStaysSound, PointerSound
<1>6. TemplatesSound'
  <2>1. UNCHANGED << compiled, tag_lookup, cc_head >>
    BY DEF EmitValue, templateVars, compileVars
  <2>. QED
    BY <1>2, <1>3, <2>1, TemplatesStaySound DEF TemplatesSound
<1>7. ResultsSound'
  <2>1. results' = [results EXCEPT ![Head(stack).value_index] = w] /\ results \in [Slots -> Word]
    BY <1>1, <1>4 DEF EmitValue, TypeInv, SlotsOK
  <2>2. \A i \in Slots : results'[i] = results[i] \/ results'[i] = w
    BY <2>1
  <2>3. \A i \in Slots : results[i] = 0 \/ Sound(results[i], string_table_written')
    BY <1>2, <1>3, RowStaysSound
  <2>. QED
    BY <1>5, <2>2, <2>3 DEF ResultsSound
<1>8. ASSUME ~overrun' PROVE RowSound'
  <2>1. Emit(w) /\ ~overrun /\ stack' = Tail(stack)
    BY <1>1, <1>4, <1>8 DEF EmitValue
  <2>2. /\ SoundCells(stack, string_table_written')
        /\ \A i \in DOMAIN cells : cells[i] = InVector \/ Sound(cells[i], string_table_written')
        /\ \A i \in DOMAIN vector : Sound(vector[i], string_table_written')
    BY <1>2, <1>3, <2>1, RowStaysSound
  <2>3. SoundCells(Tail(stack), string_table_written')
    BY <2>2, SoundTail DEF EmitValue, AtCell, TypeInv, SlotsOK
  <2>. QED
    BY <1>5, <2>1, <2>2, <2>3, EmitSound DEF RowSound, TypeInv
<1>. QED
  BY <1>5, <1>6, <1>7, <1>8

(* A known tag gives the cell it has, which is not a static one. *)
LEMMA KnownTagKeepsSound ==
  ASSUME TypeInv, TemplatesSound, PrecompileKnownTag
  PROVE  TemplatesSound'
<1> DEFINE c == tag_lookup[KeyOf(Segment.key)]
<1>1. /\ c \in Cell /\ c.type # "static" /\ cc_head \in Seq(Cell)
      /\ cc_head' = Append(cc_head, c)
      /\ UNCHANGED << compiled, tag_lookup, string_table_written >>
  BY DEF PrecompileKnownTag, AtSegment, TemplatesSound, TypeInv, TemplatesOK, CompilingOK,
         tableVars
<1> HIDE DEF c
<1>2. SoundCells(cc_head', string_table_written)
  BY <1>1, SoundAppend DEF TemplatesSound
<1>. QED
  BY <1>1, <1>2 DEF TemplatesSound

(* The cell of a new tag is not a static one either. *)
LEMMA NewTagKeepsSound ==
  ASSUME TypeInv, TemplatesSound, PrecompileNewTag
  PROVE  TemplatesSound'
<1> DEFINE key == KeyOf(Segment.key)
<1>0. PICK c \in NewCells(key) :
        cc_head' = Append(cc_head, c) /\ tag_lookup' = ST!Put(tag_lookup, key, c)
  BY DEF PrecompileNewTag
<1>1. /\ key \in Meaningful \ DOMAIN tag_lookup
      /\ UNCHANGED << compiled, string_table_written >>
  BY DEF PrecompileNewTag, AtSegment, tableVars
<1>2. c \in Cell /\ c.type # "static"
  BY <1>1, NewCellType DEF TypeInv
<1> HIDE DEF key
<1>3. SoundCells(cc_head', string_table_written)
  BY <1>0, <1>1, <1>2, SoundAppend DEF TemplatesSound, TypeInv, CompilingOK
<1>. QED
  BY <1>0, <1>1, <1>2, <1>3 DEF TemplatesSound, ST!Put

(* A content whose compilation ends is kept as it was compiled. *)
LEMMA EndKeepsSound ==
  ASSUME TemplatesSound, PrecompileEnd
  PROVE  TemplatesSound'
<1>1. /\ compiled' = ST!Put(compiled, compiling, cc_head) /\ cc_head' = << >>
      /\ UNCHANGED << tag_lookup, string_table_written >>
  BY DEF PrecompileEnd, tableVars
<1>2. SoundCells(<< >>, string_table_written)
  BY DEF SoundCells
<1>. QED
  BY <1>1, <1>2 DEF TemplatesSound, ST!Put

(* A row begins with nothing but the cells of the body. *)
LEMMA BeginKeepsSound ==
  ASSUME TypeInv, TemplatesSound, NEW p \in Rows, BeginAdd(p)
  PROVE  ResultsSound' /\ RowSound'
<1>1. /\ stack' = compiled[content] /\ content \in DOMAIN compiled
      /\ cells' = << >> /\ vector' = << >> /\ results' = [i \in Slots |-> 0]
      /\ UNCHANGED string_table_written
  BY DEF BeginAdd, FreshResults, TypeInv, PlaceOK, tableVars
<1>. QED
  BY <1>1 DEF ResultsSound, RowSound, TemplatesSound

(* The cells of an alternative are as sound as they were compiled, unless  *)
(* they are the ones that are overrun.                                     *)
LEMMA SpliceKeepsSound ==
  ASSUME TypeInv, TemplatesSound, ResultsSound, ~overrun => RowSound, SpliceDc
  PROVE  ResultsSound' /\ (~overrun' => RowSound')
<1> DEFINE expansion == compiled[Alternative(Head(stack).dc, p13n)]
<1>1. UNCHANGED string_table_written
  BY DEF SpliceDc, tableVars
<1>2. ResultsSound'
  BY <1>1 DEF SpliceDc, Cleared, ResultsSound
<1>3. ASSUME ~overrun' PROVE RowSound'
  <2>1. stack' = expansion \o Tail(stack) /\ UNCHANGED << cells, vector, overrun >>
    BY <1>3 DEF SpliceDc
  <2>2. expansion \in Seq(Cell) /\ SoundCells(expansion, string_table_written)
    BY DEF SpliceDc, TypeInv, TemplatesOK, TemplatesSound
  <2>3. Tail(stack) \in Seq(Cell)
    BY HeadType DEF SpliceDc
  <2>4. SoundCells(Tail(stack), string_table_written)
    BY <1>3, <2>1, SoundTail DEF SpliceDc, AtCell, TypeInv, SlotsOK, RowSound
  <2> HIDE DEF expansion
  <2>5. SoundCells(stack', string_table_written)
    BY <2>1, <2>2, <2>3, <2>4, SoundConcat
  <2>. QED
    BY <1>1, <1>3, <2>1, <2>5 DEF RowSound
<1>. QED
  BY <1>2, <1>3

(* The word of a static cell, or of a tag that was done, is a sound one. *)
LEMMA EmitKeepsSound ==
  ASSUME TypeInv, ResultsSound, ~overrun => RowSound, EmitStatic \/ EmitKnown
  PROVE  ResultsSound' /\ (~overrun' => RowSound')
<1>1. /\ UNCHANGED << string_table_written, results, overrun >>
      /\ stack' = Tail(stack) /\ stack # << >>
  BY DEF EmitStatic, EmitKnown, AtCell, tableVars, slotVars
<1>2. ResultsSound'
  BY <1>1 DEF ResultsSound
<1>3. ASSUME ~overrun' PROVE RowSound'
  <2>1. RowSound /\ stack \in Seq(Cell) /\ OutputOK
    BY <1>1, <1>3 DEF TypeInv, SlotsOK
  <2>2. SoundCells(Tail(stack), string_table_written)
    BY <1>1, <2>1, SoundTail DEF RowSound
  <2>3. \E w \in Word : Emit(w) /\ Sound(w, string_table_written)
    <3>1. CASE EmitStatic
      <4>1. Head(stack).type = "static"
        BY <3>1 DEF EmitStatic, AtCell
      <4>2. Sound(Head(stack).offset, string_table_written)
        BY <1>1, <2>1, <4>1, SoundTail DEF RowSound
      <4>. QED
        BY <3>1, <4>2 DEF EmitStatic, Sound
    <3>2. CASE EmitKnown
      <4>1. Head(stack) \in Cell /\ Head(stack).type \in {"p13n", "dt"}
        BY <3>2, HeadType DEF EmitKnown
      <4>2. Head(stack).value_index \in Slots
        BY <4>1, CellParts
      <4>. QED
        BY <3>2, <4>2 DEF EmitKnown, ResultsSound, Sound
    <3>. QED
      BY <3>1, <3>2
  <2>. QED
    BY <1>1, <2>1, <2>2, <2>3, EmitSound DEF RowSound
<1>. QED
  BY <1>2, <1>3

(* Every other step leaves all words as they are. *)
LEMMA OthersKeepSound ==
  ASSUME WordsSound,
         UNCHANGED << table_size, string_table_written, strings_lookup, compiled, cc_head,
                      tag_lookup, results, stack, cells, vector, overrun >>
  PROVE  WordsSound'
  BY DEF WordsSound, TableFits, LookupSound, TemplatesSound, ResultsSound, RowSound

-----------------------------------------------------------------------------
(* Nothing waits at first, and nothing was stored. *)
LEMMA WordsInit == Init => WordsSound
<1> SUFFICES ASSUME Init PROVE WordsSound
  OBVIOUS
<1>1. /\ strings_lookup = ST!NoEntry /\ compiled = ST!NoEntry /\ tag_lookup = ST!NoEntry
      /\ cc_head = << >> /\ stack = << >> /\ cells = << >> /\ vector = << >>
      /\ results = [i \in Slots |-> 0]
  BY DEF Init, ST!Init
<1>. QED
  BY <1>1 DEF WordsSound, LookupSound, TemplatesSound, ResultsSound, RowSound, SoundCells,
              ST!NoEntry

(* Every step keeps the words sound. *)
LEMMA StepKeepsSound ==
  TypeInv /\ TypeInv' /\ TableCounted /\ TableCounted' /\ WordsSound /\ [Next]_vars
    => WordsSound'
<1> SUFFICES ASSUME TypeInv, TypeInv', TableCounted, TableCounted', WordsSound, [Next]_vars
             PROVE  WordsSound'
  OBVIOUS
<1>1. CASE PrecompileText \/ EmitValue
  BY <1>1, TextKeepsSound, ValueKeepsSound
<1>2. ASSUME UNCHANGED tableVars,
             TemplatesSound => TemplatesSound',
             TemplatesSound /\ ResultsSound /\ (~overrun => RowSound)
               => ResultsSound' /\ (~overrun' => RowSound')
      PROVE  WordsSound'
  BY <1>2 DEF WordsSound, TableFits, LookupSound, tableVars
<1>3. CASE PrecompileKnownTag \/ PrecompileNewTag \/ PrecompileEnd
  <2>1. UNCHANGED tableVars /\ UNCHANGED rowVars
    BY <1>3 DEF PrecompileKnownTag, PrecompileNewTag, PrecompileEnd, AtSegment
  <2>2. TemplatesSound => TemplatesSound'
    BY <1>3, KnownTagKeepsSound, NewTagKeepsSound, EndKeepsSound
  <2>3. (ResultsSound => ResultsSound') /\ (RowSound => RowSound') /\ overrun' = overrun
    BY <2>1 DEF tableVars, rowVars, slotVars, outputVars, ResultsSound, RowSound
  <2>. QED
    BY <1>2, <2>1, <2>2, <2>3
<1>4. CASE SpliceDc \/ EmitStatic \/ EmitKnown
  <2>1. UNCHANGED tableVars /\ UNCHANGED << compiled, tag_lookup, cc_head >>
    BY <1>4 DEF SpliceDc, EmitStatic, EmitKnown, templateVars, compileVars
  <2>2. TemplatesSound => TemplatesSound'
    BY <2>1 DEF TemplatesSound, tableVars
  <2>. QED
    BY <1>2, <1>4, <2>1, <2>2, SpliceKeepsSound, EmitKeepsSound
<1>5. CASE \E p \in Rows : BeginAdd(p)
  <2>1. UNCHANGED tableVars /\ UNCHANGED << compiled, tag_lookup, cc_head >>
    BY <1>5 DEF BeginAdd, templateVars, compileVars
  <2>2. TemplatesSound => TemplatesSound'
    BY <2>1 DEF TemplatesSound, tableVars
  <2>. QED
    BY <1>2, <1>5, <2>1, <2>2, BeginKeepsSound
<1>6. CASE PrecompileUnknownTag
  BY <1>6, OthersKeepSound
     DEF PrecompileUnknownTag, AtSegment, tableVars, rowVars, slotVars, outputVars
<1>7. CASE CompileDc \/ SpliceNothing \/ EmitNull \/ FinishRow \/ Finish \/ UNCHANGED vars
  <2>1. UNCHANGED << tableVars, templateVars, cc_head, rowVars >>
    BY <1>7 DEF CompileDc, SpliceNothing, EmitNull, FinishRow, Finish, vars, compileVars
  <2>. QED
    BY <2>1, OthersKeepSound DEF tableVars, templateVars, rowVars, slotVars, outputVars
<1>8. CASE PrecompileExits \/ OverrunCrashes
  <2>1. /\ UNCHANGED << tableVars, templateVars, cc_head, results, stack, cells, vector >>
        /\ overrun' = overrun \/ overrun'
    BY <1>8 DEF PrecompileExits, OverrunCrashes, compileVars, rowVars, slotVars, outputVars
  <2>2. UNCHANGED << string_table_written, tag_lookup, compiled, strings_lookup, table_size >>
    BY <2>1 DEF tableVars, templateVars
  <2>3. TemplatesSound => TemplatesSound'
    BY <2>1, <2>2 DEF TemplatesSound
  <2>4. (ResultsSound => ResultsSound') /\ (RowSound => RowSound')
    BY <2>1, <2>2 DEF ResultsSound, RowSound
  <2>5. ~overrun' => ~overrun
    BY <2>1 DEF TypeInv, OutputOK
  <2>. QED
    BY <1>2, <2>1, <2>3, <2>4, <2>5
<1>. QED
  BY <1>1, <1>3, <1>4, <1>5, <1>6, <1>7, <1>8 DEF Next, Step, Stopped

(* The header's counters are counted right at every step. *)
LEMMA NextKeepsHeader == TypeInv /\ HeaderInv /\ [Next]_vars => HeaderInv'
<1> SUFFICES ASSUME TypeInv, HeaderInv, [Next]_vars PROVE HeaderInv'
  OBVIOUS
<1>1. CASE UNCHANGED vars
  BY <1>1 DEF vars, tableVars, fileVars, HeaderInv, TableCounted, UcCounted, RowsCounted,
              FileIsLast, HeaderWords, Sections, Add32
<1>. QED
  BY <1>1, StepKeepsHeader, FinishKeepsHeader DEF Next, Stopped

(* What the steps keep so far. *)
WordsInv == TypeInv /\ HeaderInv /\ WordsSound

LEMMA WordsInvInductive == (Init => WordsInv) /\ (WordsInv /\ [Next]_vars => WordsInv')
  BY TypeInit, HeaderInit, WordsInit, NextKeepsTypes, NextKeepsHeader, StepKeepsSound
     DEF WordsInv, HeaderInv

(* The asserts on the words of a row hold, whatever was put into the table *)
(* before and whichever of its strings were forgotten.                     *)
THEOREM IndexesSoundHolds == Spec => []IndexesSound
<1>1. WordsInv => IndexesSound
  <2> SUFFICES ASSUME WordsInv, ~overrun, TableFits PROVE AssertIndexHolds
    BY DEF IndexesSound
  <2>1. RowSound
    BY DEF WordsInv, WordsSound
  <2>2. string_table_written \in Nat
    BY CounterIs DEF WordsInv, HeaderInv
  <2>3. AssertIndex(InVector, string_table_written)
    BY <2>2, WordType DEF AssertIndex, InVector
  <2>. QED
    BY <2>1, <2>3 DEF AssertIndexHolds, RowSound, Sound
<1>. QED
  BY <1>1, WordsInvInductive, PTL DEF Spec

-----------------------------------------------------------------------------
(* The cells a row leaves open. *)
Open(k) == {i \in DOMAIN k : k[i] = InVector}

(* A row puts one pointer into the vector for each cell it leaves open. *)
RowCounted == TableFits /\ ~overrun => Len(vector) = Cardinality(Open(cells))

(* A cell that is left open is one more. *)
LEMMA OpenAppend ==
  ASSUME NEW k \in Seq(Word), NEW x \in Word
  PROVE  /\ IsFiniteSet(Open(k)) /\ Cardinality(Open(k)) \in Nat
         /\ x # InVector => Open(Append(k, x)) = Open(k)
         /\ x = InVector =>
              Cardinality(Open(Append(k, x))) = Cardinality(Open(k)) + 1
<1> DEFINE all == Append(k, x)
<1>1. /\ DOMAIN all = 1 .. Len(k) + 1 /\ DOMAIN k = 1 .. Len(k) /\ Len(k) \in Nat
      /\ all[Len(k) + 1] = x /\ \A i \in 1 .. Len(k) : all[i] = k[i]
  BY AppendProperties
<1> HIDE DEF all
<1>2. IsFiniteSet(1 .. Len(k)) /\ Open(k) \in SUBSET (1 .. Len(k))
  BY <1>1, FS_Interval DEF Open
<1>3. IsFiniteSet(Open(k)) /\ Cardinality(Open(k)) \in Nat
  BY <1>2, FS_Subset, FS_CardinalityType
<1>4. x # InVector => Open(all) = Open(k)
  BY <1>1 DEF Open
<1>5. ASSUME x = InVector PROVE Cardinality(Open(all)) = Cardinality(Open(k)) + 1
  <2>1. Open(all) = Open(k) \cup {Len(k) + 1} /\ Len(k) + 1 \notin Open(k)
    BY <1>1, <1>5 DEF Open
  <2>. QED
    BY <1>3, <2>1, FS_AddElement
<1>. QED
  BY <1>3, <1>4, <1>5 DEF all

(* A cell and its pointer go together. *)
LEMMA EmitCounted ==
  ASSUME OutputOK, NEW w \in Word, Emit(w),
         Head(stack).type = "static" => w # InVector,
         Len(vector) = Cardinality(Open(cells))
  PROVE  Len(vector') = Cardinality(Open(cells'))
<1>1. CASE Head(stack).type = "static"
  <2>1. vector' = vector /\ cells' = Append(cells, w) /\ w # InVector
    BY <1>1 DEF Emit, EmittedCells, EmittedVector
  <2>. QED
    BY <2>1, OpenAppend DEF OutputOK
<1>2. CASE Head(stack).type # "static"
  <2>1. vector' = Append(vector, w) /\ cells' = Append(cells, InVector)
    BY <1>2 DEF Emit, EmittedCells, EmittedVector
  <2>2. Len(vector') = Len(vector) + 1
    BY <2>1, AppendProperties DEF OutputOK
  <2>. QED
    BY <2>1, <2>2, OpenAppend, WordType DEF OutputOK
<1>. QED
  BY <1>1, <1>2

(* Every step keeps the two in step. *)
LEMMA StepKeepsCounted ==
  ASSUME WordsInv, WordsInv', RowCounted, [Next]_vars
  PROVE  RowCounted'
<1> SUFFICES ASSUME TableFits', ~overrun' PROVE Len(vector') = Cardinality(Open(cells'))
  BY DEF RowCounted
<1> USE DEF WordsInv
<1>1. CASE EmitStatic \/ EmitKnown
  <2>1. TableFits /\ ~overrun
    BY <1>1 DEF EmitStatic, EmitKnown, TableFits, tableVars
  <2>2. RowSound
    BY <2>1 DEF WordsSound
  <2>3. Len(vector) = Cardinality(Open(cells)) /\ OutputOK
    BY <2>1 DEF RowCounted, TypeInv
  <2>4. CASE EmitStatic
    <3>1. Head(stack).type = "static" /\ stack # << >> /\ stack \in Seq(Cell)
      BY <2>4 DEF EmitStatic, AtCell, TypeInv, SlotsOK
    <3>2. Sound(Head(stack).offset, string_table_written)
      BY <2>2, <3>1, SoundTail DEF RowSound
    <3>3. Head(stack).offset \in Word /\ Head(stack).offset # InVector
      BY <3>2 DEF Sound
    <3>. QED
      BY <2>3, <2>4, <3>3, EmitCounted DEF EmitStatic
  <2>5. CASE EmitKnown
    <3>1. Head(stack) \in Cell /\ Head(stack).type \in {"p13n", "dt"}
      BY <2>5, HeadType DEF EmitKnown
    <3>2. results[Head(stack).value_index] \in Word
      BY <3>1, CellParts DEF TypeInv, SlotsOK
    <3>. QED
      BY <2>3, <2>5, <3>1, <3>2, EmitCounted DEF EmitKnown
  <2>. QED
    BY <1>1, <2>4, <2>5
<1>2. CASE EmitValue
  <2>1. /\ Head(stack) \in Cell /\ p13n \in Rows /\ Head(stack).type \in {"p13n", "dt"}
    BY <1>2, HeadType DEF EmitValue
  <2>2. ValueOf(Head(stack)) \in Strings
    BY <1>2, <2>1, ValueType DEF EmitValue
  <2>3. PICK w \in Word : w = ST!Pointer(ValueOf(Head(stack)))
    BY <2>2, PointerType DEF TypeInv
  <2>4. Emit(w) /\ ~overrun
    BY <1>2, <2>3 DEF EmitValue
  <2>5. TableFits
    BY <1>2, <2>2, CounterGrows DEF EmitValue, HeaderInv
  <2>6. Len(vector) = Cardinality(Open(cells)) /\ OutputOK
    BY <2>4, <2>5 DEF RowCounted, TypeInv
  <2>. QED
    BY <2>1, <2>4, <2>6, EmitCounted
<1>3. CASE \E p \in Rows : BeginAdd(p)
  <2>1. cells' = << >> /\ vector' = << >>
    BY <1>3 DEF BeginAdd
  <2>2. Open(<< >>) = {}
    BY DEF Open
  <2>. QED
    BY <2>1, <2>2, FS_EmptySet
<1>4. CASE PrecompileText
  <2>1. Segment.str \in Strings
    BY <1>4, SegmentType DEF PrecompileText, AtSegment, TypeInv
  <2>2. TableFits
    BY <1>4, <2>1, CounterGrows DEF PrecompileText, HeaderInv
  <2>. QED
    BY <1>4, <2>2 DEF RowCounted, PrecompileText, AtSegment, rowVars, outputVars
<1>5. CASE UNCHANGED << table_size, cells, vector, overrun >>
  BY <1>5 DEF RowCounted, TableFits
<1>6. CASE SpliceDc
  BY <1>5, <1>6 DEF SpliceDc, tableVars
<1>7. CASE PrecompileKnownTag \/ PrecompileNewTag \/ PrecompileUnknownTag \/ PrecompileEnd
  BY <1>5, <1>7 DEF PrecompileKnownTag, PrecompileNewTag, PrecompileUnknownTag,
                    PrecompileEnd, AtSegment, tableVars, rowVars, outputVars
<1>8. CASE CompileDc \/ SpliceNothing \/ EmitNull \/ FinishRow \/ Finish \/ UNCHANGED vars
  BY <1>5, <1>8 DEF CompileDc, SpliceNothing, EmitNull, FinishRow, Finish, vars, tableVars,
                    rowVars, outputVars
<1>9. CASE PrecompileExits \/ OverrunCrashes
  BY <1>5, <1>9 DEF PrecompileExits, OverrunCrashes, tableVars, rowVars, outputVars
<1>. QED
  BY <1>1, <1>2, <1>3, <1>4, <1>6, <1>7, <1>8, <1>9 DEF Next, Step, Stopped

-----------------------------------------------------------------------------
(* The section u has a record of the unique cells k behind its first n     *)
(* words.                                                                  *)
RecordAt(u, k, n) ==
  /\ n \in Nat
  /\ n + 2 + Len(k) <= Len(u)
  /\ u[n + 1] = Len(k)
  /\ u[n + 2] = Cardinality(Open(k))
  /\ \A i \in 1 .. Len(k) : u[n + 2 + i] = k[i]

RecordsKept ==
  ~Overran /\ TableFits /\ UcFits =>
    \A k \in DOMAIN uniq_cells_lookup : RecordAt(uc, k, uniq_cells_lookup[k] \div 4)

(* The parts of a sequence that is put together. *)
LEMMA JoinedParts ==
  ASSUME NEW S, NEW s \in Seq(S), NEW t \in Seq(S)
  PROVE  /\ s \o t \in Seq(S)
         /\ Len(s) \in Nat /\ Len(t) \in Nat
         /\ Len(s \o t) = Len(s) + Len(t)
         /\ \A i \in 1 .. Len(s) : (s \o t)[i] = s[i]
         /\ \A i \in 1 .. Len(t) : (s \o t)[Len(s) + i] = t[i]
<1>1. /\ s \o t \in Seq(S) /\ Len(s) \in Nat /\ Len(t) \in Nat
      /\ Len(s \o t) = Len(s) + Len(t)
      /\ \A i \in 1 .. Len(s) + Len(t) :
           (s \o t)[i] = IF i <= Len(s) THEN s[i] ELSE t[i - Len(s)]
  BY ConcatProperties, LenProperties
<1>2. \A i \in 1 .. Len(t) : /\ Len(s) + i \in 1 .. Len(s) + Len(t)
                             /\ ~(Len(s) + i <= Len(s)) /\ Len(s) + i - Len(s) = i
  BY <1>1
<1>3. \A i \in 1 .. Len(s) : i \in 1 .. Len(s) + Len(t) /\ i <= Len(s)
  BY <1>1
<1>. QED
  BY <1>1, <1>2, <1>3

(* A record stays where it is when another one follows. *)
LEMMA RecordStays ==
  ASSUME NEW u \in Seq(Nat), NEW more \in Seq(Nat), NEW k \in Seq(Word), NEW n,
         RecordAt(u, k, n)
  PROVE  RecordAt(u \o more, k, n)
<1> DEFINE w == u \o more
<1>1. /\ Len(w) = Len(u) + Len(more) /\ Len(u) \in Nat /\ Len(more) \in Nat
      /\ \A i \in 1 .. Len(u) : w[i] = u[i]
  BY JoinedParts
<1>2. n \in Nat /\ Len(k) \in Nat /\ n + 2 + Len(k) <= Len(u)
  BY DEF RecordAt
<1> HIDE DEF w
<1>3. /\ n + 1 \in 1 .. Len(u) /\ n + 2 \in 1 .. Len(u)
      /\ \A i \in 1 .. Len(k) : n + 2 + i \in 1 .. Len(u)
  BY <1>1, <1>2
<1>4. n + 2 + Len(k) <= Len(w)
  BY <1>1, <1>2
<1>5. RecordAt(w, k, n)
  BY <1>1, <1>2, <1>3, <1>4 DEF RecordAt
<1>. QED
  BY <1>5 DEF w

(* The words behind the two that a record begins with. *)
LEMMA WordsBehind ==
  ASSUME NEW k \in Seq(Nat), NEW a \in Nat, NEW b \in Nat
  PROVE  LET record == << a, b >> \o k IN
         /\ record \in Seq(Nat) /\ Len(record) = 2 + Len(k)
         /\ record[1] = a /\ record[2] = b
         /\ \A i \in 1 .. Len(k) : record[2 + i] = k[i]
<1> DEFINE counts == << a, b >>
<1>1. counts \in Seq(Nat)
  OBVIOUS
<1>2. Len(counts) = 2 /\ counts[1] = a /\ counts[2] = b
  OBVIOUS
<1> HIDE DEF counts
<1>3. counts \o k \in Seq(Nat)
  BY <1>1, JoinedParts
<1>4. Len(counts \o k) = Len(counts) + Len(k)
  BY <1>1, JoinedParts
<1>5. \A i \in 1 .. Len(counts) : (counts \o k)[i] = counts[i]
  BY <1>1, JoinedParts
<1>6. \A i \in 1 .. Len(k) : (counts \o k)[Len(counts) + i] = k[i]
  BY <1>1, JoinedParts
<1>. QED
  BY <1>2, <1>3, <1>4, <1>5, <1>6 DEF counts

(* The record of a new row is written behind what there is. *)
LEMMA RecordWritten ==
  ASSUME NEW u \in Seq(Nat), NEW k \in Seq(Word)
  PROVE  LET record == << Len(k), Cardinality(Open(k)) >> \o k IN
         /\ record \in Seq(Nat)
         /\ RecordAt(u \o record, k, Len(u))
         /\ Len(u \o record) = Len(u) + 2 + Len(k)
<1>1. Cardinality(Open(k)) \in Nat
  BY OpenAppend, WordType
<1>2. k \in Seq(Nat)
  <2>1. Word \subseteq Nat
    BY WordType DEF Word
  <2>. QED
    BY <2>1, SeqMonotonic
<1>3. Len(k) \in Nat /\ Len(u) \in Nat
  BY LenProperties
<1> DEFINE record == << Len(k), Cardinality(Open(k)) >> \o k
           w == u \o record
<1>4. \A a, b \in Nat : /\ << a, b >> \o k \in Seq(Nat)
                        /\ Len(<< a, b >> \o k) = 2 + Len(k)
                        /\ (<< a, b >> \o k)[1] = a /\ (<< a, b >> \o k)[2] = b
                        /\ \A i \in 1 .. Len(k) : (<< a, b >> \o k)[2 + i] = k[i]
  BY <1>2, WordsBehind
<1>5. /\ record \in Seq(Nat) /\ Len(record) = 2 + Len(k)
      /\ record[1] = Len(k) /\ record[2] = Cardinality(Open(k))
      /\ \A i \in 1 .. Len(k) : record[2 + i] = k[i]
  BY <1>1, <1>3, <1>4
<1> HIDE DEF record
<1>6. /\ w \in Seq(Nat) /\ Len(w) = Len(u) + Len(record)
      /\ \A i \in 1 .. Len(record) : w[Len(u) + i] = record[i]
  <2>1. w \in Seq(Nat) /\ Len(w) = Len(u) + Len(record)
    BY <1>5, JoinedParts
  <2>2. \A i \in 1 .. Len(record) : w[Len(u) + i] = record[i]
    BY <1>5, JoinedParts
  <2>. QED
    BY <2>1, <2>2
<1> HIDE DEF w
<1>7. w[Len(u) + 1] = Len(k) /\ w[Len(u) + 2] = Cardinality(Open(k))
  BY <1>3, <1>5, <1>6
<1>8. \A i \in 1 .. Len(k) : w[Len(u) + 2 + i] = k[i]
  <2> TAKE i \in 1 .. Len(k)
  <2>1. 2 + i \in 1 .. Len(record) /\ Len(u) + (2 + i) = Len(u) + 2 + i
    BY <1>3, <1>5
  <2>. QED
    BY <1>5, <1>6, <2>1
<1>9. Len(w) = Len(u) + 2 + Len(k)
  BY <1>3, <1>5, <1>6
<1>10. RecordAt(w, k, Len(u))
  BY <1>3, <1>7, <1>8, <1>9 DEF RecordAt
<1>. QED
  BY <1>5, <1>9, <1>10 DEF w, record

(* Once a row has overrun, or a section has outgrown its counter, it has.  *)
LEMMA RowsOnlyGrow ==
  ASSUME WordsInv, FinishRow
  PROVE  /\ ~Overran' => ~Overran
         /\ TableFits' => TableFits
         /\ UcFits' => UcFits
<1> USE DEF WordsInv
<1>1. overrun' = overrun /\ table_size' = table_size
  BY DEF FinishRow, rowVars, outputVars, tableVars
<1>2. ~Overran' => ~Overran
  <2> DEFINE answer == [offset |-> AsInt(vector_written), row |-> p13n, overrun |-> overrun]
             Answer == [offset : -Half .. Half - 1, row : Rows, overrun : BOOLEAN]
  <2>1. AsInt(vector_written) \in -Half .. Half - 1
    BY AsIntType DEF TypeInv, SectionsOK
  <2>2. answer \in Answer
    BY <2>1 DEF TypeInv, PlaceOK, OutputOK, InARow, FinishRow
  <2>3. answers \in Seq(Answer) /\ answers' = Append(answers, answer)
    BY DEF TypeInv, AnswersOK, FinishRow
  <2> HIDE DEF answer, Answer
  <2>4. /\ DOMAIN answers = 1 .. Len(answers) /\ Len(answers) \in Nat
        /\ DOMAIN answers' = 1 .. Len(answers) + 1
        /\ \A i \in 1 .. Len(answers) : answers'[i] = answers[i]
    BY <2>2, <2>3, AppendProperties
  <2>5. \A i \in DOMAIN answers : i \in DOMAIN answers' /\ answers'[i] = answers[i]
    BY <2>4
  <2>. QED
    BY <1>1, <2>5 DEF Overran
<1>3. TableFits' => TableFits
  BY <1>1 DEF TableFits
<1>4. UcAdded \in Seq(Nat) /\ uc \in Seq(Nat)
  <2>1. cells \in Seq(Word) /\ vector \in Seq(Word) /\ uc \in Seq(Nat)
    BY DEF TypeInv, OutputOK, SectionsOK
  <2>2. Len(cells) \in Nat /\ Len(vector) \in Nat
    BY <2>1, LenProperties
  <2>3. Word \subseteq Nat
    BY WordType DEF Word
  <2>4. cells \in Seq(Nat)
    BY <2>1, <2>3, SeqMonotonic
  <2>. QED
    BY <2>1, <2>2, <2>4, WordsBehind DEF UcAdded
<1>5. UcFits' => UcFits
  <2>1. CASE uc' = uc
    BY <1>4, <2>1 DEF UcFits
  <2>2. CASE uc' = uc \o UcAdded
    <3>1. Len(uc') = Len(uc) + Len(UcAdded)
      BY <1>4, <2>2, JoinedParts
    <3>2. PICK n, more \in Nat : n = Len(uc) /\ Len(uc') = n + more
      BY <1>4, <3>1, LenProperties
    <3>. QED
      BY <3>1, <3>2, WordType DEF UcFits
  <2>. QED
    BY <2>1, <2>2 DEF FinishRow
<1>. QED
  BY <1>2, <1>3, <1>5

(* Where the record of the row that ends lies. *)
LEMMA RowsRecord ==
  ASSUME WordsInv, WordsInv', RowCounted, RecordsKept, FinishRow,
         ~Overran', TableFits', UcFits'
  PROVE  /\ cells \in DOMAIN uniq_cells_lookup'
         /\ uniq_cells_lookup'[cells] = UniqOffset
         /\ \A k \in DOMAIN uniq_cells_lookup :
              /\ k \in DOMAIN uniq_cells_lookup'
              /\ uniq_cells_lookup'[k] = uniq_cells_lookup[k]
         /\ RecordsKept'
         /\ Len(vector) = Cardinality(Open(cells))
<1> USE DEF WordsInv
<1>1. ~Overran /\ ~overrun /\ TableFits /\ UcFits
  BY RowsOnlyGrow DEF Overran
<1>2. \A k \in DOMAIN uniq_cells_lookup :
        k \in Seq(Word) /\ RecordAt(uc, k, uniq_cells_lookup[k] \div 4)
  BY <1>1 DEF RecordsKept, TypeInv, SectionsOK
<1>3. /\ Len(vector) = Cardinality(Open(cells))
      /\ cells \in Seq(Word) /\ uc \in Seq(Nat) /\ Len(uc) \in Nat
  BY <1>1 DEF RowCounted, TypeInv, OutputOK, SectionsOK
<1>4. uniq_cells_lookup' = ST!Put(uniq_cells_lookup, cells, UniqOffset)
  BY DEF FinishRow
<1>5. CASE UniqKnown
  <2>1. uc' = uc /\ UniqOffset = uniq_cells_lookup[cells] /\ cells \in DOMAIN uniq_cells_lookup
    BY <1>5 DEF FinishRow, UniqOffset, UniqKnown
  <2>2. \A k \in DOMAIN uniq_cells_lookup' :
          k \in DOMAIN uniq_cells_lookup /\ uniq_cells_lookup'[k] = uniq_cells_lookup[k]
    BY <1>4, <2>1 DEF ST!Put
  <2>3. RecordsKept'
    BY <1>2, <2>1, <2>2 DEF RecordsKept
  <2>. QED
    BY <1>3, <1>4, <2>1, <2>3 DEF ST!Put
<1>6. CASE ~UniqKnown
  <2>1. /\ uc' = uc \o UcAdded /\ UniqOffset = unique_cells_written
        /\ cells \notin DOMAIN uniq_cells_lookup
    BY <1>6 DEF FinishRow, UniqOffset, UniqKnown
  <2>2. UcAdded = << Len(cells), Cardinality(Open(cells)) >> \o cells
    BY <1>3 DEF UcAdded
  <2>3. UcAdded \in Seq(Nat) /\ RecordAt(uc', cells, Len(uc))
    BY <1>3, <2>1, <2>2, RecordWritten
  <2>4. UniqOffset \div 4 = Len(uc)
    <3>1. UniqOffset = 4 * Len(uc)
      BY <1>1, <2>1 DEF HeaderInv, UcCounted, UcFits
    <3>2. \A n \in Nat : (4 * n) \div 4 = n
      OBVIOUS
    <3>. QED
      BY <1>3, <3>1, <3>2
  <2>5. \A k \in DOMAIN uniq_cells_lookup : RecordAt(uc', k, uniq_cells_lookup[k] \div 4)
    BY <1>2, <1>3, <2>1, <2>3, RecordStays
  <2>6. /\ DOMAIN uniq_cells_lookup' = DOMAIN uniq_cells_lookup \cup {cells}
        /\ uniq_cells_lookup'[cells] = UniqOffset
        /\ \A k \in DOMAIN uniq_cells_lookup : uniq_cells_lookup'[k] = uniq_cells_lookup[k]
    BY <1>4, <2>1 DEF ST!Put
  <2>7. RecordsKept'
    BY <2>3, <2>4, <2>5, <2>6 DEF RecordsKept
  <2>. QED
    BY <1>3, <2>6, <2>7
<1>. QED
  BY <1>5, <1>6

(* A row that has overrun is remembered before the next one begins. *)
OverrunNoted ==
  overrun /\ (pc = "idle" \/ (pc = "precompile" /\ compiling = content)) =>
    \E i \in DOMAIN answers : answers[i].overrun

(* It is noted when it ends. *)
LEMMA StepKeepsNoted ==
  ASSUME WordsInv, WordsInv', OverrunNoted, [Next]_vars
  PROVE  OverrunNoted'
<1> USE DEF WordsInv
<1>1. CASE FinishRow
  <2>1. /\ answers \in Seq([offset : -Half .. Half - 1, row : Rows, overrun : BOOLEAN])
        /\ overrun' = overrun
        /\ answers' = Append(answers, [offset |-> AsInt(vector_written), row |-> p13n,
                                       overrun |-> overrun])
    BY <1>1 DEF FinishRow, TypeInv, AnswersOK, rowVars, outputVars
  <2>2. Len(answers) + 1 \in DOMAIN answers' /\ answers'[Len(answers) + 1].overrun = overrun
    BY <2>1
  <2>. QED
    BY <2>1, <2>2 DEF OverrunNoted
<1>2. CASE CompileDc
  <2>1. Head(stack) \in Cell /\ Head(stack).type = "dc" /\ p13n \in Rows
    BY <1>2, HeadType DEF CompileDc
  <2>2. compiling' \notin Bodies /\ content' \in Bodies /\ pc' = "precompile"
    BY <1>2, <2>1, AlternativeType DEF CompileDc, TypeInv, PlaceOK
  <2>. QED
    BY <2>2 DEF OverrunNoted
<1>3. CASE SpliceDc \/ EmitStatic \/ EmitKnown \/ EmitValue
  BY <1>3 DEF SpliceDc, EmitStatic, EmitKnown, EmitValue, AtCell, OverrunNoted
<1>4. CASE SpliceNothing \/ EmitNull \/ PrecompileExits \/ OverrunCrashes \/ Finish
  BY <1>4 DEF SpliceNothing, EmitNull, PrecompileExits, OverrunCrashes, Finish, OverrunNoted
<1>5. CASE \E p \in Rows : BeginAdd(p)
  BY <1>5 DEF BeginAdd, OverrunNoted
<1>6. CASE PrecompileEnd
  BY <1>6 DEF PrecompileEnd, OverrunNoted, rowVars, outputVars, fileVars, Next, Step, Stopped,
              vars
<1>7. CASE PrecompileText \/ PrecompileKnownTag \/ PrecompileNewTag \/ PrecompileUnknownTag
  <2>1. UNCHANGED << pc, compiling, rowVars, fileVars >>
    BY <1>7 DEF PrecompileText, PrecompileKnownTag, PrecompileNewTag, PrecompileUnknownTag,
                AtSegment
  <2>2. UNCHANGED content
    BY DEF Next, Step, Stopped, vars
  <2>. QED
    BY <2>1, <2>2 DEF OverrunNoted, rowVars, outputVars, fileVars
<1>8. CASE UNCHANGED vars
  BY <1>8 DEF vars, compileVars, rowVars, outputVars, fileVars, OverrunNoted
<1>. QED
  BY <1>1, <1>2, <1>3, <1>4, <1>5, <1>6, <1>7, <1>8 DEF Next, Step, Stopped

(* Only the end of a row adds to the sections. *)
LEMMA OnlyRowsWrite ==
  ASSUME WordsInv, WordsInv', OverrunNoted, [Next]_vars, ~FinishRow
  PROVE  /\ UNCHANGED fileVars
         /\ ~Overran' => ~Overran
         /\ TableFits' => TableFits
<1> USE DEF WordsInv
<1>1. CASE PrecompileText \/ EmitValue
  <2>1. \E s \in Strings : ST!AddString(s)
    <3>1. CASE PrecompileText
      BY <3>1, SegmentType DEF PrecompileText, AtSegment, TypeInv
    <3>2. CASE EmitValue
      <4>1. /\ Head(stack) \in Cell /\ p13n \in Rows /\ Head(stack).type \in {"p13n", "dt"}
        BY <3>2, HeadType DEF EmitValue
      <4>. QED
        BY <3>2, <4>1, ValueType DEF EmitValue
    <3>. QED
      BY <1>1, <3>1, <3>2
  <2>2. TableFits' => TableFits
    BY <2>1, CounterGrows DEF HeaderInv
  <2>3. UNCHANGED fileVars /\ (overrun' = overrun \/ overrun' = TRUE)
    BY <1>1 DEF PrecompileText, EmitValue, AtSegment, rowVars, outputVars
  <2>. QED
    BY <2>2, <2>3 DEF Overran, fileVars, TypeInv, OutputOK
<1>2. CASE \E p \in Rows : BeginAdd(p)
  <2>1. UNCHANGED << fileVars, tableVars >> /\ pc = "idle"
    BY <1>2 DEF BeginAdd
  <2>. QED
    BY <2>1 DEF OverrunNoted, Overran, fileVars, tableVars, TableFits
<1>3. CASE ~(PrecompileText \/ EmitValue \/ \E p \in Rows : BeginAdd(p))
  <2>1. UNCHANGED << fileVars, tableVars >> /\ (overrun' = overrun \/ overrun' = TRUE)
    <3>1. CASE PrecompileKnownTag \/ PrecompileNewTag \/ PrecompileUnknownTag \/ PrecompileEnd
      BY <3>1 DEF PrecompileKnownTag, PrecompileNewTag, PrecompileUnknownTag, PrecompileEnd,
                  AtSegment, rowVars, outputVars
    <3>2. CASE SpliceDc \/ EmitStatic \/ EmitKnown \/ OverrunCrashes
      BY <3>2 DEF SpliceDc, EmitStatic, EmitKnown, OverrunCrashes
    <3>3. CASE \/ CompileDc \/ SpliceNothing \/ EmitNull \/ PrecompileExits \/ Finish
               \/ UNCHANGED vars
      BY <3>3 DEF CompileDc, SpliceNothing, EmitNull, PrecompileExits, Finish, vars, rowVars,
                  outputVars
    <3>. QED
      BY <1>3, <3>1, <3>2, <3>3 DEF Next, Step, Stopped
  <2>. QED
    BY <2>1 DEF Overran, fileVars, tableVars, TableFits, TypeInv, OutputOK
<1>. QED
  BY <1>1, <1>2, <1>3

(* Every step keeps the records where they are. *)
LEMMA StepKeepsRecords ==
  ASSUME WordsInv, WordsInv', RowCounted, OverrunNoted, RecordsKept, [Next]_vars
  PROVE  RecordsKept'
<1> SUFFICES ASSUME ~Overran', TableFits', UcFits'
             PROVE  \A k \in DOMAIN uniq_cells_lookup' :
                      RecordAt(uc', k, uniq_cells_lookup'[k] \div 4)
  BY DEF RecordsKept
<1>1. CASE FinishRow
  BY <1>1, RowsRecord DEF RecordsKept
<1>2. CASE ~FinishRow
  BY <1>2, OnlyRowsWrite DEF RecordsKept, UcFits, fileVars
<1>. QED
  BY <1>1, <1>2

(* What the steps keep of the records. *)
RecordsInv == WordsInv /\ RowCounted /\ OverrunNoted /\ RecordsKept

(* There is no record at first, and no row. *)
LEMMA RecordsInit == Init => RecordsInv
<1> SUFFICES ASSUME Init PROVE RecordsInv
  OBVIOUS
<1>1. /\ overrun = FALSE /\ cells = << >> /\ vector = << >>
      /\ uniq_cells_lookup = ST!NoEntry
  BY DEF Init
<1>2. Open(<< >>) = {} /\ Cardinality({}) = 0
  BY FS_EmptySet DEF Open
<1>3. RowCounted
  BY <1>1, <1>2 DEF RowCounted
<1>4. OverrunNoted /\ RecordsKept
  BY <1>1 DEF OverrunNoted, RecordsKept, ST!NoEntry
<1>. QED
  BY <1>3, <1>4, WordsInvInductive DEF RecordsInv

LEMMA RecordsInvInductive == RecordsInv /\ [Next]_vars => RecordsInv'
  BY WordsInvInductive, StepKeepsCounted, StepKeepsNoted, StepKeepsRecords DEF RecordsInv

(* A record of unique cells says how many cells it has and how many of     *)
(* them frf_next is to step over in the vector.                            *)
THEOREM UniqueCellsSoundHolds == Spec => []UniqueCellsSound
<1>1. RecordsInv => UniqueCellsSound
  <2> SUFFICES ASSUME RecordsInv, ~Overran, TableFits, UcFits,
                      NEW k \in DOMAIN uniq_cells_lookup
               PROVE  LET at == uniq_cells_lookup[k] \div 4 IN
                      SubSeq(uc, at + 1, at + 2 + Len(k)) =
                        << Len(k), Cardinality({i \in DOMAIN k : k[i] = InVector}) >> \o k
    BY DEF UniqueCellsSound
  <2>1. PICK at : at = uniq_cells_lookup[k] \div 4
    OBVIOUS
  <2>2. RecordAt(uc, k, at) /\ k \in Seq(Word) /\ uc \in Seq(Nat)
    BY <2>1 DEF RecordsInv, RecordsKept, WordsInv, TypeInv, SectionsOK
  <2>3. /\ Cardinality(Open(k)) \in Nat /\ Len(k) \in Nat /\ k \in Seq(Nat)
        /\ Len(uc) \in Nat
    <3>1. Word \subseteq Nat
      BY WordType DEF Word
    <3>. QED
      BY <2>2, <3>1, OpenAppend, WordType, SeqMonotonic, LenProperties
  <2> DEFINE part == SubSeq(uc, at + 1, at + 2 + Len(k))
             record == << Len(k), Cardinality(Open(k)) >> \o k
  <2>4. /\ record \in Seq(Nat) /\ Len(record) = 2 + Len(k)
        /\ record[1] = Len(k) /\ record[2] = Cardinality(Open(k))
        /\ \A i \in 1 .. Len(k) : record[2 + i] = k[i]
    BY <2>3, WordsBehind
  <2>5. /\ part \in Seq(Nat) /\ Len(part) = 2 + Len(k)
        /\ \A i \in 1 .. 2 + Len(k) : part[i] = uc[at + i]
    <3>1. /\ at \in Nat /\ at + 1 \in Int /\ at + 2 + Len(k) \in Int
          /\ at + 2 + Len(k) <= Len(uc)
      BY <2>2, <2>3 DEF RecordAt
    <3>2. \A i \in at + 1 .. at + 2 + Len(k) : uc[i] \in Nat
      <4> TAKE i \in at + 1 .. at + 2 + Len(k)
      <4>1. i \in 1 .. Len(uc)
        BY <2>3, <3>1
      <4>. QED
        BY <2>2, <4>1, ElementOfSeq
    <3>3. /\ part \in Seq(Nat)
          /\ Len(part) = IF at + 1 <= at + 2 + Len(k)
                           THEN (at + 2 + Len(k)) - (at + 1) + 1 ELSE 0
          /\ \A i \in 1 .. (at + 2 + Len(k)) - (at + 1) + 1 : part[i] = uc[at + 1 + i - 1]
      BY <3>1, <3>2, SubSeqProperties
    <3>4. (at + 2 + Len(k)) - (at + 1) + 1 = 2 + Len(k) /\ at + 1 <= at + 2 + Len(k)
      BY <2>3, <3>1
    <3>5. \A i \in 1 .. 2 + Len(k) : at + 1 + i - 1 = at + i
      BY <3>1
    <3>. QED
      BY <3>3, <3>4, <3>5
  <2> HIDE DEF part, record
  <2>6. \A i \in 1 .. Len(part) : part[i] = record[i]
    <3> TAKE i \in 1 .. Len(part)
    <3>1. at \in Nat /\ i \in 1 .. 2 + Len(k)
      BY <2>2, <2>5 DEF RecordAt
    <3>2. CASE i = 1
      BY <2>2, <2>4, <2>5, <3>1, <3>2 DEF RecordAt
    <3>3. CASE i = 2
      BY <2>2, <2>4, <2>5, <3>1, <3>3 DEF RecordAt
    <3>4. CASE i \notin {1, 2}
      <4>1. PICK j \in 1 .. Len(k) : i = 2 + j
        BY <2>3, <3>1, <3>4
      <4>2. at + i = at + 2 + j
        BY <2>3, <3>1, <4>1
      <4>3. uc[at + 2 + j] = k[j]
        BY <2>2 DEF RecordAt
      <4>. QED
        BY <2>4, <2>5, <3>1, <4>1, <4>2, <4>3
    <3>. QED
      BY <3>2, <3>3, <3>4
  <2>7. part = record
    BY <2>4, <2>5, <2>6, SeqEqual
  <2>. QED
    BY <2>1, <2>7 DEF part, record, Open
<1>. QED
  BY <1>1, RecordsInit, RecordsInvInductive, PTL DEF Spec

-----------------------------------------------------------------------------
(* The row pointer an answer of frf_maker_add stands for. *)
Pointed(answer) == (answer.offset % (2 * Half)) \div 4

(* The counter of the vectors is what it counts, as long as that fits. *)
VCounted == VFits => vector_written = 4 * Len(v)

(* The rows lie one behind the other: each answer points at a reference to *)
(* a record, behind which the row has a word for each cell left open.      *)
RowsKept ==
  ~Overran /\ TableFits /\ UcFits /\ VFits =>
    /\ answers = << >> => v = << >>
    /\ answers # << >> => Pointed(answers[1]) = 0
    /\ \A i \in 1 .. Len(answers) : \E k \in DOMAIN uniq_cells_lookup :
         /\ Pointed(answers[i]) + 1 \in 1 .. Len(v)
         /\ v[Pointed(answers[i]) + 1] = uniq_cells_lookup[k]
         /\ Pointed(answers[i]) + Cardinality(Open(k)) + 1 =
              IF i = Len(answers) THEN Len(v) ELSE Pointed(answers[i + 1])

(* An int that was a word is that word again. *)
LEMMA AsIntBack ==
  ASSUME NEW w \in Word
  PROVE  AsInt(w) % (2 * Half) = w
<1> DEFINE m == 2 * Half
<1>1. m \in Nat \ {0} /\ w \in Nat /\ w < m
  BY WordType DEF Word
<1>2. AsInt(w) = w \/ AsInt(w) = w - m
  BY DEF AsInt
<1> HIDE DEF m
<1>3. \A a, b \in Nat : b # 0 /\ a < b => a % b = a /\ (a - b) % b = a
  OBVIOUS
<1>4. AsInt(w) % m = w
  BY <1>1, <1>2, <1>3
<1>. QED
  BY <1>4 DEF m

(* What the end of a row does to the vectors and the answers. *)
LEMMA RowWritten ==
  ASSUME WordsInv, WordsInv', VCounted, FinishRow, VFits'
  PROVE  /\ VFits /\ vector_written = 4 * Len(v)
         /\ Len(v) \in Nat /\ Len(vector) \in Nat /\ Len(answers) \in Nat
         /\ Len(v') = Len(v) + 1 + Len(vector)
         /\ \A i \in 1 .. Len(v) : v'[i] = v[i]
         /\ v'[Len(v) + 1] = UniqOffset
         /\ Len(answers') = Len(answers) + 1
         /\ \A i \in 1 .. Len(answers) : answers'[i] = answers[i]
         /\ Pointed(answers'[Len(answers) + 1]) = Len(v)
<1> USE DEF WordsInv
<1>1. /\ v \in Seq(Word) /\ vector \in Seq(Word) /\ UniqOffset \in Word
      /\ vector_written \in Word
  BY DEF TypeInv, OutputOK, SectionsOK, UniqOffset, UniqKnown
<1>2. Len(v) \in Nat /\ Len(vector) \in Nat
  BY <1>1, LenProperties
<1> DEFINE begun == v \o << UniqOffset >>
<1>3. << UniqOffset >> \in Seq(Word) /\ Len(<< UniqOffset >>) = 1
      /\ << UniqOffset >>[1] = UniqOffset
  BY <1>1
<1>4. /\ begun \in Seq(Word) /\ Len(begun) = Len(v) + 1
      /\ \A i \in 1 .. Len(v) : begun[i] = v[i]
      /\ begun[Len(v) + 1] = UniqOffset
  BY <1>1, <1>2, <1>3, ConcatProperties
<1>5. v' = begun \o vector
  BY DEF FinishRow
<1> HIDE DEF begun
<1>6. /\ Len(v') = Len(begun) + Len(vector)
      /\ \A i \in 1 .. Len(begun) : v'[i] = begun[i]
  BY <1>1, <1>4, <1>5, JoinedParts
<1>7. /\ Len(v') = Len(v) + 1 + Len(vector)
      /\ \A i \in 1 .. Len(v) : v'[i] = v[i]
      /\ v'[Len(v) + 1] = UniqOffset
  BY <1>2, <1>4, <1>6
<1>8. VFits
  <2>1. PICK n, more \in Nat : n = Len(v) /\ Len(v') = n + more
    BY <1>2, <1>7
  <2>. QED
    BY <2>1, WordType DEF VFits
<1>9. vector_written = 4 * Len(v)
  BY <1>8 DEF VCounted
<1> DEFINE answer == [offset |-> AsInt(vector_written), row |-> p13n, overrun |-> overrun]
           Answer == [offset : -Half .. Half - 1, row : Rows, overrun : BOOLEAN]
<1>10. answer \in Answer
  BY <1>1, AsIntType DEF FinishRow, TypeInv, PlaceOK, OutputOK, InARow
<1>11. answers \in Seq(Answer) /\ answers' = Append(answers, answer)
  BY DEF TypeInv, AnswersOK, FinishRow
<1>12. Pointed(answer) = Len(v)
  <2>1. AsInt(vector_written) % (2 * Half) = 4 * Len(v)
    BY <1>1, <1>9, AsIntBack
  <2>2. \A n \in Nat : (4 * n) \div 4 = n
    OBVIOUS
  <2>. QED
    BY <1>2, <2>1, <2>2 DEF Pointed
<1> HIDE DEF answer, Answer
<1>13. /\ Len(answers) \in Nat /\ Len(answers') = Len(answers) + 1
       /\ \A i \in 1 .. Len(answers) : answers'[i] = answers[i]
       /\ answers'[Len(answers) + 1] = answer
  BY <1>10, <1>11, AppendProperties, LenProperties
<1>. QED
  BY <1>2, <1>7, <1>8, <1>9, <1>12, <1>13

(* The row that ends lies behind all others. *)
LEMMA RowKeepsRows ==
  ASSUME RecordsInv, RecordsInv', VCounted, RowsKept, FinishRow
  PROVE  VCounted' /\ RowsKept'
<1> USE DEF RecordsInv
<1>1. VCounted'
  <2> SUFFICES ASSUME VFits' PROVE vector_written' = 4 * Len(v')
    BY DEF VCounted
  <2>1. /\ vector_written = 4 * Len(v) /\ Len(v) \in Nat /\ Len(vector) \in Nat
        /\ Len(v') = Len(v) + 1 + Len(vector)
    BY RowWritten
  <2>2. vector_written' = (vector_written + 4 * (Len(vector) + 1)) % (2 * Half)
    BY DEF FinishRow, Add32
  <2>3. PICK a, b, c \in Nat : a = Len(v) /\ b = Len(vector) /\ c = Len(v') /\ c = a + 1 + b
    BY <2>1
  <2> DEFINE n == 4 * a
             more == 4 * (b + 1)
  <2>4. n \in Nat /\ more \in Nat /\ n + more = 4 * c
    BY <2>3
  <2>5. n + more < 2 * Half
    BY <2>3, <2>4 DEF VFits
  <2>6. vector_written' = (n + more) % (2 * Half)
    BY <2>1, <2>2, <2>3
  <2> HIDE DEF n, more
  <2>7. vector_written' = n + more
    BY <2>4, <2>5, <2>6, SumFits
  <2>. QED
    BY <2>3, <2>4, <2>7
<1>2. ASSUME ~Overran', TableFits', UcFits', VFits'
      PROVE  /\ answers' = << >> => v' = << >>
             /\ answers' # << >> => Pointed(answers'[1]) = 0
             /\ \A i \in 1 .. Len(answers') : \E k \in DOMAIN uniq_cells_lookup' :
                  /\ Pointed(answers'[i]) + 1 \in 1 .. Len(v')
                  /\ v'[Pointed(answers'[i]) + 1] = uniq_cells_lookup'[k]
                  /\ Pointed(answers'[i]) + Cardinality(Open(k)) + 1 =
                       IF i = Len(answers') THEN Len(v') ELSE Pointed(answers'[i + 1])
  <2>1. ~Overran /\ TableFits /\ UcFits
    BY <1>2, RowsOnlyGrow
  <2>2. /\ VFits /\ vector_written = 4 * Len(v)
        /\ Len(v) \in Nat /\ Len(vector) \in Nat /\ Len(answers) \in Nat
        /\ Len(v') = Len(v) + 1 + Len(vector)
        /\ \A i \in 1 .. Len(v) : v'[i] = v[i]
        /\ v'[Len(v) + 1] = UniqOffset
        /\ Len(answers') = Len(answers) + 1
        /\ \A i \in 1 .. Len(answers) : answers'[i] = answers[i]
        /\ Pointed(answers'[Len(answers) + 1]) = Len(v)
    BY <1>2, RowWritten
  <2>3. /\ cells \in DOMAIN uniq_cells_lookup'
        /\ uniq_cells_lookup'[cells] = UniqOffset
        /\ \A k \in DOMAIN uniq_cells_lookup :
             /\ k \in DOMAIN uniq_cells_lookup'
             /\ uniq_cells_lookup'[k] = uniq_cells_lookup[k]
        /\ Len(vector) = Cardinality(Open(cells))
    BY <1>2, RowsRecord
  <2>4. /\ answers = << >> => v = << >>
        /\ answers # << >> => Pointed(answers[1]) = 0
        /\ \A i \in 1 .. Len(answers) : \E k \in DOMAIN uniq_cells_lookup :
             /\ Pointed(answers[i]) + 1 \in 1 .. Len(v)
             /\ v[Pointed(answers[i]) + 1] = uniq_cells_lookup[k]
             /\ Pointed(answers[i]) + Cardinality(Open(k)) + 1 =
                  IF i = Len(answers) THEN Len(v) ELSE Pointed(answers[i + 1])
    BY <2>1, <2>2 DEF RowsKept
  <2>5. answers' # << >>
    BY <2>2
  <2>6. Pointed(answers'[1]) = 0
    <3>1. CASE answers = << >>
      <4>1. Len(v) = 0 /\ Len(answers) = 0
        BY <2>4, <3>1
      <4>. QED
        BY <2>2, <4>1
    <3>2. CASE answers # << >>
      <4>1. 1 \in 1 .. Len(answers)
        BY <2>2, <3>2, EmptySeq DEF WordsInv, TypeInv, AnswersOK
      <4>. QED
        BY <2>2, <2>4, <3>2, <4>1
    <3>. QED
      BY <3>1, <3>2
  <2>7. ASSUME NEW i \in 1 .. Len(answers')
        PROVE  \E k \in DOMAIN uniq_cells_lookup' :
                  /\ Pointed(answers'[i]) + 1 \in 1 .. Len(v')
                  /\ v'[Pointed(answers'[i]) + 1] = uniq_cells_lookup'[k]
                  /\ Pointed(answers'[i]) + Cardinality(Open(k)) + 1 =
                       IF i = Len(answers') THEN Len(v') ELSE Pointed(answers'[i + 1])
    <3>1. CASE i = Len(answers) + 1
      <4>1. Pointed(answers'[i]) = Len(v) /\ i = Len(answers')
        BY <2>2, <3>1
      <4>2. Len(v) + 1 \in 1 .. Len(v')
        BY <2>2
      <4>3. v'[Len(v) + 1] = uniq_cells_lookup'[cells]
        BY <2>2, <2>3
      <4>4. Len(v) + Cardinality(Open(cells)) + 1 = Len(v')
        BY <2>2, <2>3
      <4>. QED
        BY <2>3, <4>1, <4>2, <4>3, <4>4
    <3>2. CASE i # Len(answers) + 1
      <4>1. i \in 1 .. Len(answers) /\ answers'[i] = answers[i] /\ i # Len(answers')
        BY <2>2, <2>7, <3>2
      <4>2. PICK k \in DOMAIN uniq_cells_lookup :
              /\ Pointed(answers[i]) + 1 \in 1 .. Len(v)
              /\ v[Pointed(answers[i]) + 1] = uniq_cells_lookup[k]
              /\ Pointed(answers[i]) + Cardinality(Open(k)) + 1 =
                   IF i = Len(answers) THEN Len(v) ELSE Pointed(answers[i + 1])
        BY <2>4, <4>1
      <4>3. Pointed(answers'[i + 1]) = IF i = Len(answers) THEN Len(v) ELSE Pointed(answers[i + 1])
        <5>1. CASE i = Len(answers)
          BY <2>2, <5>1
        <5>2. CASE i # Len(answers)
          <6>1. i + 1 \in 1 .. Len(answers)
            BY <2>2, <4>1, <5>2
          <6>. QED
            BY <2>2, <5>2, <6>1
        <5>. QED
          BY <5>1, <5>2
      <4>4. Pointed(answers[i]) + 1 \in 1 .. Len(v')
        BY <2>2, <4>2
      <4>. QED
        BY <2>2, <2>3, <4>1, <4>2, <4>3, <4>4
    <3>. QED
      BY <3>1, <3>2
  <2>. QED
    BY <2>5, <2>6, <2>7
<1>3. RowsKept'
  BY <1>2 DEF RowsKept
<1>. QED
  BY <1>1, <1>3

(* What the steps keep of the rows. *)
RowsInv == RecordsInv /\ VCounted /\ RowsKept

LEMMA RowsInit == Init => RowsInv
<1> SUFFICES ASSUME Init PROVE RowsInv
  OBVIOUS
<1>1. v = << >> /\ vector_written = 0 /\ answers = << >>
  BY DEF Init
<1>2. VCounted
  BY <1>1 DEF VCounted
<1>3. RowsKept
  BY <1>1 DEF RowsKept
<1>. QED
  BY <1>2, <1>3, RecordsInit DEF RowsInv

(* Nothing but the end of a row changes the vectors. *)
LEMMA RowsInvInductive == RowsInv /\ [Next]_vars => RowsInv'
<1> SUFFICES ASSUME RowsInv, [Next]_vars PROVE RowsInv'
  OBVIOUS
<1>1. RecordsInv /\ RecordsInv'
  BY RecordsInvInductive DEF RowsInv
<1>2. CASE FinishRow
  BY <1>1, <1>2, RowKeepsRows DEF RowsInv
<1>3. CASE ~FinishRow
  <2>1. /\ UNCHANGED << uniq_cells_lookup, uc, v, vector_written, answers >>
        /\ ~Overran' => ~Overran
        /\ TableFits' => TableFits
    BY <1>1, <1>3, OnlyRowsWrite DEF RecordsInv, fileVars
  <2>2. VCounted'
    BY <2>1 DEF RowsInv, VCounted, VFits
  <2>3. RowsKept'
    <3> SUFFICES ASSUME ~Overran', TableFits', UcFits', VFits'
                 PROVE  RowsKept!2'
      BY DEF RowsKept
    <3>1. ~Overran /\ TableFits /\ UcFits /\ VFits
      BY <2>1 DEF UcFits, VFits
    <3>. QED
      BY <2>1, <3>1 DEF RowsInv, RowsKept
  <2>. QED
    BY <1>1, <2>2, <2>3 DEF RowsInv
<1>. QED
  BY <1>2, <1>3

(* The reader steps from each row to the next: frf_next, which adds the    *)
(* number it finds in the record to the row pointer, meets every row that  *)
(* frf_maker_add returned, in order, and stops where the last one ends.    *)
THEOREM RowsInStepHolds == Spec => []RowsInStep
<1>1. RowsInv => RowsInStep
  <2> DEFINE row(i) == (answers[i].offset % (2 * Half)) \div 4
             next(i) == row(i) + ToSkip(Sections, row(i))
  <2> SUFFICES ASSUME RowsInv, ~Overran, TableFits, UcFits, VFits
               PROVE  /\ answers = << >> => v = << >>
                      /\ answers # << >> => row(1) = 0 /\ next(Len(answers)) = Len(v)
                      /\ \A i \in 1 .. Len(answers) - 1 : row(i + 1) = next(i)
    BY DEF RowsInStep
  <2>1. \A i : row(i) = Pointed(answers[i])
    BY DEF Pointed
  <2>2. Len(answers) \in Nat /\ (answers # << >> => Len(answers) # 0)
    BY EmptySeq, LenProperties DEF RowsInv, RecordsInv, WordsInv, TypeInv, AnswersOK
  <2>3. ASSUME NEW i \in 1 .. Len(answers)
        PROVE  next(i) = IF i = Len(answers) THEN Len(v) ELSE row(i + 1)
    <3>1. PICK k \in DOMAIN uniq_cells_lookup :
            /\ Pointed(answers[i]) + 1 \in 1 .. Len(v)
            /\ v[Pointed(answers[i]) + 1] = uniq_cells_lookup[k]
            /\ Pointed(answers[i]) + Cardinality(Open(k)) + 1 =
                 IF i = Len(answers) THEN Len(v) ELSE Pointed(answers[i + 1])
      BY DEF RowsInv, RowsKept
    <3>2. PICK at : at = uniq_cells_lookup[k] \div 4
      OBVIOUS
    <3>3. RecordAt(uc, k, at)
      BY <3>2 DEF RowsInv, RecordsInv, RecordsKept
    <3>4. v \in Seq(Word) /\ uc \in Seq(Nat) /\ k \in Seq(Word)
      BY DEF RowsInv, RecordsInv, WordsInv, TypeInv, SectionsOK
    <3>5. DOMAIN v = 1 .. Len(v) /\ DOMAIN uc = 1 .. Len(uc) /\ Len(k) \in Nat
          /\ Len(uc) \in Nat
      BY <3>4, LenProperties
    <3>6. UcOffset(Sections, row(i)) = uniq_cells_lookup[k]
      BY <2>1, <3>1, <3>5 DEF UcOffset, WordAt, Sections
    <3>7. UcVectorCount(Sections, row(i)) = Cardinality(Open(k))
      <4>1. at + 2 \in DOMAIN uc /\ uc[at + 2] = Cardinality(Open(k))
        BY <3>3, <3>5 DEF RecordAt
      <4>2. UcVectorCount(Sections, row(i)) = WordAt(uc, at + 2)
        BY <3>2, <3>6 DEF UcVectorCount, Sections
      <4>. QED
        BY <4>1, <4>2 DEF WordAt
    <3>8. next(i) = Pointed(answers[i]) + (Cardinality(Open(k)) + 1)
      BY <2>1, <3>7 DEF ToSkip
    <3>9. Cardinality(Open(k)) \in Nat /\ Pointed(answers[i]) \in Int
      <4>1. Word \subseteq Nat /\ Half \in Nat \ {0}
        BY WordType DEF Word
      <4>2. Cardinality(Open(k)) \in Nat
        BY <3>4, OpenAppend, WordType
      <4>3. answers[i] \in [offset : -Half .. Half - 1, row : Rows, overrun : BOOLEAN]
        BY ElementOfSeq DEF RowsInv, RecordsInv, WordsInv, TypeInv, AnswersOK
      <4>4. PICK n \in Int : n = answers[i].offset
        BY <4>1, <4>3
      <4>5. PICK m \in Nat \ {0} : m = 2 * Half
        BY <4>1
      <4>6. n % m \in Int
        BY <4>4, <4>5
      <4>7. (n % m) \div 4 \in Int
        BY <4>6
      <4>. QED
        BY <4>2, <4>4, <4>5, <4>7 DEF Pointed
    <3>. QED
      BY <2>1, <3>1, <3>8, <3>9
  <2> HIDE DEF row, next
  <2>4. answers = << >> => v = << >>
    BY DEF RowsInv, RowsKept
  <2>5. ASSUME answers # << >> PROVE row(1) = 0 /\ next(Len(answers)) = Len(v)
    <3>1. Len(answers) \in 1 .. Len(answers)
      BY <2>2, <2>5
    <3>. QED
      BY <2>1, <2>3, <2>5, <3>1 DEF RowsInv, RowsKept
  <2>6. ASSUME NEW i \in 1 .. Len(answers) - 1 PROVE row(i + 1) = next(i)
    BY <2>2, <2>3
  <2>. QED
    BY <2>4, <2>5, <2>6
<1>. QED
  BY <1>1, RowsInit, RowsInvInductive, PTL DEF Spec

-----------------------------------------------------------------------------
(* A set of numbers that is not empty has a least one: among the intervals *)
(* from zero to each of them, one is contained in no other.                *)
LEMMA LeastNumber ==
  ASSUME NEW T, T \subseteq Nat, T # {}
  PROVE  \E x \in T : \A y \in T : x <= y
<1> DEFINE O == StrictSubsetOrdering(Nat)
           F == FiniteSubsetsOf(Nat)
           I == {0 .. k : k \in T}
<1>1. IsWellFoundedOn(O, F)
  BY FS_StrictSubsetOrderingWellFounded
<1>2. \A k \in T : IsFiniteSet(0 .. k) /\ 0 .. k \subseteq Nat
  BY FS_Interval
<1>3. I \subseteq F /\ I # {}
  BY <1>2 DEF FiniteSubsetsOf
<1>4. \A x, y \in T : y < x => << 0 .. y, 0 .. x >> \in O
  <2> SUFFICES ASSUME NEW x \in T, NEW y \in T, y < x PROVE << 0 .. y, 0 .. x >> \in O
    OBVIOUS
  <2>1. 0 .. y \subseteq 0 .. x /\ x \in 0 .. x /\ x \notin 0 .. y /\ 0 .. x \subseteq Nat
    OBVIOUS
  <2>. QED
    BY <2>1 DEF StrictSubsetOrdering
<1> HIDE DEF O, F
<1>5. \E i \in I : \A j \in I : ~(<< j, i >> \in O)
  BY <1>1, <1>3, WFMin
<1>6. PICK x \in T : \A y \in T : ~(<< 0 .. y, 0 .. x >> \in O)
  BY <1>5
<1>7. \A y \in T : x \in Nat /\ y \in Nat /\ ~(y < x)
  BY <1>4, <1>6
<1>. QED
  BY <1>6, <1>7

(* Induction over the numbers, for a set of them. *)
LEMMA AllNumbers ==
  ASSUME NEW S, 0 \in S, \A n \in S \cap Nat : n + 1 \in S
  PROVE  Nat \subseteq S
<1> DEFINE T == Nat \ S
<1> SUFFICES ASSUME T # {} PROVE FALSE
  OBVIOUS
<1>1. PICK x \in T : \A y \in T : x <= y
  BY LeastNumber
<1>2. x # 0 /\ x - 1 \in Nat /\ ~(x <= x - 1)
  BY <1>1
<1>3. x - 1 \in S
  BY <1>1, <1>2
<1>4. (x - 1) + 1 \in S
  BY <1>2, <1>3
<1>. QED
  BY <1>2, <1>4

-----------------------------------------------------------------------------
(* What a row can come to: strings, and places without a value. *)
TextSeqs == Seq(Strings \cup {NoValue})

(* Prefixes of the pieces joined: the n-th joins the first n. *)
Joined(pieces) ==
  CHOOSE f : f = [i \in 1 .. Len(pieces) |->
                    IF i = 1 THEN pieces[i] ELSE f[i - 1] \o pieces[i]]
UpTo(pieces, n) == IF n = 0 THEN << >> ELSE Joined(pieces)[n]

(* There are such prefixes, for any number of pieces. *)
LEMMA PrefixesExist ==
  ASSUME NEW pieces
  PROVE  \A n \in Nat : \E f : f = [i \in 1 .. n |->
                                     IF i = 1 THEN pieces[i] ELSE f[i - 1] \o pieces[i]]
<1> DEFINE Prefixed(f, n) ==
             f = [i \in 1 .. n |-> IF i = 1 THEN pieces[i] ELSE f[i - 1] \o pieces[i]]
           S == {n \in Nat : \E f : Prefixed(f, n)}
<1>1. 0 \in S
  <2>1. Prefixed([i \in 1 .. 0 |-> 0], 0)
    OBVIOUS
  <2>. QED
    BY <2>1
<1>2. ASSUME NEW n \in S \cap Nat PROVE n + 1 \in S
  <2>1. PICK f : Prefixed(f, n)
    OBVIOUS
  <2> DEFINE last == IF n = 0 THEN pieces[1] ELSE f[n] \o pieces[n + 1]
  <2>2. \A i \in 1 .. n : f[i] = IF i = 1 THEN pieces[i] ELSE f[i - 1] \o pieces[i]
    BY <2>1
  <2>3. PICK g : g = [i \in 1 .. n + 1 |-> IF i = n + 1 THEN last ELSE f[i]]
    OBVIOUS
  <2>4. (n = 0 => last = pieces[1]) /\ (n # 0 => last = f[n] \o pieces[n + 1])
    OBVIOUS
  <2> HIDE DEF last
  <2>5. n + 1 \in 1 .. n + 1 /\ \A i \in 1 .. n : i \in 1 .. n + 1 /\ i # n + 1
    OBVIOUS
  <2>6. g[n + 1] = last /\ \A i \in 1 .. n : g[i] = f[i]
    BY <2>3, <2>5
  <2>7. ASSUME NEW i \in 1 .. n + 1
        PROVE  g[i] = IF i = 1 THEN pieces[i] ELSE g[i - 1] \o pieces[i]
    <3>1. CASE i = n + 1 /\ n = 0
      BY <2>4, <2>6, <3>1
    <3>2. CASE i = n + 1 /\ n # 0
      <4>1. n \in 1 .. n /\ i - 1 = n /\ i # 1
        BY <3>2
      <4>2. g[n] = f[n] /\ g[i] = last
        BY <2>6, <3>2, <4>1
      <4>. QED
        BY <2>4, <3>2, <4>1, <4>2
    <3>3. CASE i # n + 1
      <4>1. i \in 1 .. n /\ (i # 1 => i - 1 \in 1 .. n)
        BY <3>3
      <4>. QED
        BY <2>2, <2>6, <4>1
    <3>. QED
      BY <3>1, <3>2, <3>3
  <2>8. g = [i \in 1 .. n + 1 |-> IF i = 1 THEN pieces[i] ELSE g[i - 1] \o pieces[i]]
    BY <2>3, <2>7
  <2>9. Prefixed(g, n + 1)
    BY <2>8
  <2> HIDE DEF Prefixed
  <2>. QED
    BY <2>9
<1> HIDE DEF S
<1>3. Nat \subseteq S
  BY <1>1, <1>2, AllNumbers
<1>. QED
  BY <1>3 DEF S

(* Each prefix is the one before it and its piece, and all pieces joined   *)
(* are what SequencesExt makes of them.                                    *)
LEMMA PrefixesAre ==
  ASSUME NEW pieces, Len(pieces) \in Nat
  PROVE  /\ UpTo(pieces, 0) = << >>
         /\ \A n \in 1 .. Len(pieces) :
              UpTo(pieces, n) = IF n = 1 THEN pieces[n] ELSE UpTo(pieces, n - 1) \o pieces[n]
         /\ Len(pieces) # 0 => FlattenSeq(pieces) = UpTo(pieces, Len(pieces))
         /\ Len(pieces) = 0 => FlattenSeq(pieces) = pieces
<1> DEFINE f == Joined(pieces)
<1>1. f = [i \in 1 .. Len(pieces) |-> IF i = 1 THEN pieces[i] ELSE f[i - 1] \o pieces[i]]
  BY PrefixesExist DEF Joined
<1> HIDE DEF f
<1>2. \A n \in 1 .. Len(pieces) :
        f[n] = IF n = 1 THEN pieces[n] ELSE f[n - 1] \o pieces[n]
  BY <1>1
<1>3. \A n \in 1 .. Len(pieces) : UpTo(pieces, n) = f[n]
  BY DEF UpTo, f
<1>4. \A n \in 1 .. Len(pieces) :
        UpTo(pieces, n) = IF n = 1 THEN pieces[n] ELSE UpTo(pieces, n - 1) \o pieces[n]
  <2> TAKE n \in 1 .. Len(pieces)
  <2>1. CASE n = 1
    BY <1>2, <1>3, <2>1
  <2>2. CASE n # 1
    <3>1. n - 1 \in 1 .. Len(pieces)
      BY <2>2
    <3>. QED
      BY <1>2, <1>3, <2>2, <3>1
  <2>. QED
    BY <2>1, <2>2
<1>5. Len(pieces) # 0 => FlattenSeq(pieces) = UpTo(pieces, Len(pieces))
  BY DEF FlattenSeq, UpTo, Joined
<1>6. Len(pieces) = 0 => FlattenSeq(pieces) = pieces
  BY DEF FlattenSeq
<1>. QED
  BY <1>4, <1>5, <1>6 DEF UpTo

(* Prefixes of sequences are sequences, and each is the one before it and  *)
(* its piece.                                                              *)
LEMMA PrefixesJoin ==
  ASSUME NEW T, NEW n \in Nat, NEW pieces \in [1 .. n -> Seq(T)]
  PROVE  /\ \A k \in 0 .. n : UpTo(pieces, k) \in Seq(T)
         /\ UpTo(pieces, 0) = << >>
         /\ \A k \in 1 .. n : UpTo(pieces, k) = UpTo(pieces, k - 1) \o pieces[k]
         /\ FlattenSeq(pieces) = UpTo(pieces, n)
<1>1. Len(pieces) = n /\ pieces \in Seq(Seq(T))
  <2>1. pieces \in Seq(Seq(T))
    OBVIOUS
  <2>. QED
    BY <2>1, LenProperties
<1>2. /\ UpTo(pieces, 0) = << >>
      /\ \A k \in 1 .. n :
           UpTo(pieces, k) = IF k = 1 THEN pieces[k] ELSE UpTo(pieces, k - 1) \o pieces[k]
      /\ n # 0 => FlattenSeq(pieces) = UpTo(pieces, n)
      /\ n = 0 => FlattenSeq(pieces) = pieces
  <2>1. Len(pieces) \in Nat
    BY <1>1
  <2>. QED
    BY <1>1, <2>1, PrefixesAre
<1>3. << >> \in Seq(T) /\ \A s, t \in Seq(T) : s \o t \in Seq(T) /\ << >> \o s = s
  OBVIOUS
<1> DEFINE S == {k \in Nat : k \in 0 .. n => UpTo(pieces, k) \in Seq(T)}
<1>4. 0 \in S
  BY <1>2, <1>3
<1>5. ASSUME NEW k \in S \cap Nat PROVE k + 1 \in S
  <2>1. CASE k + 1 \in 0 .. n
    <3>1. k + 1 \in 1 .. n /\ k \in 0 .. n /\ (k + 1) - 1 = k
      BY <2>1
    <3>2. UpTo(pieces, k) \in Seq(T) /\ pieces[k + 1] \in Seq(T)
      BY <3>1
    <3>3. UpTo(pieces, k) \o pieces[k + 1] \in Seq(T)
      BY <1>3, <3>2
    <3>4. UpTo(pieces, k + 1) = IF k + 1 = 1 THEN pieces[k + 1]
                                ELSE UpTo(pieces, k) \o pieces[k + 1]
      BY <1>2, <3>1
    <3>5. UpTo(pieces, k + 1) \in Seq(T)
      BY <3>2, <3>3, <3>4
    <3>. QED
      BY <3>5
  <2>2. CASE k + 1 \notin 0 .. n
    BY <2>2
  <2>. QED
    BY <2>1, <2>2
<1> HIDE DEF S
<1>6. \A k \in 0 .. n : UpTo(pieces, k) \in Seq(T)
  <2>1. Nat \subseteq S
    BY <1>4, <1>5, AllNumbers
  <2>. QED
    BY <2>1 DEF S
<1>7. ASSUME NEW k \in 1 .. n
      PROVE  UpTo(pieces, k) = UpTo(pieces, k - 1) \o pieces[k]
  <2>1. pieces[k] \in Seq(T)
    OBVIOUS
  <2>2. CASE k = 1
    <3>1. UpTo(pieces, k - 1) = << >>
      BY <1>2, <2>2
    <3>2. << >> \o pieces[k] = pieces[k]
      BY <1>3, <2>1
    <3>3. UpTo(pieces, k) = pieces[k]
      BY <1>2, <2>2
    <3>. QED
      BY <3>1, <3>2, <3>3
  <2>3. CASE k # 1
    BY <1>2, <2>3
  <2>. QED
    BY <2>2, <2>3
<1>8. FlattenSeq(pieces) = UpTo(pieces, n)
  <2>1. n = 0 => pieces = << >>
    BY <1>1
  <2>. QED
    BY <1>2, <2>1
<1>. QED
  BY <1>2, <1>6, <1>7, <1>8

(* So are those of texts. *)
LEMMA PrefixesOfTexts ==
  ASSUME NEW n \in Nat, NEW pieces \in [1 .. n -> TextSeqs]
  PROVE  /\ \A k \in 0 .. n : UpTo(pieces, k) \in TextSeqs
         /\ UpTo(pieces, 0) = << >>
         /\ \A k \in 1 .. n : UpTo(pieces, k) = UpTo(pieces, k - 1) \o pieces[k]
         /\ FlattenSeq(pieces) = UpTo(pieces, n)
  BY PrefixesJoin DEF TextSeqs

-----------------------------------------------------------------------------
(* The content a tag of dynamic content comes to for a row, and how deep   *)
(* that is.                                                                *)
LEMMA AlternativeOf ==
  ASSUME NEW key \in DOMAIN Dc, NEW p \in Rows
  PROVE  /\ Alternative(key, p) \in Contents \ Bodies
         /\ Alternative(key, p) \in AlternativesOf(key)
  BY TemplateAssumption DEF Alternative, AlternativesOf

(* What a tag comes to, in the terms of the cell it is given. *)
LEMMA TagTextIs ==
  ASSUME NEW key, NEW p \in Rows, NEW gone, NEW below
  PROVE  TagText(key, p, gone, below) =
           IF key \in DOMAIN FieldOf THEN << p[FieldOf[key]] >>
           ELSE IF key \in DOMAIN Dc /\ ~gone
             THEN IF below[Alternative(key, p)] = << >> THEN << NoValue >>
                  ELSE below[Alternative(key, p)]
           ELSE IF key \in DtKeys THEN << Exec[key][p] >>
           ELSE IF key \in CallKeys THEN << NoValue >> ELSE << >>
<1> SUFFICES ASSUME key \in DOMAIN Dc, key \notin DOMAIN FieldOf, ~gone
             PROVE  TagText(key, p, gone, below) =
                      IF below[Alternative(key, p)] = << >> THEN << NoValue >>
                      ELSE below[Alternative(key, p)]
  BY DEF TagText
<1> DEFINE wanted == {s \in DOMAIN Dc[key].alternatives : s = p[Dc[key].field]}
<1>1. CASE p[Dc[key].field] \in DOMAIN Dc[key].alternatives
  <2>1. wanted = {p[Dc[key].field]}
    BY <1>1
  <2>2. (CHOOSE s \in wanted : TRUE) = p[Dc[key].field] /\ wanted # {}
    BY <2>1
  <2>. QED
    BY <1>1, <2>2 DEF TagText, Alternative
<1>2. CASE p[Dc[key].field] \notin DOMAIN Dc[key].alternatives
  <2>1. wanted = {}
    BY <1>2
  <2>. QED
    BY <1>2, <2>1 DEF TagText, Alternative
<1>. QED
  BY <1>1, <1>2

(* What is nested in a content.                                            *)
Nested(c) == {a \in Contents : DepthOf[a] < DepthOf[c]}

(* A piece of a content is a text, and depends on what is nested in it     *)
(* alone.                                                                  *)
LEMMA PieceType ==
  ASSUME NEW c \in Contents, NEW i \in DOMAIN SegmentsOf[c], NEW p \in Rows, NEW missed,
         NEW below, \A a \in Nested(c) : below[a] \in TextSeqs
  PROVE  /\ Piece(c, i, p, missed, below) \in TextSeqs
         /\ \A other : (\A a \in Nested(c) : other[a] = below[a]) =>
              Piece(c, i, p, missed, other) = Piece(c, i, p, missed, below)
<1> DEFINE kinds == {Text(s) : s \in {t \in Strings : LenOf[t] > 0}} \cup {Tag(k) : k \in Keys}
<1>1. SegmentsOf[c][i] \in kinds
  <2>1. SegmentsOf[c] \in Seq(kinds)
    BY TemplateAssumption
  <2> HIDE DEF kinds
  <2>. QED
    BY <2>1
<1>2. \A x \in Strings \cup {NoValue} : << x >> \in TextSeqs
  BY DEF TextSeqs
<1>3. << >> \in TextSeqs
  BY DEF TextSeqs
<1>4. CASE i \notin TagsIn(c)
  <2>1. SegmentsOf[c][i].str \in Strings
    BY <1>1, <1>4 DEF TagsIn, Text, Tag
  <2>. QED
    BY <1>2, <1>4, <2>1 DEF Piece
<1>5. CASE i \in TagsIn(c)
  <2> DEFINE key == KeyAt(c, i)
  <2>0. PICK gone : gone = (<< c, i >> \in missed)
    OBVIOUS
  <2>1. \A b : Piece(c, i, p, missed, b) = TagText(key, p, gone, b)
    BY <1>5, <2>0 DEF Piece
  <2>2. CASE key \in DOMAIN Dc \ DOMAIN FieldOf /\ ~gone
    <3>1. i \in DcTagsIn(c)
      BY <1>5, <2>2 DEF DcTagsIn
    <3>2. Alternative(key, p) \in Nested(c)
      BY <2>2, <3>1, AlternativeOf, DepthAssumption DEF Nested
    <3> HIDE DEF key
    <3>3. \A b : TagText(key, p, gone, b) =
                   IF b[Alternative(key, p)] = << >> THEN << NoValue >>
                   ELSE b[Alternative(key, p)]
      BY <2>2, TagTextIs
    <3>4. TagText(key, p, gone, below) \in TextSeqs
      BY <1>2, <3>2, <3>3
    <3>. QED
      BY <2>1, <3>2, <3>3, <3>4
  <2>3. CASE ~(key \in DOMAIN Dc \ DOMAIN FieldOf /\ ~gone)
    <3>1. \A b : TagText(key, p, gone, b) =
                   IF key \in DOMAIN FieldOf THEN << p[FieldOf[key]] >>
                   ELSE IF key \in DtKeys THEN << Exec[key][p] >>
                   ELSE IF key \in CallKeys THEN << NoValue >> ELSE << >>
      <4> HIDE DEF key
      <4>. QED
        BY <2>3, TagTextIs
    <3>2. TagText(key, p, gone, below) \in TextSeqs
      BY <1>2, <1>3, <3>1, TemplateAssumption
    <3>. QED
      BY <2>1, <3>1, <3>2
  <2>. QED
    BY <2>2, <2>3
<1>. QED
  BY <1>4, <1>5

(* The pieces of a content, in order. *)
Pieces(c, p, missed, below) ==
  [i \in DOMAIN SegmentsOf[c] |-> Piece(c, i, p, missed, below)]

(* The segments of a content are numbered. *)
LEMMA SegmentsNumbered ==
  ASSUME NEW c \in Contents
  PROVE  Len(SegmentsOf[c]) \in Nat /\ DOMAIN SegmentsOf[c] = 1 .. Len(SegmentsOf[c])
<1> DEFINE kinds == {Text(s) : s \in {t \in Strings : LenOf[t] > 0}} \cup {Tag(k) : k \in Keys}
<1>1. SegmentsOf[c] \in Seq(kinds)
  BY TemplateAssumption
<1> HIDE DEF kinds
<1>. QED
  BY <1>1, LenProperties

(* So are its pieces, joined, and what the content comes to. *)
LEMMA ContentTextType ==
  ASSUME NEW c \in Contents, NEW p \in Rows, NEW missed,
         NEW below, \A a \in Nested(c) : below[a] \in TextSeqs
  PROVE  /\ Pieces(c, p, missed, below) \in [1 .. Len(SegmentsOf[c]) -> TextSeqs]
         /\ ContentText(c, p, missed, below) \in TextSeqs
         /\ \A other : (\A a \in Nested(c) : other[a] = below[a]) =>
              ContentText(c, p, missed, other) = ContentText(c, p, missed, below)
<1> DEFINE n == Len(SegmentsOf[c])
<1>1. n \in Nat /\ DOMAIN SegmentsOf[c] = 1 .. n
  BY SegmentsNumbered
<1>2. \A b : ContentText(c, p, missed, b) = FlattenSeq(Pieces(c, p, missed, b))
  BY DEF ContentText, Pieces
<1>3. Pieces(c, p, missed, below) \in [1 .. n -> TextSeqs]
  BY <1>1, PieceType DEF Pieces
<1>4. FlattenSeq(Pieces(c, p, missed, below)) \in TextSeqs
  <2> DEFINE pieces == Pieces(c, p, missed, below)
  <2>1. FlattenSeq(pieces) = UpTo(pieces, n) /\ UpTo(pieces, n) \in TextSeqs
    <3> HIDE DEF n
    <3>1. pieces \in [1 .. n -> TextSeqs] /\ n \in 0 .. n
      BY <1>1, <1>3
    <3> HIDE DEF pieces
    <3>2. FlattenSeq(pieces) = UpTo(pieces, n)
      BY <1>1, <3>1, PrefixesOfTexts
    <3>3. \A k \in 0 .. n : UpTo(pieces, k) \in TextSeqs
      BY <1>1, <3>1, PrefixesOfTexts
    <3>. QED
      BY <3>1, <3>2, <3>3
  <2>. QED
    BY <2>1
<1>5. ASSUME NEW other, \A a \in Nested(c) : other[a] = below[a]
      PROVE  Pieces(c, p, missed, other) = Pieces(c, p, missed, below)
  BY <1>5, PieceType DEF Pieces
<1>. QED
  BY <1>2, <1>3, <1>4, <1>5

(* Since contents are nested only so deep, there is one thing all of them  *)
(* come to.                                                                *)
LEMMA RenderingsAre ==
  ASSUME NEW p \in Rows, NEW missed
  PROVE  /\ Renderings(p, missed) \in [Contents -> TextSeqs]
         /\ \A c \in Contents :
              Renderings(p, missed)[c] = ContentText(c, p, missed, Renderings(p, missed))
<1> DEFINE Upto(n) == {c \in Contents : DepthOf[c] < n}
           Right(f, n) == /\ f \in [Contents -> TextSeqs]
                          /\ \A c \in Upto(n) : f[c] = ContentText(c, p, missed, f)
           S == {n \in Nat : \E f : Right(f, n)}
<1>1. 0 \in S
  <2>1. [c \in Contents |-> << >>] \in [Contents -> TextSeqs]
    BY DEF TextSeqs
  <2>2. Upto(0) = {}
    BY DepthAssumption
  <2>3. Right([c \in Contents |-> << >>], 0)
    BY <2>1, <2>2
  <2>. QED
    BY <2>3
<1>2. ASSUME NEW n \in S \cap Nat PROVE n + 1 \in S
  <2>1. PICK f : Right(f, n)
    OBVIOUS
  <2>2. PICK g : g = [c \in Contents |->
                        IF DepthOf[c] = n THEN ContentText(c, p, missed, f) ELSE f[c]]
    OBVIOUS
  <2>3. g \in [Contents -> TextSeqs]
    BY <2>1, <2>2, ContentTextType DEF Nested
  <2>4. ASSUME NEW c \in Upto(n + 1) PROVE g[c] = ContentText(c, p, missed, g)
    <3>1. \A a \in Nested(c) : g[a] = f[a] /\ f[a] \in TextSeqs
      BY <2>1, <2>2, DepthAssumption DEF Nested
    <3>2. ContentText(c, p, missed, g) = ContentText(c, p, missed, f)
      BY <3>1, ContentTextType
    <3>3. g[c] = ContentText(c, p, missed, f)
      BY <2>1, <2>2, DepthAssumption
    <3>. QED
      BY <3>2, <3>3
  <2>5. Right(g, n + 1)
    BY <2>3, <2>4
  <2> HIDE DEF Right
  <2>. QED
    BY <2>5
<1>3. PICK f : Right(f, Depth + 1)
  <2> HIDE DEF S
  <2>1. Depth + 1 \in S
    BY <1>1, <1>2, AllNumbers, DepthAssumption
  <2>. QED
    BY <2>1 DEF S
<1>4. Upto(Depth + 1) = Contents
  BY DepthAssumption
<1> DEFINE Solves(h) == h = [c \in Contents |-> ContentText(c, p, missed, h)]
           r == CHOOSE h : Solves(h)
<1>5. Solves(f)
  BY <1>3, <1>4
<1>6. Renderings(p, missed) = r
  BY DEF Renderings
<1>7. Solves(r)
  <2> HIDE DEF Solves
  <2>. QED
    BY <1>5
<1> HIDE DEF r
<1>8. \A c \in Contents : r[c] = ContentText(c, p, missed, r)
  BY <1>7
<1> DEFINE U == {n \in Nat : \A c \in Upto(n) : r[c] \in TextSeqs}
<1>9. 0 \in U
  BY DepthAssumption
<1>10. ASSUME NEW n \in U \cap Nat PROVE n + 1 \in U
  <2>1. \A c \in Upto(n + 1) : \A a \in Nested(c) : r[a] \in TextSeqs
    BY DepthAssumption DEF Nested
  <2>2. \A c \in Upto(n + 1) : r[c] \in TextSeqs
    BY <1>8, <2>1, ContentTextType
  <2>. QED
    BY <2>2
<1>11. \A c \in Contents : r[c] \in TextSeqs
  <2> HIDE DEF U
  <2>1. Depth + 1 \in U
    BY <1>9, <1>10, AllNumbers, DepthAssumption
  <2>. QED
    BY <1>4, <2>1 DEF U
<1>12. r \in [Contents -> TextSeqs]
  BY <1>7, <1>11
<1>. QED
  BY <1>6, <1>8, <1>12

(* What the first n segments of a content come to for a row. *)
Begins(c, p, missed, n) == UpTo(Pieces(c, p, missed, Renderings(p, missed)), n)

(* A content comes to what its segments do, one behind the other. *)
LEMMA RenderingGrows ==
  ASSUME NEW c \in Contents, NEW p \in Rows, NEW missed
  PROVE  /\ Begins(c, p, missed, 0) = << >>
         /\ \A n \in 0 .. Len(SegmentsOf[c]) : Begins(c, p, missed, n) \in TextSeqs
         /\ \A n \in 1 .. Len(SegmentsOf[c]) :
              /\ Piece(c, n, p, missed, Renderings(p, missed)) \in TextSeqs
              /\ Begins(c, p, missed, n) =
                   Begins(c, p, missed, n - 1) \o Piece(c, n, p, missed, Renderings(p, missed))
         /\ Renderings(p, missed)[c] = Begins(c, p, missed, Len(SegmentsOf[c]))
<1> DEFINE r == Renderings(p, missed)
           n == Len(SegmentsOf[c])
           pieces == Pieces(c, p, missed, r)
<1>1. n \in Nat /\ DOMAIN SegmentsOf[c] = 1 .. n
  BY SegmentsNumbered
<1>2. \A a \in Nested(c) : r[a] \in TextSeqs
  BY RenderingsAre DEF Nested
<1>3. r[c] = ContentText(c, p, missed, r)
  BY RenderingsAre
<1>4. r[c] = FlattenSeq(pieces) /\ \A k \in 1 .. n : pieces[k] = Piece(c, k, p, missed, r)
  BY <1>1, <1>3 DEF ContentText, Pieces
<1>5. pieces \in [1 .. n -> TextSeqs]
  BY <1>2, ContentTextType
<1>6. \A k : Begins(c, p, missed, k) = UpTo(pieces, k)
  BY DEF Begins
<1> HIDE DEF pieces, n, r
<1>7. /\ \A k \in 0 .. n : UpTo(pieces, k) \in TextSeqs
      /\ UpTo(pieces, 0) = << >>
      /\ \A k \in 1 .. n : UpTo(pieces, k) = UpTo(pieces, k - 1) \o pieces[k]
      /\ FlattenSeq(pieces) = UpTo(pieces, n)
  BY <1>1, <1>5, PrefixesOfTexts
<1>8. \A k \in 1 .. n : pieces[k] \in TextSeqs
  BY <1>5
<1>. QED
  BY <1>4, <1>6, <1>7, <1>8 DEF n, r

-----------------------------------------------------------------------------
(* What a cell says for a row: one that is static, the string its word was *)
(* handed out for.                                                         *)
Says(handed, cell, p, missed, x) ==
  \/ cell.type = "static" /\ \E s \in Strings :
       x = << s >> /\ [str |-> s, word |-> cell.offset] \in handed
  \/ cell.type = "p13n" /\ x = << p[cell.p13n] >>
  \/ cell.type = "dt" /\ x = << Exec[cell.exp][p] >>
  \/ cell.type = "dc" /\ LET r == Renderings(p, missed)[Alternative(cell.dc, p)]
                         IN  x = IF r = << >> THEN << NoValue >> ELSE r

(* Cells that say a text, one behind the other: `rest' is what is left of  *)
(* it behind each of them.                                                 *)
SpellsBy(handed, cs, p, missed, t, rest) ==
  /\ rest \in [0 .. Len(cs) -> TextSeqs]
  /\ rest[0] = t /\ rest[Len(cs)] = << >>
  /\ \A i \in 1 .. Len(cs) : \E x \in TextSeqs :
       Says(handed, cs[i], p, missed, x) /\ rest[i - 1] = x \o rest[i]
Spells(handed, cs, p, missed, t) ==
  \E rest : SpellsBy(handed, cs, p, missed, t, rest)

(* TextSeqs can be put together. *)
LEMMA TextsJoin ==
  /\ << >> \in TextSeqs
  /\ \A t \in TextSeqs : << >> \o t = t /\ t \o << >> = t
  /\ \A s, t \in TextSeqs : s \o t \in TextSeqs
  /\ \A s, t, u \in TextSeqs : (s \o t) \o u = s \o (t \o u)
<1> DEFINE T == Strings \cup {NoValue}
<1>1. << >> \in Seq(T) /\ \A t \in Seq(T) : << >> \o t = t /\ t \o << >> = t
  OBVIOUS
<1>2. \A s, t \in Seq(T) : s \o t \in Seq(T)
  OBVIOUS
<1>3. \A s, t, u \in Seq(T) : (s \o t) \o u = s \o (t \o u)
  BY ConcatAssociative
<1>. QED
  BY <1>1, <1>2, <1>3 DEF TextSeqs

(* A cell never says nothing. *)
LEMMA SaysSome ==
  ASSUME NEW handed, NEW cell \in Cell, NEW p \in Rows, NEW missed, NEW x,
         Says(handed, cell, p, missed, x)
  PROVE  x \in TextSeqs /\ x # << >>
<1>1. \A s \in Strings \cup {NoValue} : << s >> \in TextSeqs /\ << s >> # << >>
  BY DEF TextSeqs
<1>2. CASE cell.type = "static"
  BY <1>1, <1>2 DEF Says
<1>3. CASE cell.type = "p13n"
  BY <1>1, <1>3, CellParts, TemplateAssumption DEF Says
<1>4. CASE cell.type = "dt"
  BY <1>1, <1>4, CellParts, TemplateAssumption DEF Says
<1>5. CASE cell.type = "dc"
  <2>1. Alternative(cell.dc, p) \in Contents
    BY <1>5, CellParts, AlternativeOf
  <2>2. Renderings(p, missed)[Alternative(cell.dc, p)] \in TextSeqs
    BY <2>1, RenderingsAre
  <2>. QED
    BY <1>1, <1>5, <2>2 DEF Says
<1>. QED
  BY <1>2, <1>3, <1>4, <1>5, CellParts

(* No cells say nothing. *)
LEMMA SpellsNothing ==
  ASSUME NEW handed, NEW p, NEW missed, NEW t
  PROVE  Spells(handed, << >>, p, missed, t) <=> t = << >>
<1>1. ASSUME t = << >> PROVE SpellsBy(handed, << >>, p, missed, t, [i \in 0 .. 0 |-> << >>])
  BY <1>1, TextsJoin DEF SpellsBy
<1>2. ASSUME NEW rest, SpellsBy(handed, << >>, p, missed, t, rest) PROVE t = << >>
  BY <1>2 DEF SpellsBy
<1>. QED
  BY <1>1, <1>2 DEF Spells

(* One cell says what it says. *)
LEMMA SpellsOne ==
  ASSUME NEW handed, NEW cell \in Cell, NEW p \in Rows, NEW missed, NEW x,
         Says(handed, cell, p, missed, x)
  PROVE  Spells(handed, << cell >>, p, missed, x)
<1>1. x \in TextSeqs
  BY SaysSome
<1> DEFINE cs == << cell >>
           rest == [i \in 0 .. 1 |-> IF i = 0 THEN x ELSE << >>]
<1>2. Len(cs) = 1 /\ cs[1] = cell
  OBVIOUS
<1>3. rest \in [0 .. 1 -> TextSeqs] /\ rest[0] = x /\ rest[1] = << >>
  BY <1>1, TextsJoin
<1> HIDE DEF cs, rest
<1>4. SpellsBy(handed, cs, p, missed, x, rest)
  <2>1. x \o << >> = x
    BY <1>1, TextsJoin
  <2>2. ASSUME NEW i \in 1 .. 1
        PROVE  \E y \in TextSeqs : Says(handed, cs[i], p, missed, y) /\ rest[i - 1] = y \o rest[i]
    <3>1. i = 1 /\ i - 1 = 0
      OBVIOUS
    <3>. QED
      BY <1>1, <1>2, <1>3, <2>1, <3>1
  <2>. QED
    BY <1>2, <1>3, <2>2 DEF SpellsBy
<1>. QED
  BY <1>4 DEF Spells, cs

(* The first cell says the first part of the text, the others its rest. *)
Heads(handed, cs, p, missed, t) ==
  \E x, u \in TextSeqs : /\ Says(handed, Head(cs), p, missed, x)
                      /\ Spells(handed, Tail(cs), p, missed, u)
                      /\ t = x \o u
LEMMA SpellsHead ==
  ASSUME NEW handed, NEW cs \in Seq(Cell), cs # << >>, NEW p, NEW missed, NEW t,
         Spells(handed, cs, p, missed, t)
  PROVE  Heads(handed, cs, p, missed, t)
<1>1. PICK rest : SpellsBy(handed, cs, p, missed, t, rest)
  BY DEF Spells
<1>2. PICK n \in Nat : Len(cs) = n + 1
  <2>1. Len(cs) \in Nat /\ Len(cs) # 0
    BY EmptySeq
  <2>. QED
    BY <2>1
<1>3. /\ Len(Tail(cs)) = n /\ \A i \in 1 .. n : Tail(cs)[i] = cs[i + 1]
      /\ Head(cs) = cs[1]
  BY <1>2, HeadTailProperties
<1>4. /\ rest \in [0 .. n + 1 -> TextSeqs] /\ rest[0] = t /\ rest[n + 1] = << >>
      /\ \A i \in 1 .. n + 1 : \E x \in TextSeqs :
           Says(handed, cs[i], p, missed, x) /\ rest[i - 1] = x \o rest[i]
  BY <1>1, <1>2 DEF SpellsBy
<1> DEFINE after == [i \in 0 .. n |-> rest[i + 1]]
<1>5. /\ after \in [0 .. n -> TextSeqs] /\ after[0] = rest[1] /\ after[n] = << >>
      /\ \A i \in 0 .. n : after[i] = rest[i + 1]
  BY <1>4
<1> HIDE DEF after
<1>6. ASSUME NEW i \in 1 .. n
      PROVE  \E x \in TextSeqs : Says(handed, Tail(cs)[i], p, missed, x)
                                /\ after[i - 1] = x \o after[i]
  <2>1. i + 1 \in 1 .. n + 1 /\ (i + 1) - 1 = i /\ i - 1 \in 0 .. n /\ i \in 0 .. n
        /\ (i - 1) + 1 = i
    OBVIOUS
  <2>2. PICK x \in TextSeqs : Says(handed, cs[i + 1], p, missed, x) /\ rest[i] = x \o rest[i + 1]
    BY <1>4, <2>1
  <2>3. after[i - 1] = rest[i] /\ after[i] = rest[i + 1]
    BY <1>5, <2>1
  <2>. QED
    BY <1>3, <2>2, <2>3
<1>7. SpellsBy(handed, Tail(cs), p, missed, rest[1], after)
  BY <1>3, <1>5, <1>6 DEF SpellsBy
<1>8. 1 \in 1 .. n + 1 /\ 1 - 1 = 0 /\ rest[1] \in TextSeqs
  BY <1>4
<1>9. PICK x \in TextSeqs : Says(handed, cs[1], p, missed, x) /\ rest[0] = x \o rest[1]
  BY <1>4, <1>8
<1>. QED
  BY <1>3, <1>4, <1>7, <1>8, <1>9 DEF Spells, Heads

(* Cells behind other cells say the two texts, one behind the other. *)
LEMMA SpellsConcat ==
  ASSUME NEW handed, NEW cs \in Seq(Cell), NEW ds \in Seq(Cell), NEW p, NEW missed,
         NEW t, Spells(handed, cs, p, missed, t),
         NEW u, Spells(handed, ds, p, missed, u)
  PROVE  Spells(handed, cs \o ds, p, missed, t \o u)
<1>1. PICK f : SpellsBy(handed, cs, p, missed, t, f)
  BY DEF Spells
<1>2. PICK g : SpellsBy(handed, ds, p, missed, u, g)
  BY DEF Spells
<1>3. PICK m \in Nat, n \in Nat : m = Len(cs) /\ n = Len(ds)
  BY LenProperties
<1>4. /\ Len(cs \o ds) = m + n
      /\ \A i \in 1 .. m : (cs \o ds)[i] = cs[i]
      /\ \A i \in 1 .. n : (cs \o ds)[m + i] = ds[i]
  BY <1>3, JoinedParts
<1>5. /\ f \in [0 .. m -> TextSeqs] /\ f[0] = t /\ f[m] = << >>
      /\ \A i \in 1 .. m : \E x \in TextSeqs :
           Says(handed, cs[i], p, missed, x) /\ f[i - 1] = x \o f[i]
  BY <1>1, <1>3 DEF SpellsBy
<1>6. /\ g \in [0 .. n -> TextSeqs] /\ g[0] = u /\ g[n] = << >>
      /\ \A i \in 1 .. n : \E x \in TextSeqs :
           Says(handed, ds[i], p, missed, x) /\ g[i - 1] = x \o g[i]
  BY <1>2, <1>3 DEF SpellsBy
<1>7. t \in TextSeqs /\ u \in TextSeqs
  BY <1>5, <1>6
<1>8. PICK h : h = [i \in 0 .. m + n |-> IF i <= m THEN f[i] \o u ELSE g[i - m]]
  OBVIOUS
<1>9. \A i \in 0 .. m : i \in 0 .. m + n /\ i <= m
  OBVIOUS
<1>10. \A i \in 0 .. m : h[i] = f[i] \o u
  BY <1>8, <1>9
<1>11. \A i \in 0 .. n : h[m + i] = g[i]
  <2> TAKE i \in 0 .. n
  <2>1. CASE i = 0
    <3>1. m \in 0 .. m
      OBVIOUS
    <3>2. h[m] = f[m] \o u
      BY <1>10, <3>1
    <3>3. << >> \o u = u
      BY <1>7, TextsJoin
    <3>. QED
      BY <1>5, <1>6, <2>1, <3>2, <3>3
  <2>2. CASE i # 0
    <3>1. m + i \in 0 .. m + n /\ ~(m + i <= m) /\ (m + i) - m = i
      BY <2>2
    <3>. QED
      BY <1>8, <3>1
  <2>. QED
    BY <2>1, <2>2
<1>12. h \in [0 .. m + n -> TextSeqs]
  <2>1. ASSUME NEW i \in 0 .. m + n PROVE h[i] \in TextSeqs
    <3>1. CASE i <= m
      <4>1. i \in 0 .. m
        BY <3>1
      <4>2. h[i] = f[i] \o u /\ f[i] \in TextSeqs
        BY <1>5, <1>10, <4>1
      <4>3. f[i] \o u \in TextSeqs
        BY <1>7, <4>2, TextsJoin
      <4>. QED
        BY <4>2, <4>3
    <3>2. CASE ~(i <= m)
      <4>1. i - m \in 0 .. n /\ m + (i - m) = i
        BY <3>2
      <4>. QED
        BY <1>6, <1>11, <4>1
    <3>. QED
      BY <3>1, <3>2
  <2>. QED
    BY <1>8, <2>1
<1>13. h[0] = t \o u /\ h[m + n] = << >>
  <2>1. 0 \in 0 .. m /\ n \in 0 .. n
    OBVIOUS
  <2>2. h[0] = f[0] \o u /\ h[m + n] = g[n]
    BY <1>10, <1>11, <2>1
  <2>. QED
    BY <1>5, <1>6, <2>2
<1>14. ASSUME NEW i \in 1 .. m + n
       PROVE  \E x \in TextSeqs : Says(handed, (cs \o ds)[i], p, missed, x) /\ h[i - 1] = x \o h[i]
  <2>1. CASE i <= m
    <3>1. i \in 1 .. m /\ i \in 0 .. m /\ i - 1 \in 0 .. m
      BY <2>1
    <3>2. PICK x \in TextSeqs : Says(handed, cs[i], p, missed, x) /\ f[i - 1] = x \o f[i]
      BY <1>5, <3>1
    <3>3. h[i - 1] = (x \o f[i]) \o u /\ h[i] = f[i] \o u /\ f[i] \in TextSeqs
      BY <1>5, <1>10, <3>1, <3>2
    <3>4. (x \o f[i]) \o u = x \o (f[i] \o u)
      BY <1>7, <3>3, TextsJoin
    <3>5. h[i - 1] = x \o h[i]
      BY <3>3, <3>4
    <3>. QED
      BY <1>4, <3>1, <3>2, <3>5
  <2>2. CASE ~(i <= m)
    <3>1. PICK k \in 1 .. n : i = m + k
      <4>1. i - m \in 1 .. n /\ i = m + (i - m)
        BY <2>2
      <4>. QED
        BY <4>1
    <3>2. k \in 0 .. n /\ k - 1 \in 0 .. n /\ i - 1 = m + (k - 1)
      BY <3>1
    <3>3. PICK x \in TextSeqs : Says(handed, ds[k], p, missed, x) /\ g[k - 1] = x \o g[k]
      BY <1>6
    <3>4. h[i - 1] = g[k - 1] /\ h[i] = g[k] /\ (cs \o ds)[i] = ds[k]
      BY <1>4, <1>11, <3>1, <3>2
    <3>. QED
      BY <3>3, <3>4
  <2>. QED
    BY <2>1, <2>2
<1> DEFINE es == cs \o ds
<1>15. SpellsBy(handed, es, p, missed, t \o u, h)
  <2>1. Len(es) = m + n
    BY <1>4
  <2>2. \A i \in 1 .. Len(es) : \E x \in TextSeqs :
          Says(handed, es[i], p, missed, x) /\ h[i - 1] = x \o h[i]
    BY <1>14, <2>1
  <2> HIDE DEF es
  <2>. QED
    BY <1>12, <1>13, <2>1, <2>2 DEF SpellsBy
<1>. QED
  BY <1>15 DEF Spells

(* The string of a word that was handed out stays its string. *)
LEMMA SpellsStays ==
  ASSUME NEW handed, NEW more, handed \subseteq more, NEW cs, NEW p, NEW missed, NEW t,
         Spells(handed, cs, p, missed, t)
  PROVE  Spells(more, cs, p, missed, t)
<1>1. \A cell, x : Says(handed, cell, p, missed, x) => Says(more, cell, p, missed, x)
  BY DEF Says
<1>2. \A rest : SpellsBy(handed, cs, p, missed, t, rest) => SpellsBy(more, cs, p, missed, t, rest)
  BY <1>1 DEF SpellsBy
<1>. QED
  BY <1>2 DEF Spells

-----------------------------------------------------------------------------
(* The cells of a row up to one of them that are left open, and the word   *)
(* of a cell, which is the next one of the vector if it is.                *)
OpenUpTo(ks, i) == {j \in 1 .. i : ks[j] = InVector}
WordOf(ks, vec, i) ==
  IF ks[i] = InVector THEN vec[Cardinality(OpenUpTo(ks, i))] ELSE ks[i]

(* Cells and their vector show strings: each word was handed out for its   *)
(* string, and the vector has one for every cell left open.                *)
Shows(handed, ks, vec, d) ==
  /\ d \in Seq(Strings) /\ Len(d) = Len(ks)
  /\ Len(vec) = Cardinality(Open(ks))
  /\ \A i \in 1 .. Len(ks) : [str |-> d[i], word |-> WordOf(ks, vec, i)] \in handed

(* A cell that is left open has a place in the vector. *)
LEMMA OpenHasPlace ==
  ASSUME NEW ks \in Seq(Word), NEW i \in 1 .. Len(ks), ks[i] = InVector
  PROVE  Cardinality(OpenUpTo(ks, i)) \in 1 .. Cardinality(Open(ks))
<1>1. Len(ks) \in Nat /\ DOMAIN ks = 1 .. Len(ks)
  BY LenProperties
<1>2. IsFiniteSet(Open(ks)) /\ Cardinality(Open(ks)) \in Nat
  BY OpenAppend, WordType
<1>3. OpenUpTo(ks, i) \in SUBSET Open(ks) /\ i \in OpenUpTo(ks, i)
  BY <1>1 DEF OpenUpTo, Open
<1>4. /\ IsFiniteSet(OpenUpTo(ks, i))
      /\ Cardinality(OpenUpTo(ks, i)) <= Cardinality(Open(ks))
  BY <1>2, <1>3, FS_Subset
<1>5. Cardinality(OpenUpTo(ks, i)) \in Nat /\ Cardinality(OpenUpTo(ks, i)) # 0
  BY <1>3, <1>4, FS_CardinalityType, FS_EmptySet
<1>. QED
  BY <1>2, <1>4, <1>5

(* What is open among the cells there are stays it when one is added. *)
LEMMA OpenUpToStays ==
  ASSUME NEW ks \in Seq(Word), NEW w \in Word
  PROVE  /\ \A i \in 1 .. Len(ks) : /\ OpenUpTo(Append(ks, w), i) = OpenUpTo(ks, i)
                                    /\ Append(ks, w)[i] = ks[i]
         /\ Len(ks) \in Nat /\ Len(Append(ks, w)) = Len(ks) + 1
         /\ Append(ks, w)[Len(ks) + 1] = w
         /\ OpenUpTo(Append(ks, w), Len(ks) + 1) = Open(Append(ks, w))
<1> DEFINE all == Append(ks, w)
<1>1. /\ Len(ks) \in Nat /\ Len(all) = Len(ks) + 1 /\ DOMAIN all = 1 .. Len(ks) + 1
      /\ all[Len(ks) + 1] = w /\ \A i \in 1 .. Len(ks) : all[i] = ks[i]
  BY AppendProperties
<1> HIDE DEF all
<1>2. \A i \in 1 .. Len(ks) : \A j \in 1 .. i : all[j] = ks[j]
  BY <1>1
<1>3. \A i \in 1 .. Len(ks) : OpenUpTo(all, i) = OpenUpTo(ks, i)
  BY <1>2 DEF OpenUpTo
<1>4. OpenUpTo(all, Len(ks) + 1) = Open(all)
  BY <1>1 DEF OpenUpTo, Open
<1>. QED
  BY <1>1, <1>3, <1>4 DEF all

(* A static cell shows its string. *)
LEMMA ShowsStatic ==
  ASSUME NEW handed, NEW ks \in Seq(Word), NEW vec \in Seq(Word), NEW d,
         Shows(handed, ks, vec, d), NEW s \in Strings, NEW w \in Word, w # InVector,
         [str |-> s, word |-> w] \in handed
  PROVE  Shows(handed, Append(ks, w), vec, Append(d, s))
<1> DEFINE all == Append(ks, w)
           strings == Append(d, s)
<1>1. /\ \A i \in 1 .. Len(ks) : OpenUpTo(all, i) = OpenUpTo(ks, i) /\ all[i] = ks[i]
      /\ Len(ks) \in Nat /\ Len(all) = Len(ks) + 1 /\ all[Len(ks) + 1] = w
  BY OpenUpToStays
<1>2. Open(all) = Open(ks)
  BY OpenAppend
<1>3. /\ strings \in Seq(Strings) /\ Len(strings) = Len(ks) + 1
      /\ strings[Len(ks) + 1] = s /\ \A i \in 1 .. Len(ks) : strings[i] = d[i]
  BY AppendProperties DEF Shows
<1> HIDE DEF all, strings
<1>4. ASSUME NEW i \in 1 .. Len(all)
      PROVE  [str |-> strings[i], word |-> WordOf(all, vec, i)] \in handed
  <2>1. CASE i \in 1 .. Len(ks)
    <3>1. WordOf(all, vec, i) = WordOf(ks, vec, i) /\ strings[i] = d[i]
      BY <1>1, <1>3, <2>1 DEF WordOf
    <3>. QED
      BY <2>1, <3>1 DEF Shows
  <2>2. CASE i = Len(ks) + 1
    BY <1>1, <1>3, <2>2 DEF WordOf
  <2>. QED
    BY <1>1, <2>1, <2>2
<1>5. Shows(handed, all, vec, strings)
  BY <1>1, <1>2, <1>3, <1>4 DEF Shows
<1>. QED
  BY <1>5 DEF all, strings

(* A cell left open shows the string of the word that joins the vector. *)
LEMMA ShowsOpen ==
  ASSUME NEW handed, NEW ks \in Seq(Word), NEW vec \in Seq(Word), NEW d,
         Shows(handed, ks, vec, d), NEW s \in Strings, NEW w \in Word,
         [str |-> s, word |-> w] \in handed
  PROVE  Shows(handed, Append(ks, InVector), Append(vec, w), Append(d, s))
<1> DEFINE all == Append(ks, InVector)
           words == Append(vec, w)
           strings == Append(d, s)
           n == Cardinality(Open(ks))
<1>1. /\ \A i \in 1 .. Len(ks) : OpenUpTo(all, i) = OpenUpTo(ks, i) /\ all[i] = ks[i]
      /\ Len(ks) \in Nat /\ Len(all) = Len(ks) + 1 /\ all[Len(ks) + 1] = InVector
      /\ OpenUpTo(all, Len(ks) + 1) = Open(all)
  BY OpenUpToStays, WordType
<1>2. n \in Nat /\ Cardinality(Open(all)) = n + 1
  BY OpenAppend, WordType
<1>3. /\ strings \in Seq(Strings) /\ Len(strings) = Len(ks) + 1
      /\ strings[Len(ks) + 1] = s /\ \A i \in 1 .. Len(ks) : strings[i] = d[i]
  BY AppendProperties DEF Shows
<1>4. Len(words) = n + 1 /\ words[n + 1] = w /\ \A i \in 1 .. n : words[i] = vec[i]
  BY AppendProperties DEF Shows
<1> HIDE DEF all, words, strings, n
<1>5. ASSUME NEW i \in 1 .. Len(all)
      PROVE  [str |-> strings[i], word |-> WordOf(all, words, i)] \in handed
  <2>1. CASE i \in 1 .. Len(ks)
    <3>1. ks[i] = InVector => Cardinality(OpenUpTo(ks, i)) \in 1 .. n
      BY <2>1, OpenHasPlace DEF n
    <3>2. WordOf(all, words, i) = WordOf(ks, vec, i) /\ strings[i] = d[i]
      BY <1>1, <1>3, <1>4, <2>1, <3>1 DEF WordOf
    <3>. QED
      BY <2>1, <3>2 DEF Shows
  <2>2. CASE i = Len(ks) + 1
    BY <1>1, <1>2, <1>3, <1>4, <2>2 DEF WordOf
  <2>. QED
    BY <1>1, <2>1, <2>2
<1>6. Shows(handed, all, words, strings)
  BY <1>1, <1>2, <1>3, <1>4, <1>5 DEF Shows
<1>. QED
  BY <1>6 DEF all, words, strings

(* What is shown stays shown as more words are handed out. *)
LEMMA ShowsStays ==
  ASSUME NEW handed, NEW more, handed \subseteq more, NEW ks, NEW vec, NEW d,
         Shows(handed, ks, vec, d)
  PROVE  Shows(more, ks, vec, d)
  BY DEF Shows

(* No cells show nothing. *)
LEMMA ShowsNothing ==
  ASSUME NEW handed PROVE Shows(handed, << >>, << >>, << >>)
<1>1. Open(<< >>) = {} /\ Cardinality({}) = 0
  BY FS_EmptySet DEF Open
<1>. QED
  BY <1>1 DEF Shows

-----------------------------------------------------------------------------
(* Every word that was handed out leads to its string. *)
WordsLead ==
  \A e \in issued :
    IF e.str \in Tiny THEN e.word = TinyWord(e.str)
    ELSE e.word < Half /\ e.word - 1 \in DOMAIN table /\ table[e.word - 1] = e.str

(* None of them is the mark for the vector, and what the reader finds      *)
(* behind one is what there is to be seen of its string.                   *)
LEMMA WordLeads ==
  ASSUME TypeInv, WordsLead, NEW s, NEW w, [str |-> s, word |-> w] \in issued
  PROVE  /\ s \in Strings /\ w \in Word /\ w # InVector
         /\ Resolve(table, w) = Seen(s)
<1>1. s \in Strings /\ w \in Word
  BY SameFormat DEF TypeInv, ST!TypeOK
<1>2. IF s \in Tiny THEN w = TinyWord(s)
      ELSE w < Half /\ w - 1 \in DOMAIN table /\ table[w - 1] = s
  BY DEF WordsLead
<1>3. Half \in Nat \ {0} /\ DOMAIN table \subseteq Nat /\ w \in Nat
  BY <1>1, WordType DEF TypeInv, ST!TypeOK, Word
<1>4. CASE s \in Tiny
  <2>1. w = Half + TinyCode[s] /\ TinyCode[s] \in Nat
    BY <1>2, <1>4, FormatAssumption DEF TinyWord
  <2>2. w >= Half /\ w - Half = TinyCode[s] /\ w # 0
    BY <1>3, <2>1
  <2>. QED
    BY <1>1, <1>4, <2>2 DEF Resolve, IsInline, Seen, InVector
<1>5. CASE s \notin Tiny
  <2>1. ~(w >= Half) /\ w # 0
    BY <1>2, <1>3, <1>5
  <2>. QED
    BY <1>1, <1>2, <1>5, <2>1 DEF Resolve, IsInline, Seen, InVector
<1>. QED
  BY <1>4, <1>5

(* A record of the cells k lies in the unique cells behind n words; what   *)
(* it says of the vector only frf_next looks at.                           *)
CellsAt(u, k, n) ==
  /\ n \in Nat /\ n + 2 + Len(k) <= Len(u)
  /\ u[n + 1] = Len(k)
  /\ \A i \in 1 .. Len(k) : u[n + 2 + i] = k[i]

(* A row lies in the vectors behind r words: the reference to its cells,   *)
(* and its own words behind it.                                            *)
RowAt(vs, at, vec, r) ==
  /\ r \in Nat /\ r + 1 + Len(vec) <= Len(vs)
  /\ vs[r + 1] = at
  /\ \A i \in 1 .. Len(vec) : vs[r + 1 + i] = vec[i]

(* The reader makes of such a row what there is to be seen of the strings  *)
(* it shows.                                                               *)
LEMMA RowTextIs ==
  ASSUME TypeInv, WordsLead, NEW k \in Seq(Word), NEW vec \in Seq(Word), NEW at \in Word,
         NEW r, NEW d, CellsAt(uc, k, at \div 4), RowAt(v, at, vec, r),
         Shows(issued, k, vec, d)
  PROVE  RowText(Sections, r) = SeenAll(d)
<1>1. PICK n \in Nat : n = at \div 4
  BY DEF CellsAt
<1>2. /\ Len(uc) \in Nat /\ DOMAIN uc = 1 .. Len(uc)
      /\ Len(v) \in Nat /\ DOMAIN v = 1 .. Len(v)
      /\ Len(k) \in Nat /\ Len(vec) \in Nat
  BY LenProperties DEF TypeInv, SectionsOK
<1>3. /\ n + 2 + Len(k) <= Len(uc) /\ uc[n + 1] = Len(k)
      /\ \A i \in 1 .. Len(k) : uc[n + 2 + i] = k[i]
  BY <1>1 DEF CellsAt
<1>4. /\ r \in Nat /\ r + 1 + Len(vec) <= Len(v) /\ v[r + 1] = at
      /\ \A i \in 1 .. Len(vec) : v[r + 1 + i] = vec[i]
  BY DEF RowAt
<1>5. /\ d \in Seq(Strings) /\ Len(d) = Len(k) /\ Len(vec) = Cardinality(Open(k))
      /\ \A i \in 1 .. Len(k) : [str |-> d[i], word |-> WordOf(k, vec, i)] \in issued
  BY DEF Shows
<1>6. UcOffset(Sections, r) = at
  BY <1>2, <1>4 DEF UcOffset, WordAt, Sections
<1>7. UcCount(Sections, r) = Len(k)
  <2>1. n + 1 \in DOMAIN uc
    BY <1>2, <1>3
  <2>. QED
    BY <1>1, <1>3, <1>6, <2>1 DEF UcCount, WordAt, Sections
<1>8. \A i \in 1 .. Len(k) : UcCell(Sections, r, i) = k[i]
  <2> TAKE i \in 1 .. Len(k)
  <2>1. n + 2 + i \in DOMAIN uc
    BY <1>2, <1>3
  <2>. QED
    BY <1>1, <1>3, <1>6, <2>1 DEF UcCell, WordAt, Sections
<1>9. ASSUME NEW i \in 1 .. Len(k)
      PROVE  Resolve(table, CellWord(Sections, r, i)) = Seen(d[i])
  <2>1. {j \in 1 .. i : UcCell(Sections, r, j) = InVector} = OpenUpTo(k, i)
    BY <1>2, <1>8 DEF OpenUpTo
  <2>2. CellWord(Sections, r, i) =
          IF k[i] = InVector THEN WordAt(v, r + 1 + Cardinality(OpenUpTo(k, i))) ELSE k[i]
    BY <1>8, <2>1 DEF CellWord, Sections
  <2>3. CellWord(Sections, r, i) = WordOf(k, vec, i)
    <3>1. CASE k[i] = InVector
      <4>1. PICK m \in 1 .. Len(vec) : m = Cardinality(OpenUpTo(k, i))
        BY <1>5, <3>1, OpenHasPlace
      <4>2. r + 1 + m \in DOMAIN v
        BY <1>2, <1>4
      <4>3. WordAt(v, r + 1 + m) = vec[m]
        BY <1>4, <4>2 DEF WordAt
      <4>. QED
        BY <2>2, <3>1, <4>1, <4>3 DEF WordOf
    <3>2. CASE k[i] # InVector
      BY <2>2, <3>2 DEF WordOf
    <3>. QED
      BY <3>1, <3>2
  <2>. QED
    BY <1>5, <2>3, WordLeads
<1>10. DOMAIN d = 1 .. Len(k)
  BY <1>5, LenProperties
<1>. QED
  BY <1>7, <1>9, <1>10 DEF RowText, SeenAll, Sections

(* Records and rows stay where they are when others follow. *)
LEMMA CellsStay ==
  ASSUME NEW u \in Seq(Nat), NEW more \in Seq(Nat), NEW k \in Seq(Word), NEW n,
         CellsAt(u, k, n)
  PROVE  CellsAt(u \o more, k, n)
<1> DEFINE w == u \o more
<1>1. /\ Len(w) = Len(u) + Len(more) /\ Len(u) \in Nat /\ Len(more) \in Nat
      /\ \A i \in 1 .. Len(u) : w[i] = u[i]
  BY JoinedParts
<1>2. n \in Nat /\ Len(k) \in Nat /\ n + 2 + Len(k) <= Len(u)
  BY DEF CellsAt
<1> HIDE DEF w
<1>3. n + 1 \in 1 .. Len(u) /\ \A i \in 1 .. Len(k) : n + 2 + i \in 1 .. Len(u)
  <2>1. PICK lu \in Nat : lu = Len(u)
    BY <1>1
  <2>2. PICK lk \in Nat : lk = Len(k)
    BY <1>2
  <2>3. n \in Nat /\ n + 2 + lk <= lu
    BY <1>2, <2>1, <2>2
  <2>4. n + 1 \in 1 .. lu /\ \A i \in 1 .. lk : n + 2 + i \in 1 .. lu
    BY <2>3
  <2>. QED
    BY <2>1, <2>2, <2>4
<1>4. n + 2 + Len(k) <= Len(w)
  BY <1>1, <1>2
<1>5. w[n + 1] = u[n + 1] /\ \A i \in 1 .. Len(k) : w[n + 2 + i] = u[n + 2 + i]
  BY <1>1, <1>3
<1>6. CellsAt(w, k, n)
  BY <1>2, <1>4, <1>5 DEF CellsAt
<1>. QED
  BY <1>6 DEF w

LEMMA RowStays ==
  ASSUME NEW vs \in Seq(Word), NEW more \in Seq(Word), NEW vec \in Seq(Word), NEW at, NEW r,
         RowAt(vs, at, vec, r)
  PROVE  RowAt(vs \o more, at, vec, r)
<1> DEFINE w == vs \o more
<1>1. /\ Len(w) = Len(vs) + Len(more) /\ Len(vs) \in Nat /\ Len(more) \in Nat
      /\ \A i \in 1 .. Len(vs) : w[i] = vs[i]
  BY JoinedParts
<1>2. r \in Nat /\ Len(vec) \in Nat /\ r + 1 + Len(vec) <= Len(vs)
  BY DEF RowAt
<1> HIDE DEF w
<1>3. r + 1 \in 1 .. Len(vs) /\ \A i \in 1 .. Len(vec) : r + 1 + i \in 1 .. Len(vs)
  BY <1>1, <1>2
<1>4. r + 1 + Len(vec) <= Len(w)
  BY <1>1, <1>2
<1>5. RowAt(w, at, vec, r)
  BY <1>1, <1>2, <1>3, <1>4 DEF RowAt
<1>. QED
  BY <1>5 DEF w

(* A record that is written lies behind what there was. *)
LEMMA CellsWritten ==
  ASSUME NEW u \in Seq(Nat), NEW k \in Seq(Word), NEW open \in Nat
  PROVE  /\ << Len(k), open >> \o k \in Seq(Nat)
         /\ CellsAt(u \o (<< Len(k), open >> \o k), k, Len(u))
         /\ Len(u \o (<< Len(k), open >> \o k)) = Len(u) + 2 + Len(k)
<1> DEFINE record == << Len(k), open >> \o k
           w == u \o record
<1>1. k \in Seq(Nat)
  <2>1. Word \subseteq Nat
    BY WordType DEF Word
  <2>. QED
    BY <2>1, SeqMonotonic
<1>2. Len(k) \in Nat /\ Len(u) \in Nat
  BY LenProperties
<1>3. \A a, b \in Nat : /\ << a, b >> \o k \in Seq(Nat)
                        /\ Len(<< a, b >> \o k) = 2 + Len(k)
                        /\ (<< a, b >> \o k)[1] = a
                        /\ \A i \in 1 .. Len(k) : (<< a, b >> \o k)[2 + i] = k[i]
  BY <1>1, WordsBehind
<1>4. /\ record \in Seq(Nat) /\ Len(record) = 2 + Len(k) /\ record[1] = Len(k)
      /\ \A i \in 1 .. Len(k) : record[2 + i] = k[i]
  BY <1>2, <1>3
<1> HIDE DEF record
<1>5. /\ Len(w) = Len(u) + Len(record)
      /\ \A i \in 1 .. Len(record) : w[Len(u) + i] = record[i]
  <2>1. Len(w) = Len(u) + Len(record)
    BY <1>4, JoinedParts
  <2>2. \A i \in 1 .. Len(record) : w[Len(u) + i] = record[i]
    BY <1>4, JoinedParts
  <2>. QED
    BY <2>1, <2>2
<1> HIDE DEF w
<1>6. w[Len(u) + 1] = Len(k) /\ Len(w) = Len(u) + 2 + Len(k)
  BY <1>2, <1>4, <1>5
<1>7. \A i \in 1 .. Len(k) : w[Len(u) + 2 + i] = k[i]
  <2> TAKE i \in 1 .. Len(k)
  <2>1. 2 + i \in 1 .. Len(record) /\ Len(u) + (2 + i) = Len(u) + 2 + i
    BY <1>2, <1>4
  <2>. QED
    BY <1>4, <1>5, <2>1
<1>8. CellsAt(w, k, Len(u))
  <2>1. Len(u) + 2 + Len(k) <= Len(w)
    BY <1>2, <1>6
  <2>. QED
    BY <1>2, <1>6, <1>7, <2>1 DEF CellsAt
<1>. QED
  BY <1>4, <1>6, <1>8 DEF w, record

(* So does a row. *)
LEMMA RowIsWritten ==
  ASSUME NEW vs \in Seq(Word), NEW at \in Word, NEW vec \in Seq(Word)
  PROVE  /\ RowAt(vs \o << at >> \o vec, at, vec, Len(vs))
         /\ Len(vs \o << at >> \o vec) = Len(vs) + 1 + Len(vec)
         /\ \E more \in Seq(Word) : vs \o << at >> \o vec = vs \o more
<1> DEFINE front == vs \o << at >>
           w == front \o vec
<1>1. << at >> \in Seq(Word) /\ Len(<< at >>) = 1 /\ << at >>[1] = at
  OBVIOUS
<1>2. Len(vs) \in Nat /\ Len(vec) \in Nat
  BY LenProperties
<1>3. /\ front \in Seq(Word) /\ Len(front) = Len(vs) + 1 /\ front[Len(vs) + 1] = at
  BY <1>1, <1>2, JoinedParts
<1> HIDE DEF front
<1>4. /\ Len(w) = Len(front) + Len(vec)
      /\ \A i \in 1 .. Len(front) : w[i] = front[i]
      /\ \A i \in 1 .. Len(vec) : w[Len(front) + i] = vec[i]
  <2>1. Len(w) = Len(front) + Len(vec)
    BY <1>3, JoinedParts
  <2>2. \A i \in 1 .. Len(front) : w[i] = front[i]
    BY <1>3, JoinedParts
  <2>3. \A i \in 1 .. Len(vec) : w[Len(front) + i] = vec[i]
    BY <1>3, JoinedParts
  <2>. QED
    BY <2>1, <2>2, <2>3
<1> HIDE DEF w
<1>5. Len(w) = Len(vs) + 1 + Len(vec) /\ w[Len(vs) + 1] = at
  BY <1>2, <1>3, <1>4
<1>6. RowAt(w, at, vec, Len(vs))
  BY <1>2, <1>3, <1>4, <1>5 DEF RowAt
<1>7. << at >> \o vec \in Seq(Word) /\ vs \o << at >> \o vec = vs \o (<< at >> \o vec)
  BY <1>1, ConcatAssociative, ConcatProperties
<1>. QED
  BY <1>5, <1>6, <1>7 DEF w, front

-----------------------------------------------------------------------------
(* The pointers fit: strings are below 2 GiB, and unique cells and vectors *)
(* below 4 GiB.                                                            *)
PointersFit == table_size <= Half /\ UcFits /\ VFits

(* What add returns is not negative besides: the vectors are below 2 GiB.  *)
Small == PointersFit /\ 4 * Len(v) <= Half

(* The records lie where the lookup says. *)
RecordsLie ==
  \A k \in DOMAIN uniq_cells_lookup : CellsAt(uc, k, uniq_cells_lookup[k] \div 4)

(* A row that was added lies behind so many words, and shows what it       *)
(* renders to.                                                             *)
RowLies(r, p) ==
  \E k \in DOMAIN uniq_cells_lookup, vec \in Seq(Word) : \E d :
    /\ RowAt(v, uniq_cells_lookup[k], vec, r) /\ Shows(issued, k, vec, d)
    /\ SeenAll(d) \in RendersTo[content][p]

(* The rows lie where their offsets lead, no two in one place. *)
RowsLie ==
  /\ \A i \in DOMAIN answers : \E n \in 0 .. Len(v) - 1 :
       answers[i].offset = AsInt(4 * n) /\ Pointed(answers[i]) = n
  /\ \A i, j \in DOMAIN answers : Pointed(answers[i]) = Pointed(answers[j]) => i = j
  /\ \A i \in DOMAIN answers :
       ~answers[i].overrun => RowLies(Pointed(answers[i]), answers[i].row)

(* Below 2 GiB the offsets are those of the rows as they are. *)
LEMMA SmallOffsets ==
  ASSUME RowsLie, Small, Len(v) \in Nat, NEW i \in DOMAIN answers
  PROVE  answers[i].offset \div 4 = Pointed(answers[i])
<1>1. PICK n \in 0 .. Len(v) - 1 : answers[i].offset = AsInt(4 * n) /\ Pointed(answers[i]) = n
  BY DEF RowsLie
<1>2. Half \in Nat \ {0} /\ 4 * n < Half /\ (4 * n) \div 4 = n
  BY FormatAssumption DEF Small
<1>3. AsInt(4 * n) = 4 * n
  BY <1>2 DEF AsInt
<1>. QED
  BY <1>1, <1>2, <1>3

(* The answer to a call is the place of its row. *)
LEMMA AnswerIsPlace ==
  ASSUME TypeInv, VCounted, PointersFit, PointersFit', FinishRow
  PROVE  /\ vector_written = 4 * Len(v) /\ 4 * Len(v) \in Word /\ Len(v) \in Nat
         /\ (AsInt(4 * Len(v)) % (2 * Half)) \div 4 = Len(v)
         /\ Len(v') = Len(v) + 1 + Len(vector) /\ Len(vector) \in Nat
<1>1. /\ v \in Seq(Word) /\ vector \in Seq(Word) /\ UniqOffset \in Word
      /\ Half \in Nat \ {0}
  BY FormatAssumption DEF TypeInv, SectionsOK, OutputOK, UniqOffset, UniqKnown
<1>2. Len(v) \in Nat /\ Len(vector) \in Nat
  BY <1>1, LenProperties
<1>3. Len(v') = Len(v) + 1 + Len(vector)
  BY <1>1, RowIsWritten DEF FinishRow
<1>4. vector_written = 4 * Len(v)
  BY DEF VCounted, PointersFit
<1>5. 4 * Len(v) \in Word
  BY <1>1, <1>2 DEF Word, PointersFit, VFits
<1>6. AsInt(4 * Len(v)) % (2 * Half) = 4 * Len(v)
  BY <1>5, AsIntBack
<1>7. (4 * Len(v)) \div 4 = Len(v)
  BY <1>2
<1>. QED
  BY <1>2, <1>3, <1>4, <1>5, <1>6, <1>7

(* The records stay where they are, and the new one lies behind them. *)
LEMMA FinishKeepsRecords ==
  ASSUME TypeInv, HeaderInv, PointersFit, RecordsLie, FinishRow
  PROVE  /\ RecordsLie'
         /\ cells \in DOMAIN uniq_cells_lookup' /\ uniq_cells_lookup'[cells] = UniqOffset
         /\ \A k \in DOMAIN uniq_cells_lookup :
              k \in DOMAIN uniq_cells_lookup' /\ uniq_cells_lookup'[k] = uniq_cells_lookup[k]
<1>1. uniq_cells_lookup' = ST!Put(uniq_cells_lookup, cells, UniqOffset)
  BY DEF FinishRow
<1>2. /\ DOMAIN uniq_cells_lookup' = DOMAIN uniq_cells_lookup \cup {cells}
      /\ uniq_cells_lookup'[cells] = UniqOffset
      /\ \A k \in DOMAIN uniq_cells_lookup \ {cells} :
           uniq_cells_lookup'[k] = uniq_cells_lookup[k]
  BY <1>1 DEF ST!Put
<1>3. cells \in DOMAIN uniq_cells_lookup => UniqOffset = uniq_cells_lookup[cells]
  BY DEF UniqOffset, UniqKnown
<1>4. CASE UniqKnown
  <2>1. uc' = uc
    BY <1>4 DEF FinishRow
  <2>. QED
    BY <1>2, <1>3, <1>4, <2>1 DEF RecordsLie, UniqKnown
<1>5. CASE ~UniqKnown
  <2>1. uc \in Seq(Nat) /\ cells \in Seq(Word) /\ Len(vector) \in Nat /\ Len(uc) \in Nat
    BY LenProperties DEF TypeInv, SectionsOK, OutputOK
  <2>2. UniqOffset = 4 * Len(uc)
    BY <1>5 DEF UniqOffset, HeaderInv, UcCounted, PointersFit, UcFits
  <2>3. UniqOffset \div 4 = Len(uc)
    BY <2>1, <2>2
  <2>4. uc' = uc \o (<< Len(cells), Len(vector) >> \o cells)
    BY <1>5 DEF FinishRow, UcAdded
  <2>5. << Len(cells), Len(vector) >> \o cells \in Seq(Nat) /\ CellsAt(uc', cells, Len(uc))
    BY <2>1, <2>4, CellsWritten
  <2>6. ASSUME NEW k \in DOMAIN uniq_cells_lookup
        PROVE  CellsAt(uc', k, uniq_cells_lookup[k] \div 4)
    <3>1. k \in Seq(Word) /\ CellsAt(uc, k, uniq_cells_lookup[k] \div 4)
      BY DEF RecordsLie, TypeInv, SectionsOK
    <3>. QED
      BY <2>1, <2>4, <2>5, <3>1, CellsStay
  <2>. QED
    BY <1>2, <1>3, <2>3, <2>5, <2>6 DEF RecordsLie
<1>. QED
  BY <1>2, <1>3, <1>4, <1>5

(* The answer that ends a row joins those there are. *)
LEMMA AnswerJoins ==
  ASSUME TypeInv, VCounted, PointersFit, PointersFit', FinishRow
  PROVE  /\ Len(answers) \in Nat /\ DOMAIN answers = 1 .. Len(answers)
         /\ DOMAIN answers' = 1 .. Len(answers) + 1
         /\ \A i \in DOMAIN answers : answers'[i] = answers[i]
         /\ answers'[Len(answers) + 1] =
              [offset |-> AsInt(4 * Len(v)), row |-> p13n, overrun |-> overrun]
<1> DEFINE Answer == [offset : -Half .. Half - 1, row : Rows, overrun : BOOLEAN]
           answer == [offset |-> AsInt(4 * Len(v)), row |-> p13n, overrun |-> overrun]
<1>1. answers' = Append(answers, answer)
  BY AnswerIsPlace DEF FinishRow
<1>2. answers \in Seq(Answer)
  BY DEF TypeInv, AnswersOK
<1>3. answer \in Answer
  <2>1. AsInt(vector_written) \in -Half .. Half - 1
    BY AsIntType DEF TypeInv, SectionsOK
  <2>. QED
    BY <2>1, AnswerIsPlace DEF TypeInv, OutputOK, PlaceOK, InARow, FinishRow
<1> HIDE DEF Answer, answer
<1>4. /\ DOMAIN Append(answers, answer) = 1 .. Len(answers) + 1
      /\ Append(answers, answer)[Len(answers) + 1] = answer
      /\ \A i \in 1 .. Len(answers) : Append(answers, answer)[i] = answers[i]
  BY <1>2, <1>3, AppendProperties
<1>5. Len(answers) \in Nat /\ DOMAIN answers = 1 .. Len(answers)
  BY <1>2, LenProperties
<1>. QED
  BY <1>1, <1>4, <1>5 DEF answer

(* The rows stay where they are, and the new one lies behind them.         *)
LEMMA FinishKeepsRows ==
  ASSUME TypeInv, HeaderInv, VCounted, PointersFit, PointersFit', RecordsLie, RowsLie, FinishRow,
         UNCHANGED content,
         ~overrun => \E d : /\ Shows(issued, cells, vector, d)
                            /\ SeenAll(d) \in RendersTo[content][p13n]
  PROVE  RowsLie'
<1>1. /\ v \in Seq(Word) /\ vector \in Seq(Word) /\ UniqOffset \in Word
      /\ issued' = issued
  BY DEF TypeInv, SectionsOK, OutputOK, UniqOffset, UniqKnown, FinishRow, tableVars
<1>2. /\ Len(v) \in Nat /\ (AsInt(4 * Len(v)) % (2 * Half)) \div 4 = Len(v)
      /\ Len(v') = Len(v) + 1 + Len(vector) /\ Len(vector) \in Nat
  BY AnswerIsPlace
<1>3. /\ Len(answers) \in Nat /\ DOMAIN answers = 1 .. Len(answers)
      /\ DOMAIN answers' = 1 .. Len(answers) + 1
      /\ \A i \in DOMAIN answers : answers'[i] = answers[i]
      /\ answers'[Len(answers) + 1] =
           [offset |-> AsInt(4 * Len(v)), row |-> p13n, overrun |-> overrun]
  BY AnswerJoins
<1>4. /\ RowAt(v', UniqOffset, vector, Len(v))
      /\ \E more \in Seq(Word) : v' = v \o more
  BY <1>1, RowIsWritten DEF FinishRow
<1>5. PICK last : last = Len(answers) + 1
  OBVIOUS
<1>6. /\ answers'[last].offset = AsInt(4 * Len(v)) /\ answers'[last].overrun = overrun
      /\ answers'[last].row = p13n
      /\ \A i \in DOMAIN answers' : i = last \/ i \in DOMAIN answers
      /\ last \in DOMAIN answers' /\ DOMAIN answers \subseteq DOMAIN answers'
  BY <1>3, <1>5
<1>7. \A i \in DOMAIN answers : \E n \in 0 .. Len(v) - 1 :
        answers'[i].offset = AsInt(4 * n) /\ Pointed(answers'[i]) = n
  BY <1>3 DEF RowsLie
<1>8. Pointed(answers'[last]) = Len(v)
  BY <1>2, <1>6 DEF Pointed
<1>9. \A i \in DOMAIN answers' : \E n \in 0 .. Len(v') - 1 :
        answers'[i].offset = AsInt(4 * n) /\ Pointed(answers'[i]) = n
  <2>1. \A n \in 0 .. Len(v) - 1 : n \in 0 .. Len(v') - 1
    BY <1>2
  <2>2. Len(v) \in 0 .. Len(v') - 1
    BY <1>2
  <2>. QED
    BY <1>6, <1>7, <1>8, <2>1, <2>2
<1>10. \A i, j \in DOMAIN answers' : Pointed(answers'[i]) = Pointed(answers'[j]) => i = j
  <2>1. \A n \in 0 .. Len(v) - 1 : n # Len(v)
    BY <1>2
  <2>2. \A i \in DOMAIN answers : Pointed(answers'[i]) # Pointed(answers'[last])
    BY <1>7, <1>8, <2>1
  <2>3. \A i, j \in DOMAIN answers : Pointed(answers'[i]) = Pointed(answers'[j]) => i = j
    BY <1>3 DEF RowsLie
  <2>. QED
    BY <1>6, <2>2, <2>3
<1>11. ASSUME NEW i \in DOMAIN answers', ~answers'[i].overrun
       PROVE  \E k \in DOMAIN uniq_cells_lookup', vec \in Seq(Word) : \E d :
                /\ RowAt(v', uniq_cells_lookup'[k], vec, Pointed(answers'[i]))
                /\ Shows(issued', k, vec, d)
                /\ SeenAll(d) \in RendersTo[content'][answers'[i].row]
  <2>1. /\ cells \in DOMAIN uniq_cells_lookup' /\ uniq_cells_lookup'[cells] = UniqOffset
        /\ \A k \in DOMAIN uniq_cells_lookup :
             k \in DOMAIN uniq_cells_lookup' /\ uniq_cells_lookup'[k] = uniq_cells_lookup[k]
    BY FinishKeepsRecords
  <2>2. CASE i = last
    <3>1. PICK d : Shows(issued, cells, vector, d) /\ SeenAll(d) \in RendersTo[content][p13n]
      BY <1>6, <1>11, <2>2
    <3>2. PICK r : r = Len(v)
      OBVIOUS
    <3>3. /\ RowAt(v', uniq_cells_lookup'[cells], vector, Pointed(answers'[i]))
          /\ Shows(issued', cells, vector, d)
          /\ SeenAll(d) \in RendersTo[content'][answers'[i].row]
      BY <1>1, <1>4, <1>6, <1>8, <2>1, <2>2, <3>1, <3>2
    <3>. QED
      BY <1>1, <2>1, <3>3
  <2>3. CASE i # last
    <3>1. i \in DOMAIN answers /\ answers'[i] = answers[i]
      BY <1>3, <1>6, <2>3
    <3>. PICK k \in DOMAIN uniq_cells_lookup, vec \in Seq(Word) : \E d :
            /\ RowAt(v, uniq_cells_lookup[k], vec, Pointed(answers[i]))
            /\ Shows(issued, k, vec, d)
            /\ SeenAll(d) \in RendersTo[content][answers[i].row]
      BY <1>11, <3>1 DEF RowsLie, RowLies
    <3>2. PICK d : /\ RowAt(v, uniq_cells_lookup[k], vec, Pointed(answers[i]))
                   /\ Shows(issued, k, vec, d)
                   /\ SeenAll(d) \in RendersTo[content][answers[i].row]
      OBVIOUS
    <3>3. PICK r : r = Pointed(answers[i])
      OBVIOUS
    <3>4. RowAt(v', uniq_cells_lookup[k], vec, r)
      BY <1>1, <1>4, <3>2, <3>3, RowStays
    <3>. QED
      BY <1>1, <2>1, <3>1, <3>2, <3>3, <3>4
  <2>. QED
    BY <2>2, <2>3
<1>. QED
  BY <1>9, <1>10, <1>11 DEF RowsLie, RowLies

(* A row that was added is read as what there is to be seen of its strings.*)
LEMMA RowIsRead ==
  ASSUME TypeInv, WordsLead, RecordsLie, NEW k \in DOMAIN uniq_cells_lookup,
         NEW vec \in Seq(Word), NEW r, NEW d,
         RowAt(v, uniq_cells_lookup[k], vec, r), Shows(issued, k, vec, d)
  PROVE  RowText(Sections, r) = SeenAll(d)
<1>1. k \in Seq(Word) /\ uniq_cells_lookup[k] \in Word
  BY DEF TypeInv, SectionsOK
<1>2. CellsAt(uc, k, uniq_cells_lookup[k] \div 4)
  BY DEF RecordsLie
<1>. QED
  BY <1>1, <1>2, RowTextIs

(* The same for all of them. *)
RowsRead ==
  \A k \in DOMAIN uniq_cells_lookup : \A vec \in Seq(Word) : \A r, d :
    RowAt(v, uniq_cells_lookup[k], vec, r) /\ Shows(issued, k, vec, d) =>
      RowText(Sections, r) = SeenAll(d)
LEMMA RowsAreRead == TypeInv /\ WordsLead /\ RecordsLie => RowsRead
  BY RowIsRead DEF RowsRead

(* The rows the store amounts to, under the offsets they were given. *)
Clean == {i \in DOMAIN answers : ~answers[i].overrun}
StoreIs ==
  /\ DOMAIN StoredRows = {answers[i].offset : i \in Clean}
  /\ StoredRows = [h \in DOMAIN StoredRows |-> StoredRows[h]]
  /\ \A i \in Clean :
       StoredRows[answers[i].offset] =
         [row |-> answers[i].row, text |-> RowText(Sections, answers[i].offset \div 4)]
LEMMA StoredIs == RowsLie => StoreIs
<1> SUFFICES ASSUME RowsLie PROVE StoreIs
  OBVIOUS
<1> DEFINE of(h) == CHOOSE j \in Clean : answers[j].offset = h
           value(h) == [row |-> answers[of(h)].row, text |-> RowText(Sections, h \div 4)]
<1>1. StoredRows = [h \in {answers[i].offset : i \in Clean} |-> value(h)]
  BY DEF StoredRows, Clean
<1>2. \A i \in Clean : of(answers[i].offset) = i
  <2> TAKE i \in Clean
  <2>1. \A j \in Clean : answers[j].offset = answers[i].offset => j = i
    BY DEF RowsLie, Clean, Pointed
  <2>. QED
    BY <2>1
<1> HIDE DEF of
<1>3. \A i \in Clean : value(answers[i].offset) =
        [row |-> answers[i].row, text |-> RowText(Sections, answers[i].offset \div 4)]
  BY <1>2
<1> HIDE DEF value
<1>. QED
  BY <1>1, <1>3 DEF StoreIs

(* A clean row is read the same as long as its words stay where they are.  *)
LEMMA TextStays ==
  ASSUME TypeInv, WordsLead, RecordsLie, TypeInv', WordsLead', RecordsLie',
         issued \subseteq issued',
         \A k \in DOMAIN uniq_cells_lookup :
           k \in DOMAIN uniq_cells_lookup' /\ uniq_cells_lookup'[k] = uniq_cells_lookup[k],
         v' = v \/ \E more \in Seq(Word) : v' = v \o more,
         NEW r, NEW p, RowLies(r, p)
  PROVE  RowText(Sections, r)' = RowText(Sections, r)
<1>. PICK k \in DOMAIN uniq_cells_lookup, vec \in Seq(Word) : \E d :
       RowAt(v, uniq_cells_lookup[k], vec, r) /\ Shows(issued, k, vec, d)
  BY DEF RowLies
<1>1. PICK d : RowAt(v, uniq_cells_lookup[k], vec, r) /\ Shows(issued, k, vec, d)
  OBVIOUS
<1>2. RowText(Sections, r) = SeenAll(d)
  BY <1>1, RowIsRead
<1>3. RowAt(v', uniq_cells_lookup'[k], vec, r) /\ Shows(issued', k, vec, d)
      /\ k \in DOMAIN uniq_cells_lookup'
  <2>1. RowAt(v', uniq_cells_lookup[k], vec, r)
    BY <1>1, RowStays DEF TypeInv, SectionsOK
  <2>. QED
    BY <1>1, <2>1, ShowsStays
<1>4. RowsRead'
  BY RowsAreRead, PTL
<1>5. RowText(Sections, r)' = SeenAll(d)
  BY <1>3, <1>4 DEF RowsRead
<1>. QED
  BY <1>2, <1>5

(* The end of a row that touched nothing behind its `results' adds its     *)
(* rendering to the store.                                                 *)
LEMMA FinishAdds ==
  ASSUME TypeInv, HeaderInv, VCounted, WordsLead, RecordsLie, RowsLie, Small,
         TypeInv', WordsLead', RecordsLie', RowsLie', Small', FinishRow, UNCHANGED content,
         ~overrun, NEW d, Shows(issued, cells, vector, d),
         SeenAll(d) \in RendersTo[content][p13n]
  PROVE  Store!Add(p13n)
<1>1. /\ Len(answers) \in Nat /\ DOMAIN answers = 1 .. Len(answers)
      /\ DOMAIN answers' = 1 .. Len(answers) + 1
      /\ \A i \in DOMAIN answers : answers'[i] = answers[i]
      /\ answers'[Len(answers) + 1] =
           [offset |-> AsInt(4 * Len(v)), row |-> p13n, overrun |-> overrun]
  BY AnswerJoins DEF Small
<1>2. /\ Len(v) \in Nat /\ (4 * Len(v)) \div 4 = Len(v) /\ AsInt(4 * Len(v)) = 4 * Len(v)
  <2>1. Len(v) \in Nat /\ Len(vector) \in Nat /\ Len(v') = Len(v) + 1 + Len(vector)
    BY AnswerIsPlace DEF Small
  <2>2. 4 * Len(v') <= Half /\ Half \in Nat
    BY FormatAssumption DEF Small
  <2>3. ~(4 * Len(v) >= Half) /\ (4 * Len(v)) \div 4 = Len(v)
    BY <2>1, <2>2
  <2>. QED
    BY <2>1, <2>3 DEF AsInt
<1>3. PICK h, last, new :
        /\ h = 4 * Len(v) /\ last = Len(answers) + 1
        /\ new = [row |-> p13n, text |-> SeenAll(d)]
  OBVIOUS
<1>4. StoreIs /\ StoreIs'
  BY StoredIs, PTL
<1>5. Clean' = Clean \cup {last} /\ Clean \subseteq DOMAIN answers
  <2>1. DOMAIN answers' = DOMAIN answers \cup {last} /\ answers'[last].overrun = FALSE
    BY <1>1, <1>3
  <2>. QED
    BY <1>1, <2>1 DEF Clean
<1>6. answers'[last].offset = h /\ answers'[last].row = p13n /\ h \div 4 = Len(v)
      /\ last \in Clean'
  BY <1>1, <1>2, <1>3, <1>5
<1>7. h \notin DOMAIN StoredRows
  <2>1. \A i \in DOMAIN answers : answers[i].offset # 4 * Len(v)
    <3> TAKE i \in DOMAIN answers
    <3>1. PICK n \in 0 .. Len(v) - 1 : Pointed(answers[i]) = n
      BY DEF RowsLie
    <3>2. answers[i].offset \div 4 = n /\ n # Len(v)
      BY <1>2, <3>1, SmallOffsets
    <3>. QED
      BY <1>2, <3>2
  <2>. QED
    BY <1>3, <1>4, <1>5, <2>1 DEF StoreIs
<1>8. DOMAIN StoredRows' = DOMAIN StoredRows \cup {h}
  <2>1. \A i \in Clean : answers'[i].offset = answers[i].offset
    BY <1>1, <1>5
  <2>. QED
    BY <1>4, <1>5, <1>6, <2>1 DEF StoreIs
<1>9. /\ v' = v \o << UniqOffset >> \o vector /\ issued' = issued
      /\ v \in Seq(Word) /\ vector \in Seq(Word) /\ UniqOffset \in Word
  BY DEF TypeInv, SectionsOK, OutputOK, UniqOffset, UniqKnown, FinishRow, tableVars
<1>10. /\ RowAt(v', UniqOffset, vector, Len(v))
       /\ \E more \in Seq(Word) : v' = v \o more
  BY <1>9, RowIsWritten
<1>11. /\ cells \in DOMAIN uniq_cells_lookup' /\ uniq_cells_lookup'[cells] = UniqOffset
       /\ \A k \in DOMAIN uniq_cells_lookup :
            k \in DOMAIN uniq_cells_lookup' /\ uniq_cells_lookup'[k] = uniq_cells_lookup[k]
  BY FinishKeepsRecords DEF Small
<1>12. StoredRows'[h] = new
  <2>1. StoredRows'[h] = [row |-> p13n, text |-> RowText(Sections', Len(v))]
    BY <1>4, <1>6 DEF StoreIs
  <2>2. RowsRead'
    BY RowsAreRead, PTL
  <2>3. RowText(Sections', Len(v)) = SeenAll(d)
    <3>1. PICK r : r = Len(v)
      OBVIOUS
    <3>2. RowAt(v', uniq_cells_lookup'[cells], vector, r) /\ Shows(issued', cells, vector, d)
      BY <1>9, <1>10, <1>11, <3>1
    <3>. QED
      BY <1>9, <1>11, <2>2, <3>1, <3>2 DEF RowsRead
  <2>. QED
    BY <1>3, <2>1, <2>3
<1>13. ASSUME NEW i \in Clean
       PROVE  StoredRows'[answers[i].offset] = StoredRows[answers[i].offset]
  <2>1. answers'[i] = answers[i] /\ i \in Clean'
    BY <1>1, <1>5
  <2>2. RowLies(answers[i].offset \div 4, answers[i].row)
    BY <1>2, SmallOffsets DEF RowsLie, Clean
  <2>3. PICK r : r = answers[i].offset \div 4
    OBVIOUS
  <2>4. RowText(Sections', r) = RowText(Sections, r)
    BY <1>9, <1>10, <1>11, <2>2, <2>3, TextStays
  <2>5. StoredRows[answers[i].offset] = [row |-> answers[i].row, text |-> RowText(Sections, r)]
    BY <1>4, <2>3 DEF StoreIs
  <2>6. StoredRows'[answers'[i].offset] =
          [row |-> answers'[i].row, text |-> RowText(Sections', answers'[i].offset \div 4)]
    BY <1>4, <2>1 DEF StoreIs
  <2>. QED
    BY <2>1, <2>3, <2>4, <2>5, <2>6
<1>14. \A x \in DOMAIN StoredRows : StoredRows'[x] = StoredRows[x] /\ x # h
  BY <1>4, <1>7, <1>13 DEF StoreIs
<1>15. StoredRows' = [x \in DOMAIN StoredRows \cup {h} |->
                        IF x = h THEN new ELSE StoredRows[x]]
  <2>1. StoredRows' = [x \in DOMAIN StoredRows' |-> StoredRows'[x]]
    BY <1>4 DEF StoreIs
  <2>. QED
    BY <1>8, <1>12, <1>14, <2>1
<1>16. h \in DOMAIN StoredRows' \ DOMAIN StoredRows
  BY <1>7, <1>8
<1>. QED
  BY <1>3, <1>15, <1>16 DEF Store!Add
(* Steps that add no such row leave the store as it is. *)
LEMMA StoreStays ==
  ASSUME TypeInv, WordsLead, RecordsLie, RowsLie, Small, TypeInv', WordsLead', RecordsLie', RowsLie',
         issued \subseteq issued',
         \A k \in DOMAIN uniq_cells_lookup :
           k \in DOMAIN uniq_cells_lookup' /\ uniq_cells_lookup'[k] = uniq_cells_lookup[k],
         v' = v \/ \E more \in Seq(Word) : v' = v \o more,
         Clean' = Clean, \A i \in Clean : answers'[i] = answers[i]
  PROVE  UNCHANGED StoredRows
<1>1. StoreIs /\ StoreIs'
  BY StoredIs, PTL
<1>2. DOMAIN StoredRows' = DOMAIN StoredRows
  BY <1>1 DEF StoreIs
<1>3. ASSUME NEW i \in Clean
      PROVE  StoredRows'[answers[i].offset] = StoredRows[answers[i].offset]
  <2>1. answers'[i] = answers[i] /\ i \in Clean'
    OBVIOUS
  <2>2. RowLies(answers[i].offset \div 4, answers[i].row)
    BY SmallOffsets, LenProperties DEF RowsLie, Clean, TypeInv, SectionsOK
  <2>3. PICK r : r = answers[i].offset \div 4
    OBVIOUS
  <2>4. RowText(Sections', r) = RowText(Sections, r)
    BY <2>2, <2>3, TextStays
  <2>5. StoredRows[answers[i].offset] = [row |-> answers[i].row, text |-> RowText(Sections, r)]
    BY <1>1, <2>3 DEF StoreIs
  <2>6. StoredRows'[answers'[i].offset] =
          [row |-> answers'[i].row, text |-> RowText(Sections', answers'[i].offset \div 4)]
    BY <1>1, <2>1 DEF StoreIs
  <2>. QED
    BY <2>1, <2>3, <2>4, <2>5, <2>6
<1>4. \A x \in DOMAIN StoredRows : StoredRows'[x] = StoredRows[x]
  BY <1>1, <1>3 DEF StoreIs
<1>5. /\ StoredRows = [x \in DOMAIN StoredRows |-> StoredRows[x]]
      /\ StoredRows' = [x \in DOMAIN StoredRows' |-> StoredRows'[x]]
  BY <1>1 DEF StoreIs
<1>. QED
  BY <1>2, <1>4, <1>5

-----------------------------------------------------------------------------
(* The string table the maker writes is the one of StringTable, and what   *)
(* is proved of that one holds of it.                                      *)
STP == INSTANCE StringTableProofs

LEMMA TableAssumed == STP!FormatAssumption /\ STP!TableAssumption
<1>1. STP!FormatAssumption
  BY FormatAssumption DEF STP!FormatAssumption, STP!Tiny, Tiny, STP!TinyMax, TinyMax
<1>2. STP!TableAssumption
  BY MakerAssumption DEF STP!TableAssumption
<1>. QED
  BY <1>1, <1>2

(* The two go by the same names. *)
LEMMA SameTable ==
  /\ UNCHANGED tableVars => UNCHANGED STP!vars
  /\ \A s \in Strings : ST!AddString(s) => STP!Next
  /\ ST!Init => STP!Init
<1>1. UNCHANGED tableVars => UNCHANGED STP!vars
  BY DEF tableVars, STP!vars, STP!tableVars, STP!lookupVars
<1>2. ASSUME NEW s \in Strings, ST!AddString(s) PROVE STP!Next
  <2>1. STP!AddString(s)
    BY <1>2, Zenon DEF
      ST!AddString, ST!Issue, ST!Pointer, ST!LookupNow, ST!ArenaFull, ST!NoEntry, ST!Put,
      ST!AddTiny, ST!AddKnown, ST!AddShort, ST!AddLong, ST!WriteRecord, ST!ResetMark,
      ST!CounterAfter, ST!RecordSize, ST!TinyWord, ST!Tiny, ST!Short, ST!TinyMax,
      ST!tableVars, ST!lookupVars,
      STP!AddString, STP!Issue, STP!Pointer, STP!LookupNow, STP!ArenaFull, STP!NoEntry, STP!Put,
      STP!AddTiny, STP!AddKnown, STP!AddShort, STP!AddLong, STP!WriteRecord, STP!ResetMark,
      STP!CounterAfter, STP!RecordSize, STP!TinyWord, STP!Tiny, STP!Short, STP!TinyMax,
      STP!tableVars, STP!lookupVars
  <2>. QED
    BY <2>1 DEF STP!Next
<1>3. ST!Init => STP!Init
  BY Zenon DEF ST!Init, STP!Init, ST!NoEntry, STP!NoEntry
<1>. QED
  BY <1>1, <1>2, <1>3

(* Every step hands out a pointer or leaves the table alone. *)
LEMMA TableSteps ==
  ASSUME TypeInv, [Next]_vars
  PROVE  UNCHANGED tableVars \/ \E s \in Strings : ST!AddString(s)
<1>1. CASE PrecompileText
  BY <1>1, SegmentType DEF PrecompileText, AtSegment, TypeInv
<1>2. CASE EmitValue
  <2>1. /\ Head(stack) \in Cell /\ p13n \in Rows /\ Head(stack).type \in {"p13n", "dt"}
    BY <1>2, HeadType DEF EmitValue
  <2>. QED
    BY <1>2, <2>1, ValueType DEF EmitValue
<1>3. CASE PrecompileKnownTag \/ PrecompileNewTag \/ PrecompileUnknownTag \/ PrecompileEnd
  BY <1>3 DEF PrecompileKnownTag, PrecompileNewTag, PrecompileUnknownTag, PrecompileEnd
<1>4. CASE SpliceDc \/ EmitStatic \/ EmitKnown \/ FinishRow
  BY <1>4 DEF SpliceDc, EmitStatic, EmitKnown, FinishRow
<1>5. CASE \/ CompileDc \/ SpliceNothing \/ EmitNull \/ PrecompileExits \/ OverrunCrashes
           \/ Finish \/ \E p \in Rows : BeginAdd(p)
  BY <1>5 DEF CompileDc, SpliceNothing, EmitNull, PrecompileExits, OverrunCrashes, Finish,
              BeginAdd
<1>6. CASE UNCHANGED vars
  BY <1>6 DEF vars
<1>. QED
  BY <1>1, <1>2, <1>3, <1>4, <1>5, <1>6 DEF Next, Step, Stopped

(* What holds of the table from the start holds as the maker uses it. *)
LEMMA TableKept ==
  (Init => STP!IInv) /\ (STP!IInv /\ TypeInv /\ [Next]_vars => STP!IInv')
<1>1. STP!Init => STP!IInv
  BY TableAssumed, STP!InitIInv, Zenon
<1>2. STP!IInv /\ [STP!Next]_(STP!vars) => STP!IInv'
  BY TableAssumed, STP!NextIInv, Zenon
<1>3. TypeInv /\ [Next]_vars => STP!Next \/ UNCHANGED STP!vars
  BY TableSteps, SameTable
<1>. QED
  BY <1>1, <1>2, <1>3, SameTable DEF Init

(* The pointers lead to their strings as long as they fit a word. *)
LEMMA TableLeads == STP!IInv /\ table_size <= Half => WordsLead
<1>1. STP!Tiny = Tiny /\ \A s : STP!TinyWord(s) = TinyWord(s)
  BY DEF STP!Tiny, Tiny, STP!TinyMax, TinyMax, STP!TinyWord, TinyWord
<1>. QED
  BY <1>1 DEF STP!IInv, STP!IssuedSound, WordsLead

(* No pointer is taken back. *)
LEMMA IssuedGrows == TypeInv /\ [Next]_vars => issued \subseteq issued'
<1>1. UNCHANGED tableVars => issued \subseteq issued'
  BY DEF tableVars
<1>2. \A s \in Strings : ST!AddString(s) => issued \subseteq issued'
  BY DEF ST!AddString, ST!Issue
<1>. QED
  BY <1>1, <1>2, TableSteps

-----------------------------------------------------------------------------
(* Cells are static or those of tags that are known. *)
Tagged(cs, tags) ==
  \A i \in DOMAIN cs : cs[i].type # "static" => \E k \in DOMAIN tags : cs[i] = tags[k]

(* A tag has a cell its key calls for: a key of dynamic content that was    *)
(* missed may be a call too.                                               *)
TagIs(k, cell) ==
  IF k \in DOMAIN FieldOf THEN cell.type = "p13n" /\ cell.p13n = FieldOf[k]
  ELSE \/ k \in DOMAIN Dc /\ cell.type = "dc" /\ cell.dc = k
       \/ k \in DtKeys /\ cell.type = "dt" /\ cell.exp = k

TagsRight ==
  /\ \A k \in DOMAIN tag_lookup : TagIs(k, tag_lookup[k])
  /\ \A c \in DOMAIN compiled : Tagged(compiled[c], tag_lookup)
  /\ Tagged(cc_head, tag_lookup) /\ Tagged(stack, tag_lookup)

(* A slot of `results' holds nothing or the pointer that was handed out    *)
(* for what its tag comes to in the row.                                   *)
ResultsRight ==
  /\ \A i \in Slots : i >= num_uniq_tags => results[i] = 0
  /\ \A k \in DOMAIN tag_lookup :
       LET cell == tag_lookup[k] IN
       cell.type \in {"p13n", "dt"} /\ results[cell.value_index] # 0 =>
         [str |-> ValueOf(cell), word |-> results[cell.value_index]] \in issued

(* The segments that were compiled, and the tags of the body among them.   *)
Done(c, i) == c \in DOMAIN compiled \/ (c = compiling /\ i < segment)
TagsMet ==
  /\ \A i \in TagsIn(content) :
       Done(content, i) /\ KeyAt(content, i) \in Meaningful =>
         KeyAt(content, i) \in DOMAIN tag_lookup
  /\ \A k \in DOMAIN tag_lookup :
       k \in DOMAIN Dc \ DOMAIN FieldOf /\ tag_lookup[k].type # "dc" =>
         /\ content \in DOMAIN compiled
         /\ \A i \in TagsIn(content) : KeyAt(content, i) # k

(* A content is compiled once, from its first segment to its last. *)
CompilesOnce ==
  /\ pc = "precompile" =>
       /\ compiling \notin DOMAIN compiled
       /\ segment <= Len(SegmentsOf[compiling]) + 1
       /\ compiling = content \/ compiling \notin Bodies
  /\ pc \notin {"precompile", "exited"} => segment = 1 /\ cc_head = << >>

(* As tags become known, the cells of those that were stay theirs. *)
LEMMA TaggedStays ==
  ASSUME NEW tags, NEW more, \A k \in DOMAIN tags : k \in DOMAIN more /\ more[k] = tags[k],
         NEW cs, Tagged(cs, tags)
  PROVE  Tagged(cs, more)
  BY DEF Tagged

(* A cell of a tag, or a static one, joins such cells. *)
LEMMA TaggedAppend ==
  ASSUME NEW tags, NEW cs \in Seq(Cell), Tagged(cs, tags), NEW c \in Cell,
         c.type # "static" => \E k \in DOMAIN tags : c = tags[k]
  PROVE  Tagged(Append(cs, c), tags)
<1> DEFINE all == Append(cs, c)
<1>1. /\ DOMAIN all = 1 .. Len(cs) + 1 /\ DOMAIN cs = 1 .. Len(cs) /\ Len(cs) \in Nat
      /\ \A i \in 1 .. Len(cs) : all[i] = cs[i]
      /\ all[Len(cs) + 1] = c
  BY AppendProperties
<1> HIDE DEF all
<1>2. Tagged(all, tags)
  BY <1>1 DEF Tagged
<1>. QED
  BY <1>2 DEF all

(* Such cells follow others. *)
LEMMA TaggedConcat ==
  ASSUME NEW tags, NEW cs \in Seq(Cell), Tagged(cs, tags), NEW ds \in Seq(Cell), Tagged(ds, tags)
  PROVE  Tagged(cs \o ds, tags)
<1> DEFINE all == cs \o ds
<1>1. /\ DOMAIN all = 1 .. Len(cs) + Len(ds) /\ Len(cs) \in Nat /\ Len(ds) \in Nat
      /\ DOMAIN cs = 1 .. Len(cs) /\ DOMAIN ds = 1 .. Len(ds)
      /\ \A i \in 1 .. Len(cs) + Len(ds) :
           all[i] = IF i <= Len(cs) THEN cs[i] ELSE ds[i - Len(cs)]
  BY ConcatProperties
<1> HIDE DEF all
<1>2. Tagged(all, tags)
  <2>1. ASSUME NEW i \in DOMAIN all, all[i].type # "static"
        PROVE  \E k \in DOMAIN tags : all[i] = tags[k]
    <3>1. CASE i <= Len(cs)
      BY <1>1, <2>1, <3>1 DEF Tagged
    <3>2. CASE ~(i <= Len(cs))
      <4>1. i - Len(cs) \in DOMAIN ds /\ all[i] = ds[i - Len(cs)]
        BY <1>1, <3>2
      <4>. QED
        BY <2>1, <4>1 DEF Tagged
    <3>. QED
      BY <3>1, <3>2
  <2>. QED
    BY <2>1 DEF Tagged
<1>. QED
  BY <1>2 DEF all

(* So is what is left without the first of them. *)
LEMMA TaggedTail ==
  ASSUME NEW tags, NEW cs \in Seq(Cell), cs # << >>, Tagged(cs, tags)
  PROVE  /\ Tagged(Tail(cs), tags)
         /\ Head(cs).type # "static" => \E k \in DOMAIN tags : Head(cs) = tags[k]
<1>1. /\ Tail(cs) \in Seq(Cell) /\ Len(Tail(cs)) = Len(cs) - 1 /\ Len(cs) \in Nat
      /\ \A i \in 1 .. Len(Tail(cs)) : Tail(cs)[i] = cs[i + 1]
      /\ Head(cs) = cs[1]
  BY HeadTailProperties
<1>2. Len(cs) > 0
  BY EmptySeq
<1>3. 1 \in DOMAIN cs /\ \A i \in DOMAIN Tail(cs) : i + 1 \in DOMAIN cs
  BY <1>1, <1>2
<1>. QED
  BY <1>1, <1>3 DEF Tagged

(* What a store behind `results' leaves of an alternative is tagged too. *)
LEMMA TaggedSpill ==
  ASSUME NEW tags, NEW e \in Seq(Cell), e # << >>, Tagged(e, tags), NEW s \in SpilledStack(e)
  PROVE  Tagged(s, tags)
<1>1. s = e \/ \E w \in Garbage : s = [e EXCEPT ![1] = StaticCell(w)]
  BY DEF SpilledStack
<1>2. ASSUME NEW w \in Garbage PROVE Tagged([e EXCEPT ![1] = StaticCell(w)], tags)
  BY DEF Tagged, StaticCell
<1>. QED
  BY <1>1, <1>2

(* The cell of a new tag is one its key calls for, and dynamic content     *)
(* unless that is missed.                                                  *)
LEMMA NewCellIs ==
  ASSUME NEW key \in Meaningful, NEW cell \in NewCells(key)
  PROVE  /\ TagIs(key, cell)
         /\ key \in DOMAIN Dc \ DOMAIN FieldOf /\ cell.type # "dc" => MayMiss(key)
  BY DEF NewCells, TagIs, P13nCell, DcCell, DtCell, Meaningful

-----------------------------------------------------------------------------
(* The end of a content keeps its cells, and those there are. *)
LEMMA EndCompiles ==
  ASSUME PrecompileEnd
  PROVE  /\ DOMAIN compiled' = DOMAIN compiled \cup {compiling}
         /\ compiled'[compiling] = cc_head
         /\ \A c \in DOMAIN compiled \ {compiling} : compiled'[c] = compiled[c]
  BY DEF PrecompileEnd, ST!Put

(* A new tag joins the ones there are. *)
LEMMA NewTagJoins ==
  ASSUME TypeInv, PrecompileNewTag, NEW key, key = KeyOf(Segment.key)
  PROVE  /\ key \in Meaningful \ DOMAIN tag_lookup
         /\ DOMAIN tag_lookup' = DOMAIN tag_lookup \cup {key}
         /\ tag_lookup'[key] \in NewCells(key) /\ tag_lookup'[key] \in Cell
         /\ cc_head' = Append(cc_head, tag_lookup'[key])
         /\ \A k \in DOMAIN tag_lookup : tag_lookup'[k] = tag_lookup[k]
         /\ num_uniq_tags' = num_uniq_tags + 1
<1>1. PICK cell \in NewCells(key) :
        cc_head' = Append(cc_head, cell) /\ tag_lookup' = ST!Put(tag_lookup, key, cell)
  BY DEF PrecompileNewTag
<1>2. key \in Meaningful \ DOMAIN tag_lookup /\ num_uniq_tags' = num_uniq_tags + 1
  BY DEF PrecompileNewTag, TagsAfter
<1>3. cell \in Cell
  BY <1>2, NewCellType DEF TypeInv
<1>. QED
  BY <1>1, <1>2, <1>3 DEF ST!Put

(* Every step keeps the tags right. *)
LEMMA TagsStayRight ==
  ASSUME TypeInv, TagsRight, [Next]_vars
  PROVE  TagsRight'
<1>. /\ TypeInv /\ cc_head \in Seq(Cell) /\ stack \in Seq(Cell)
     /\ \A c \in DOMAIN compiled : compiled[c] \in Seq(Cell)
  BY DEF TypeInv, CompilingOK, SlotsOK, TemplatesOK
<1>1. ASSUME UNCHANGED << tag_lookup, compiled, stack >>, Tagged(cc_head', tag_lookup)
      PROVE  TagsRight'
  BY <1>1 DEF TagsRight
<1>2. CASE PrecompileText
  <2>1. Segment.str \in Strings
    BY <1>2, SegmentType DEF PrecompileText, AtSegment, TypeInv
  <2>2. StaticCell(ST!Pointer(Segment.str)) \in Cell
    BY <2>1, PointerType, StaticCellType DEF TypeInv
  <2>3. Tagged(cc_head', tag_lookup)
    BY <1>2, <2>2, TaggedAppend DEF PrecompileText, TagsRight, StaticCell
  <2>. QED
    BY <1>1, <1>2, <2>3 DEF PrecompileText, AtSegment, rowVars
<1>3. CASE PrecompileKnownTag
  <2>1. PICK key \in DOMAIN tag_lookup : cc_head' = Append(cc_head, tag_lookup[key])
    BY <1>3 DEF PrecompileKnownTag
  <2>2. tag_lookup[key] \in Cell
    BY DEF TypeInv, TemplatesOK
  <2>3. Tagged(cc_head', tag_lookup)
    BY <2>1, <2>2, TaggedAppend DEF TagsRight
  <2>. QED
    BY <1>1, <1>3, <2>3 DEF PrecompileKnownTag, AtSegment, rowVars
<1>4. CASE PrecompileNewTag
  <2>1. PICK key : key = KeyOf(Segment.key)
    OBVIOUS
  <2>2. /\ key \in Meaningful \ DOMAIN tag_lookup
        /\ DOMAIN tag_lookup' = DOMAIN tag_lookup \cup {key}
        /\ tag_lookup'[key] \in NewCells(key) /\ tag_lookup'[key] \in Cell
        /\ cc_head' = Append(cc_head, tag_lookup'[key])
        /\ \A k \in DOMAIN tag_lookup : tag_lookup'[k] = tag_lookup[k]
    BY <1>4, <2>1, NewTagJoins
  <2>3. UNCHANGED << compiled, stack >>
    BY <1>4, <2>1 DEF PrecompileNewTag, AtSegment, rowVars
  <2>4. \A cs : Tagged(cs, tag_lookup) => Tagged(cs, tag_lookup')
    BY <2>2, TaggedStays
  <2>5. \A k \in DOMAIN tag_lookup' : TagIs(k, tag_lookup'[k])
    BY <2>2, NewCellIs DEF TagsRight
  <2>6. Tagged(cc_head', tag_lookup')
    BY <2>2, <2>3, <2>4, TaggedAppend DEF TagsRight
  <2>. QED
    BY <2>3, <2>4, <2>5, <2>6 DEF TagsRight
<1>5. CASE PrecompileEnd
  <2>1. UNCHANGED << tag_lookup, stack >> /\ cc_head' = << >>
    BY <1>5 DEF PrecompileEnd, rowVars
  <2>2. \A c \in DOMAIN compiled' : Tagged(compiled'[c], tag_lookup)
    BY <1>5, EndCompiles DEF TagsRight
  <2>3. Tagged(<< >>, tag_lookup)
    BY DEF Tagged
  <2>. QED
    BY <2>1, <2>2, <2>3 DEF TagsRight
<1>6. CASE \E p \in Rows : BeginAdd(p)
  <2>1. /\ UNCHANGED << tag_lookup, compiled, cc_head >>
        /\ content \in DOMAIN compiled /\ stack' = compiled[content]
    BY <1>6 DEF BeginAdd, templateVars, compileVars, TypeInv, PlaceOK
  <2>. QED
    BY <2>1 DEF TagsRight
<1>7. CASE SpliceDc
  <2>1. PICK expansion : expansion = compiled[Alternative(Head(stack).dc, p13n)]
    OBVIOUS
  <2>2. /\ expansion # << >> /\ expansion \in Seq(Cell) /\ Tagged(expansion, tag_lookup)
        /\ stack # << >> /\ UNCHANGED << tag_lookup, compiled, cc_head >>
    BY <1>7, <2>1 DEF SpliceDc, AtCell, TagsRight, templateVars, compileVars
  <2>3. Tail(stack) \in Seq(Cell) /\ Tagged(Tail(stack), tag_lookup)
    BY <2>2, TaggedTail, HeadTailProperties DEF TagsRight
  <2>4. PICK e \in SpilledStack(expansion) \cup {expansion} : stack' = e \o Tail(stack)
    BY <1>7, <2>1 DEF SpliceDc
  <2>5. e \in Seq(Cell) /\ Tagged(e, tag_lookup)
    BY <2>2, SpilledStackType, TaggedSpill
  <2>6. Tagged(stack', tag_lookup)
    BY <2>3, <2>4, <2>5, TaggedConcat
  <2>. QED
    BY <2>2, <2>6 DEF TagsRight
<1>8. CASE EmitStatic \/ EmitKnown \/ EmitValue
  <2>1. stack' = Tail(stack) /\ stack # << >> /\ UNCHANGED << tag_lookup, compiled, cc_head >>
    BY <1>8 DEF EmitStatic, EmitKnown, EmitValue, AtCell, templateVars, compileVars
  <2>2. Tagged(stack', tag_lookup)
    BY <2>1, TaggedTail DEF TagsRight
  <2>. QED
    BY <2>1, <2>2 DEF TagsRight
<1>9. CASE PrecompileUnknownTag
  BY <1>9 DEF PrecompileUnknownTag, AtSegment, rowVars, TagsRight
<1>10. CASE \/ CompileDc \/ SpliceNothing \/ EmitNull \/ PrecompileExits \/ OverrunCrashes
            \/ FinishRow \/ Finish
  BY <1>10 DEF CompileDc, SpliceNothing, EmitNull, PrecompileExits, OverrunCrashes, FinishRow,
               Finish, rowVars, templateVars, compileVars, TagsRight
<1>11. CASE UNCHANGED vars
  BY <1>11 DEF vars, rowVars, templateVars, compileVars, TagsRight
<1>. QED
  BY <1>2, <1>3, <1>4, <1>5, <1>6, <1>7, <1>8, <1>9, <1>10, <1>11 DEF Next, Step, Stopped

(* Where tags and row stay and pointers are only added, results stay right.*)
LEMMA ResultsLeftAlone ==
  ASSUME ResultsRight, issued \subseteq issued', UNCHANGED << tag_lookup, num_uniq_tags, p13n >>,
         \A i \in Slots : results'[i] = results[i] \/ results'[i] = 0,
         \A k \in DOMAIN tag_lookup : tag_lookup[k] \in Cell
  PROVE  ResultsRight'
<1>1. \A i \in Slots : i >= num_uniq_tags' => results'[i] = 0
  BY DEF ResultsRight
<1>2. ASSUME NEW k \in DOMAIN tag_lookup, tag_lookup[k].type \in {"p13n", "dt"},
             results'[tag_lookup[k].value_index] # 0
      PROVE  [str |-> ValueOf(tag_lookup[k]), word |-> results'[tag_lookup[k].value_index]]
               \in issued'
  <2>1. tag_lookup[k].value_index \in Slots
    BY <1>2, CellParts
  <2>2. results'[tag_lookup[k].value_index] = results[tag_lookup[k].value_index]
    BY <1>2, <2>1
  <2>. QED
    BY <1>2, <2>2 DEF ResultsRight
<1>. QED
  BY <1>1, <1>2 DEF ResultsRight, ValueOf

(* Every step keeps them right. *)
LEMMA ResultsStayRight ==
  ASSUME TypeInv, SlotsInv, TagsRight, ResultsRight, [Next]_vars, issued \subseteq issued'
  PROVE  ResultsRight'
<1>. /\ TypeInv /\ \A k \in DOMAIN tag_lookup : tag_lookup[k] \in Cell
     /\ results \in [Slots -> Word] /\ num_uniq_tags \in Nat
  BY TagsCounted DEF TypeInv, TemplatesOK, SlotsOK
<1>1. CASE PrecompileNewTag
  <2>1. PICK key : key = KeyOf(Segment.key)
    OBVIOUS
  <2>2. /\ key \in Meaningful \ DOMAIN tag_lookup
        /\ DOMAIN tag_lookup' = DOMAIN tag_lookup \cup {key}
        /\ tag_lookup'[key] \in NewCells(key)
        /\ \A k \in DOMAIN tag_lookup : tag_lookup'[k] = tag_lookup[k]
        /\ num_uniq_tags' = num_uniq_tags + 1
    BY <1>1, <2>1, NewTagJoins
  <2>3. tag_lookup'[key].value_index = num_uniq_tags /\ num_uniq_tags \in Slots
    BY <2>2, NewCellSlot, SlotLeft DEF TypeInv
  <2>4. results' = results /\ p13n' = p13n
    BY <1>1 DEF PrecompileNewTag, AtSegment, rowVars, slotVars
  <2>5. \A i \in Slots : i >= num_uniq_tags' => results'[i] = 0
    <3>1. \A i \in Slots : i \in Int
      BY DEF Slots
    <3>. QED
      BY <2>2, <2>4, <3>1 DEF ResultsRight
  <2>6. results[num_uniq_tags] = 0
    BY <2>3 DEF ResultsRight
  <2>7. ASSUME NEW k \in DOMAIN tag_lookup', tag_lookup'[k].type \in {"p13n", "dt"},
               results'[tag_lookup'[k].value_index] # 0
        PROVE  [str |-> ValueOf(tag_lookup'[k]), word |-> results'[tag_lookup'[k].value_index]]
                 \in issued'
    <3>1. k \in DOMAIN tag_lookup /\ tag_lookup'[k] = tag_lookup[k]
      BY <2>2, <2>3, <2>4, <2>6, <2>7
    <3>. QED
      BY <2>4, <2>7, <3>1 DEF ResultsRight
  <2>. QED
    BY <2>4, <2>5, <2>7 DEF ResultsRight, ValueOf
<1>2. CASE \E p \in Rows : BeginAdd(p)
  <2>1. /\ UNCHANGED << tag_lookup, num_uniq_tags >> /\ results' = [i \in Slots |-> 0]
    BY <1>2 DEF BeginAdd, templateVars, FreshResults
  <2>2. \A k \in DOMAIN tag_lookup : tag_lookup[k].type \in {"p13n", "dt"} =>
          results'[tag_lookup[k].value_index] = 0
    BY <2>1, CellParts
  <2>. QED
    BY <2>1, <2>2 DEF ResultsRight
<1>3. CASE EmitValue
  <2>1. PICK cell, slot : cell = Head(stack) /\ slot = cell.value_index
    OBVIOUS
  <2>2. /\ cell \in Cell /\ cell.type \in {"p13n", "dt"} /\ slot \in Slots
    BY <1>3, <2>1, HeadType, CellParts DEF EmitValue
  <2>3. PICK l \in DOMAIN tag_lookup : cell = tag_lookup[l]
    <3>1. stack \in Seq(Cell) /\ stack # << >> /\ Tagged(stack, tag_lookup)
      BY <1>3 DEF EmitValue, AtCell, TypeInv, SlotsOK, TagsRight
    <3>. QED
      BY <2>1, <2>2, <3>1, TaggedTail
  <2>4. /\ results' = [results EXCEPT ![slot] = ST!Pointer(ValueOf(cell))]
        /\ [str |-> ValueOf(cell), word |-> ST!Pointer(ValueOf(cell))] \in issued'
        /\ UNCHANGED << tag_lookup, num_uniq_tags, p13n >>
    BY <1>3, <2>1 DEF EmitValue, ST!AddString, ST!Issue, templateVars
  <2>5. slot < num_uniq_tags
    BY <2>1, <2>3 DEF SlotsInv, SlotsCounted
  <2>6. \A i \in Slots : i >= num_uniq_tags' => results'[i] = 0
    <3>1. \A i \in Slots : i \in Int
      BY DEF Slots
    <3>. QED
      BY <2>2, <2>4, <2>5, <3>1 DEF ResultsRight
  <2>7. ASSUME NEW k \in DOMAIN tag_lookup, tag_lookup[k].type \in {"p13n", "dt"},
               results'[tag_lookup[k].value_index] # 0
        PROVE  [str |-> ValueOf(tag_lookup[k]), word |-> results'[tag_lookup[k].value_index]]
                 \in issued'
    <3>1. tag_lookup[k].value_index \in Slots
      BY <2>7, CellParts
    <3>2. CASE k = l
      BY <2>1, <2>2, <2>3, <2>4, <3>2
    <3>3. CASE k # l
      <4>1. tag_lookup[k].value_index # slot
        BY <2>1, <2>3, <3>3 DEF SlotsInv, SlotsDistinct
      <4>2. results'[tag_lookup[k].value_index] = results[tag_lookup[k].value_index]
        BY <2>4, <3>1, <4>1
      <4>. QED
        BY <2>7, <4>2 DEF ResultsRight
    <3>. QED
      BY <3>2, <3>3
  <2>. QED
    BY <2>4, <2>6, <2>7 DEF ResultsRight, ValueOf
<1>4. CASE ~(PrecompileNewTag \/ EmitValue \/ \E p \in Rows : BeginAdd(p))
  <2>1. /\ UNCHANGED << tag_lookup, num_uniq_tags, p13n >>
        /\ \A i \in Slots : results'[i] = results[i] \/ results'[i] = 0
    <3>1. CASE SpliceDc
      BY <3>1 DEF SpliceDc, Cleared, templateVars
    <3>2. CASE PrecompileText \/ PrecompileKnownTag \/ PrecompileUnknownTag \/ PrecompileEnd
      BY <3>2 DEF PrecompileText, PrecompileKnownTag, PrecompileUnknownTag, PrecompileEnd,
                  AtSegment, rowVars, slotVars
    <3>3. CASE EmitStatic \/ EmitKnown
      BY <3>3 DEF EmitStatic, EmitKnown, templateVars, slotVars
    <3>4. CASE \/ CompileDc \/ SpliceNothing \/ EmitNull \/ PrecompileExits \/ OverrunCrashes
               \/ FinishRow \/ Finish
      BY <3>4 DEF CompileDc, SpliceNothing, EmitNull, PrecompileExits, OverrunCrashes,
                  FinishRow, Finish, rowVars, slotVars, templateVars
    <3>5. CASE UNCHANGED vars
      BY <3>5 DEF vars, rowVars, slotVars, templateVars
    <3>. QED
      BY <1>4, <3>1, <3>2, <3>3, <3>4, <3>5 DEF Next, Step, Stopped
  <2>. QED
    BY <2>1, ResultsLeftAlone
<1>. QED
  BY <1>1, <1>2, <1>3, <1>4

-----------------------------------------------------------------------------
(* A maker is made with one content file. *)
LEMMA ContentStays == [Next]_vars => UNCHANGED content
  BY DEF Next, Step, Stopped, vars

(* Only the steps at a segment compile one. *)
LEMMA SegmentSteps ==
  ASSUME [Next]_vars
  PROVE  \/ PrecompileText \/ PrecompileKnownTag \/ PrecompileNewTag \/ PrecompileUnknownTag
         \/ PrecompileEnd \/ CompileDc \/ UNCHANGED << compiled, compileVars >>
<1>1. CASE SpliceDc \/ EmitStatic \/ EmitKnown \/ EmitValue \/ FinishRow
  BY <1>1 DEF SpliceDc, EmitStatic, EmitKnown, EmitValue, FinishRow, templateVars
<1>2. CASE \/ SpliceNothing \/ EmitNull \/ PrecompileExits \/ OverrunCrashes \/ Finish
           \/ \E p \in Rows : BeginAdd(p)
  BY <1>2 DEF SpliceNothing, EmitNull, PrecompileExits, OverrunCrashes, Finish, BeginAdd,
              templateVars
<1>3. CASE UNCHANGED vars
  BY <1>3 DEF vars, templateVars
<1>. QED
  BY <1>1, <1>2, <1>3 DEF Next, Step, Stopped

(* What a step at a segment has in common with the others. *)
AtASegment ==
  /\ pc = "precompile" /\ segment <= Len(SegmentsOf[compiling])
  /\ segment' = segment + 1 /\ UNCHANGED << pc, compiled, compiling, rowVars >>
LEMMA AtASegmentIs ==
  PrecompileText \/ PrecompileKnownTag \/ PrecompileNewTag \/ PrecompileUnknownTag => AtASegment
  BY DEF PrecompileText, PrecompileKnownTag, PrecompileNewTag, PrecompileUnknownTag, AtSegment,
         AtASegment

(* A segment is done once, and stays done. *)
LEMMA DoneSteps ==
  ASSUME TypeInv, CompilesOnce, [Next]_vars, NEW c \in Contents, NEW i \in DOMAIN SegmentsOf[c]
  PROVE  /\ Done(c, i) => Done(c, i)'
         /\ Done(c, i)' => \/ Done(c, i)
                           \/ AtASegment /\ c = compiling /\ i = segment
<1>1. i \in Nat /\ i >= 1 /\ i <= Len(SegmentsOf[c]) /\ segment \in Nat /\ segment >= 1
  BY SegmentsNumbered DEF TypeInv, CompilingOK
<1>2. CASE AtASegment
  BY <1>1, <1>2 DEF AtASegment, Done
<1>3. CASE PrecompileEnd
  <2>1. DOMAIN compiled' = DOMAIN compiled \cup {compiling} /\ segment' = 1
    BY <1>3, EndCompiles DEF PrecompileEnd
  <2>2. segment > Len(SegmentsOf[compiling])
    BY <1>3 DEF PrecompileEnd
  <2>3. c = compiling => i < segment
    <3>1. ASSUME c = compiling PROVE i <= Len(SegmentsOf[compiling])
      BY <1>1, <3>1
    <3>2. c = compiling => Len(SegmentsOf[compiling]) \in Nat
      BY SegmentsNumbered
    <3>. QED
      BY <1>1, <2>2, <3>1, <3>2
  <2>4. ~(i < segment')
    BY <1>1, <2>1
  <2>. QED
    BY <2>1, <2>3, <2>4 DEF Done
<1>4. CASE CompileDc
  <2>1. UNCHANGED << compiled, segment >> /\ pc = "row"
    BY <1>4 DEF CompileDc, AtCell, templateVars
  <2>2. segment = 1
    BY <2>1 DEF CompilesOnce
  <2>3. ~(i < segment)
    BY <1>1, <2>2
  <2>. QED
    BY <2>1, <2>3 DEF Done
<1>5. CASE UNCHANGED << compiled, compileVars >>
  BY <1>5 DEF Done, compileVars
<1>. QED
  BY <1>2, <1>3, <1>4, <1>5, SegmentSteps, AtASegmentIs

(* Every step compiles from the first segment to the last. *)
LEMMA CompilesOnceStays ==
  ASSUME TypeInv, CompilesOnce, [Next]_vars
  PROVE  CompilesOnce'
<1>1. CASE AtASegment
  <2>1. Len(SegmentsOf[compiling]) \in Nat /\ segment \in Nat
    BY <1>1, SegmentsNumbered DEF TypeInv, CompilingOK, PlaceOK, AtASegment
  <2>. QED
    BY <1>1, <2>1, ContentStays DEF AtASegment, CompilesOnce
<1>2. CASE PrecompileEnd
  BY <1>2 DEF PrecompileEnd, CompilesOnce
<1>3. CASE CompileDc
  <2>1. /\ compiling' \in Contents \ Bodies /\ compiling' \notin DOMAIN compiled
        /\ UNCHANGED << compiled, segment, cc_head >> /\ pc = "row" /\ pc' = "precompile"
    <3>1. Head(stack) \in Cell /\ p13n \in Rows /\ Head(stack).type \in {"dc"}
      BY <1>3, HeadType DEF CompileDc
    <3>. QED
      BY <1>3, <3>1, AlternativeType DEF CompileDc, AtCell, templateVars
  <2>2. segment = 1 /\ Len(SegmentsOf[compiling']) \in Nat
    BY <2>1, SegmentsNumbered DEF CompilesOnce
  <2>. QED
    BY <2>1, <2>2 DEF CompilesOnce
<1>4. CASE /\ UNCHANGED << compiled, compileVars >> /\ (pc = "precompile" <=> pc' = "precompile")
           /\ (pc = "exited" => pc' = "exited")
  BY <1>4, ContentStays DEF CompilesOnce, compileVars
<1>5. [Next]_vars /\ ~AtASegment /\ ~PrecompileEnd /\ ~CompileDc /\ ~PrecompileExits =>
        (pc = "precompile" <=> pc' = "precompile") /\ (pc = "exited" => pc' = "exited")
  <2>1. CASE SpliceDc \/ EmitStatic \/ EmitKnown \/ EmitValue \/ FinishRow
    BY <2>1 DEF SpliceDc, EmitStatic, EmitKnown, EmitValue, FinishRow, AtCell
  <2>2. CASE \/ SpliceNothing \/ EmitNull \/ OverrunCrashes \/ Finish
             \/ \E p \in Rows : BeginAdd(p)
    BY <2>2 DEF SpliceNothing, EmitNull, OverrunCrashes, Finish, BeginAdd, AtCell
  <2>3. CASE UNCHANGED vars
    BY <2>3 DEF vars
  <2>. QED
    BY <2>1, <2>2, <2>3, AtASegmentIs DEF Next, Step, Stopped
<1>6. CASE PrecompileExits
  BY <1>6 DEF PrecompileExits, CompilesOnce
<1>. QED
  BY <1>1, <1>2, <1>3, <1>4, <1>5, <1>6, SegmentSteps, AtASegmentIs

(* A segment is a text, or a tag that is known, new or unknown. *)
LEMMA SegmentKinds ==
  ASSUME TypeInv, AtASegment, [Next]_vars
  PROVE  PrecompileText \/ PrecompileKnownTag \/ PrecompileNewTag \/ PrecompileUnknownTag
<1>1. segment # segment' /\ pc = "precompile" /\ pc' = "precompile"
  BY DEF AtASegment, TypeInv, CompilingOK
<1>2. ~PrecompileEnd /\ ~CompileDc /\ ~(UNCHANGED << compiled, compileVars >>)
  BY <1>1 DEF AtASegment, PrecompileEnd, CompileDc, AtCell, compileVars
<1>. QED
  BY <1>2, SegmentSteps

(* The tags of the body become known as it is compiled. *)
LEMMA TagsStayMet ==
  ASSUME TypeInv, CompilesOnce, TagsMet, [Next]_vars
  PROVE  TagsMet'
<1>1. \A k \in DOMAIN tag_lookup : k \in DOMAIN tag_lookup'
  <2>1. PrecompileNewTag => \A k \in DOMAIN tag_lookup : k \in DOMAIN tag_lookup'
    BY NewTagJoins
  <2>. QED
    BY <2>1, TagsLeftAlone
<1>2. content' = content /\ content \in Contents
  BY ContentStays, TemplateAssumption DEF TypeInv, PlaceOK
<1>3. ASSUME NEW i \in TagsIn(content), Done(content, i)', KeyAt(content, i) \in Meaningful
      PROVE  KeyAt(content, i) \in DOMAIN tag_lookup'
  <2>1. i \in DOMAIN SegmentsOf[content] /\ SegmentsOf[content][i].kind = "tag"
    BY DEF TagsIn
  <2>2. CASE Done(content, i)
    BY <1>1, <1>3, <2>2 DEF TagsMet
  <2>3. CASE ~Done(content, i)
    <3>1. AtASegment /\ content = compiling /\ i = segment
      BY <1>2, <1>3, <2>1, <2>3, DoneSteps
    <3>2. Segment.kind = "tag" /\ KeyAt(content, i) = KeyOf(Segment.key)
      BY <2>1, <3>1 DEF Segment, KeyAt
    <3>4. PrecompileKnownTag \/ PrecompileNewTag \/ PrecompileUnknownTag
      BY <3>1, <3>2, SegmentKinds DEF PrecompileText, AtSegment
    <3>5. CASE PrecompileKnownTag
      BY <1>1, <3>2, <3>5 DEF PrecompileKnownTag
    <3>6. CASE PrecompileNewTag
      BY <3>2, <3>6, NewTagJoins
    <3>7. CASE PrecompileUnknownTag
      BY <1>3, <3>1, <3>2, <3>7 DEF PrecompileUnknownTag, Unknown, MayMiss
    <3>. QED
      BY <3>4, <3>5, <3>6, <3>7
  <2>. QED
    BY <2>2, <2>3
<1>4. content \in DOMAIN compiled => content \in DOMAIN compiled'
  BY <1>2, SegmentSteps, AtASegmentIs, EndCompiles DEF AtASegment, CompileDc, templateVars
<1>5. ASSUME NEW k \in DOMAIN tag_lookup', k \in DOMAIN Dc \ DOMAIN FieldOf,
             tag_lookup'[k].type # "dc"
      PROVE  /\ content \in DOMAIN compiled'
             /\ \A i \in TagsIn(content) : KeyAt(content, i) # k
  <2>1. CASE k \in DOMAIN tag_lookup
    <3>1. tag_lookup'[k] = tag_lookup[k]
      <4>1. PrecompileNewTag => tag_lookup'[k] = tag_lookup[k]
        BY <2>1, NewTagJoins
      <4>. QED
        BY <4>1, TagsLeftAlone
    <3>. QED
      BY <1>4, <1>5, <2>1, <3>1 DEF TagsMet
  <2>2. CASE k \notin DOMAIN tag_lookup
    <3>1. PrecompileNewTag
      BY <1>5, <2>2, TagsLeftAlone
    <3>2. PICK key : key = KeyOf(Segment.key)
      OBVIOUS
    <3>3. k = key /\ key \in Meaningful /\ tag_lookup'[key] \in NewCells(key)
      BY <1>5, <2>2, <3>1, <3>2, NewTagJoins
    <3>4. compiling # content /\ pc = "precompile"
      BY <1>5, <3>1, <3>3, NewCellIs DEF MayMiss, PrecompileNewTag, AtSegment
    <3>5. content \in DOMAIN compiled
      BY <3>4 DEF TypeInv, PlaceOK, InARow
    <3>6. \A i \in TagsIn(content) :
            KeyAt(content, i) \in Meaningful => KeyAt(content, i) \in DOMAIN tag_lookup
      BY <3>5 DEF TagsMet, Done
    <3>. QED
      BY <1>4, <2>2, <3>3, <3>5, <3>6
  <2>. QED
    BY <2>1, <2>2
<1>. QED
  BY <1>2, <1>3, <1>5 DEF TagsMet

-----------------------------------------------------------------------------
(* What the cells say when the tags in m are missed and no others: those   *)
(* of a content what it renders to, those made so far of one what it       *)
(* begins with, and those of the row, behind the strings it shows already, *)
(* the rest of what the body renders to.                                   *)
CompiledRight(m) ==
  \A c \in DOMAIN compiled : \A p \in Rows :
    Spells(issued, compiled[c], p, m, Renderings(p, m)[c])
CompilingRight(m) ==
  pc = "precompile" =>
    \A p \in Rows : Spells(issued, cc_head, p, m, Begins(compiling, p, m, segment - 1))
RowRight(m) ==
  InARow /\ ~overrun =>
    \E d : \E t : /\ Shows(issued, cells, vector, d) /\ Spells(issued, stack, p13n, m, t)
                  /\ d \o t = Renderings(p13n, m)[content]
Faithful(m) == CompiledRight(m) /\ CompilingRight(m) /\ RowRight(m)

(* Which tags are missed is settled as their segments are done; nothing    *)
(* depends on those that are not.                                          *)
Agrees(m, n) ==
  \A c \in Contents : \A i \in DOMAIN SegmentsOf[c] :
    Done(c, i) => (<< c, i >> \in m <=> << c, i >> \in n)
MissesSettled ==
  \E n \in SUBSET Missable(content) :
    \A m \in SUBSET Missable(content) : Agrees(m, n) => Faithful(m)

(* A cell more says its text more. *)
LEMMA SpellsAppend ==
  ASSUME NEW handed, NEW cs \in Seq(Cell), NEW cell \in Cell, NEW p \in Rows, NEW m,
         NEW t, Spells(handed, cs, p, m, t), NEW x, Says(handed, cell, p, m, x)
  PROVE  Spells(handed, Append(cs, cell), p, m, t \o x)
<1>1. Append(cs, cell) = cs \o << cell >> /\ << cell >> \in Seq(Cell)
  BY AppendIsConcat
<1>2. Spells(handed, << cell >>, p, m, x)
  BY SpellsOne
<1>. QED
  BY <1>1, <1>2, SpellsConcat

(* The cell of a tag says what the tag comes to. *)
LEMMA TagSays ==
  ASSUME NEW handed, NEW key, NEW cell, TagIs(key, cell), NEW p \in Rows, NEW m, NEW gone,
         key \in DOMAIN Dc \ DOMAIN FieldOf => (gone <=> cell.type # "dc")
  PROVE  Says(handed, cell, p, m, TagText(key, p, gone, Renderings(p, m)))
<1>1. PICK r : r = Renderings(p, m)
  OBVIOUS
<1>2. TagText(key, p, gone, r) =
        IF key \in DOMAIN FieldOf THEN << p[FieldOf[key]] >>
        ELSE IF key \in DOMAIN Dc /\ ~gone
          THEN IF r[Alternative(key, p)] = << >> THEN << NoValue >> ELSE r[Alternative(key, p)]
        ELSE IF key \in DtKeys THEN << Exec[key][p] >>
        ELSE IF key \in CallKeys THEN << NoValue >> ELSE << >>
  BY TagTextIs
<1>3. CASE key \in DOMAIN FieldOf
  BY <1>1, <1>2, <1>3 DEF TagIs, Says
<1>4. CASE key \notin DOMAIN FieldOf /\ cell.type = "dc"
  BY <1>1, <1>2, <1>4 DEF TagIs, Says
<1>5. CASE key \notin DOMAIN FieldOf /\ cell.type # "dc"
  BY <1>1, <1>2, <1>5 DEF TagIs, Says
<1>. QED
  BY <1>3, <1>4, <1>5

(* A tag is missed when its key is one of dynamic content and the cell it  *)
(* is given, if any, is none.                                              *)
Missed ==
  LET key == KeyOf(Segment.key) IN
  /\ Segment.kind = "tag" /\ key \in DOMAIN Dc \ DOMAIN FieldOf
  /\ ~(key \in DOMAIN tag_lookup' /\ tag_lookup'[key].type = "dc")

(* The cells say what the content begins with, a segment on. *)
LEMMA SegmentSaid ==
  ASSUME TypeInv, TagsRight, CompilesOnce, issued \subseteq issued',
         PrecompileText \/ PrecompileKnownTag \/ PrecompileNewTag \/ PrecompileUnknownTag,
         NEW m, CompilingRight(m), Missed <=> << compiling, segment >> \in m
  PROVE  CompilingRight(m)'
<1>1. /\ compiling \in Contents /\ segment \in DOMAIN SegmentsOf[compiling] /\ segment \in Nat
      /\ segment \in 1 .. Len(SegmentsOf[compiling])
      /\ AtASegment /\ cc_head \in Seq(Cell)
  BY AtASegmentIs, SegmentsNumbered DEF AtASegment, TypeInv, PlaceOK, CompilingOK
<1>2. PICK c, i : c = compiling /\ i = segment
  OBVIOUS
<1>3. segment' - 1 = i /\ compiling' = c /\ pc = "precompile" /\ pc' = "precompile"
  BY <1>1, <1>2 DEF AtASegment
<1> SUFFICES ASSUME NEW p \in Rows
             PROVE  Spells(issued', cc_head', p, m, Begins(c, p, m, i))
  BY <1>3 DEF CompilingRight
<1>4. PICK piece, before :
        piece = Piece(c, i, p, m, Renderings(p, m)) /\ before = Begins(c, p, m, i - 1)
  OBVIOUS
<1>5. Begins(c, p, m, i) = before \o piece /\ before \in TextSeqs
  <2>1. i - 1 \in 0 .. Len(SegmentsOf[c])
    BY <1>1, <1>2
  <2>. QED
    BY <1>1, <1>2, <1>4, <2>1, RenderingGrows
<1>6. Spells(issued', cc_head, p, m, before)
  <2>1. Spells(issued, cc_head, p, m, before)
    BY <1>2, <1>3, <1>4 DEF CompilingRight
  <2>. QED
    BY <2>1, SpellsStays
<1>7. ASSUME NEW cell \in Cell, cc_head' = Append(cc_head, cell), Says(issued', cell, p, m, piece)
      PROVE  Spells(issued', cc_head', p, m, Begins(c, p, m, i))
  BY <1>1, <1>5, <1>6, <1>7, SpellsAppend
<1>8. CASE PrecompileText
  <2>1. Segment.kind = "text" /\ Segment.str \in Strings /\ i \notin TagsIn(c)
    BY <1>1, <1>2, <1>8, SegmentType
       DEF PrecompileText, AtSegment, AtASegment, TypeInv, TagsIn, Segment
  <2>2. piece = << Segment.str >>
    BY <1>2, <1>4, <2>1 DEF Piece, Segment
  <2>3. PICK cell : cell = StaticCell(ST!Pointer(Segment.str))
    OBVIOUS
  <2>4. /\ cell \in Cell /\ cc_head' = Append(cc_head, cell)
        /\ [str |-> Segment.str, word |-> cell.offset] \in issued' /\ cell.type = "static"
    BY <1>8, <2>1, <2>3, PointerType, StaticCellType
       DEF PrecompileText, ST!AddString, ST!Issue, TypeInv, StaticCell
  <2>5. Says(issued', cell, p, m, piece)
    BY <2>1, <2>2, <2>4 DEF Says
  <2>. QED
    BY <1>7, <2>4, <2>5
<1>9. ASSUME PrecompileKnownTag \/ PrecompileNewTag \/ PrecompileUnknownTag
      PROVE  /\ i \in TagsIn(c) /\ KeyAt(c, i) = KeyOf(Segment.key)
             /\ Segment.kind = "tag"
  BY <1>1, <1>2, <1>9
     DEF PrecompileKnownTag, PrecompileNewTag, PrecompileUnknownTag, AtSegment, TagsIn, Segment,
         KeyAt
<1>10. CASE PrecompileKnownTag \/ PrecompileNewTag
  <2>1. PICK key, gone : key = KeyOf(Segment.key) /\ gone = (<< c, i >> \in m)
    OBVIOUS
  <2>2. piece = TagText(key, p, gone, Renderings(p, m))
    BY <1>4, <1>9, <1>10, <2>1 DEF Piece
  <2>3. /\ key \in DOMAIN tag_lookup' /\ tag_lookup'[key] \in Cell
        /\ cc_head' = Append(cc_head, tag_lookup'[key]) /\ TagIs(key, tag_lookup'[key])
    <3>1. CASE PrecompileKnownTag
      BY <2>1, <3>1 DEF PrecompileKnownTag, TagsRight, TypeInv, TemplatesOK
    <3>2. CASE PrecompileNewTag
      BY <2>1, <3>2, NewTagJoins, NewCellIs
    <3>. QED
      BY <1>10, <3>1, <3>2
  <2>4. key \in DOMAIN Dc \ DOMAIN FieldOf => (gone <=> tag_lookup'[key].type # "dc")
    BY <1>2, <1>9, <1>10, <2>1, <2>3 DEF Missed
  <2>5. Says(issued', tag_lookup'[key], p, m, piece)
    BY <2>2, <2>3, <2>4, TagSays
  <2>. QED
    BY <1>7, <2>3, <2>5
<1>11. CASE PrecompileUnknownTag
  <2>1. cc_head' = cc_head
    BY <1>11 DEF PrecompileUnknownTag
  <2>2. PICK key, gone : key = KeyOf(Segment.key) /\ gone = (<< c, i >> \in m)
    OBVIOUS
  <2>3. piece = TagText(key, p, gone, Renderings(p, m))
    BY <1>4, <1>9, <1>11, <2>2 DEF Piece
  <2>4. /\ key \notin DOMAIN tag_lookup' /\ key \notin DOMAIN FieldOf \cup CallKeys
        /\ key \in DOMAIN Dc => gone
    BY <1>2, <1>9, <1>11, <2>2 DEF PrecompileUnknownTag, Unknown, MayMiss, Meaningful, Missed
  <2>5. key \notin DtKeys
    BY <2>4, TemplateAssumption
  <2>6. piece = << >>
    BY <2>3, <2>4, <2>5, TagTextIs
  <2>7. before \o << >> = before
    BY <1>5, TextsJoin
  <2>. QED
    BY <1>5, <1>6, <2>1, <2>6, <2>7
<1>. QED
  BY <1>8, <1>10, <1>11

(* The end of a content: its cells say all of it. *)
LEMMA EndSays ==
  ASSUME TypeInv, CompilesOnce, PrecompileEnd, NEW m, CompiledRight(m), CompilingRight(m)
  PROVE  CompiledRight(m)'
<1>1. /\ compiling \in Contents /\ segment \in Nat /\ pc = "precompile"
      /\ segment > Len(SegmentsOf[compiling]) /\ segment <= Len(SegmentsOf[compiling]) + 1
      /\ Len(SegmentsOf[compiling]) \in Nat
  BY SegmentsNumbered DEF PrecompileEnd, CompilesOnce, TypeInv, PlaceOK, CompilingOK
<1>2. segment - 1 = Len(SegmentsOf[compiling])
  BY <1>1
<1>3. \A p \in Rows : Spells(issued, cc_head, p, m, Renderings(p, m)[compiling])
  <2> TAKE p \in Rows
  <2>1. Renderings(p, m)[compiling] = Begins(compiling, p, m, segment - 1)
    BY <1>1, <1>2, RenderingGrows
  <2>. QED
    BY <1>1, <2>1 DEF CompilingRight
<1>4. issued' = issued
  BY DEF PrecompileEnd, tableVars
<1>. QED
  BY <1>3, <1>4, EndCompiles DEF CompiledRight

(* What was compiled says the same as pointers are handed out. *)
LEMMA CompiledStays ==
  ASSUME issued \subseteq issued', UNCHANGED compiled, NEW m, CompiledRight(m)
  PROVE  CompiledRight(m)'
  BY SpellsStays DEF CompiledRight

(* So does the row, where nothing is done to it. *)
LEMMA RowStaysRight ==
  ASSUME issued \subseteq issued', UNCHANGED << content, p13n, stack, cells, vector, overrun >>,
         InARow' => InARow, NEW m, RowRight(m)
  PROVE  RowRight(m)'
<1> SUFFICES ASSUME InARow, ~overrun
             PROVE  \E d : \E t : /\ Shows(issued', cells, vector, d)
                                  /\ Spells(issued', stack, p13n, m, t)
                                  /\ d \o t = Renderings(p13n, m)[content]
  BY DEF RowRight
<1>1. PICK d : \E t : /\ Shows(issued, cells, vector, d) /\ Spells(issued, stack, p13n, m, t)
                      /\ d \o t = Renderings(p13n, m)[content]
  BY DEF RowRight
<1>2. PICK t : /\ Shows(issued, cells, vector, d) /\ Spells(issued, stack, p13n, m, t)
               /\ d \o t = Renderings(p13n, m)[content]
  BY <1>1
<1>. QED
  BY <1>2, ShowsStays, SpellsStays

(* A row starts with all of the body to be done. *)
LEMMA BeginSays ==
  ASSUME TypeInv, UNCHANGED content, NEW p \in Rows, BeginAdd(p), NEW m, CompiledRight(m)
  PROVE  RowRight(m)'
<1>1. /\ content \in DOMAIN compiled /\ content \in Contents
      /\ stack' = compiled[content] /\ cells' = << >> /\ vector' = << >> /\ p13n' = p
      /\ issued' = issued
  BY TemplateAssumption DEF BeginAdd, TypeInv, PlaceOK, tableVars
<1>2. PICK t : t = Renderings(p, m)[content]
  OBVIOUS
<1>3. t \in TextSeqs
  BY <1>1, <1>2, RenderingsAre
<1>4. << >> \o t = t
  BY <1>3, TextsJoin
<1>5. Spells(issued', stack', p, m, t)
  BY <1>1, <1>2 DEF CompiledRight
<1>6. Shows(issued', << >>, << >>, << >>)
  BY ShowsNothing
<1>. QED
  BY <1>1, <1>2, <1>4, <1>5, <1>6 DEF RowRight

(* A row in which something is still to be said: what its next cell says,  *)
(* and what the others do.                                                 *)
LEMMA HeadSays ==
  ASSUME TypeInv, NEW types, AtCell(types), ~overrun, NEW m, RowRight(m)
  PROVE  \E d : \E x, u \in TextSeqs :
           /\ Shows(issued, cells, vector, d) /\ d \in TextSeqs
           /\ Says(issued, Head(stack), p13n, m, x)
           /\ Spells(issued, Tail(stack), p13n, m, u)
           /\ d \o (x \o u) = Renderings(p13n, m)[content]
<1>1. InARow /\ stack # << >> /\ stack \in Seq(Cell)
  BY DEF AtCell, InARow, TypeInv, SlotsOK
<1>2. PICK d : \E t : /\ Shows(issued, cells, vector, d) /\ Spells(issued, stack, p13n, m, t)
                      /\ d \o t = Renderings(p13n, m)[content]
  BY <1>1 DEF RowRight
<1>3. PICK t : /\ Shows(issued, cells, vector, d) /\ Spells(issued, stack, p13n, m, t)
               /\ d \o t = Renderings(p13n, m)[content]
  BY <1>2
<1>4. Heads(issued, stack, p13n, m, t)
  BY <1>1, <1>3, SpellsHead
<1>5. PICK x, u \in TextSeqs : /\ Says(issued, Head(stack), p13n, m, x)
                            /\ Spells(issued, Tail(stack), p13n, m, u) /\ t = x \o u
  BY <1>4 DEF Heads
<1>6. d \in TextSeqs
  BY <1>3 DEF Shows, TextSeqs
<1>. QED
  BY <1>3, <1>5, <1>6

(* The cells of an alternative say what its tag does. *)
LEMMA SpliceSays ==
  ASSUME TypeInv, UNCHANGED content, SpliceDc, NEW m, CompiledRight(m), RowRight(m)
  PROVE  RowRight(m)'
<1> SUFFICES ASSUME ~overrun' PROVE RowRight(m)'
  BY DEF RowRight
<1>1. PICK a, expansion : a = Alternative(Head(stack).dc, p13n) /\ expansion = compiled[a]
  OBVIOUS
<1>2. /\ a \in DOMAIN compiled /\ expansion # << >> /\ stack' = expansion \o Tail(stack)
      /\ UNCHANGED << cells, vector, overrun, p13n, issued, pc, compiling >> /\ ~overrun
  BY <1>1 DEF SpliceDc, tableVars, compileVars
<1>3. /\ Head(stack) \in Cell /\ Tail(stack) \in Seq(Cell) /\ p13n \in Rows
      /\ Head(stack).type = "dc" /\ AtCell({"dc"})
  BY HeadType DEF SpliceDc
<1>4. PICK d : \E x, u \in TextSeqs :
        /\ Shows(issued, cells, vector, d) /\ d \in TextSeqs
        /\ Says(issued, Head(stack), p13n, m, x)
        /\ Spells(issued, Tail(stack), p13n, m, u)
        /\ d \o (x \o u) = Renderings(p13n, m)[content]
  BY <1>2, <1>3, HeadSays
<1>5. PICK x, u \in TextSeqs :
        /\ Shows(issued, cells, vector, d) /\ d \in TextSeqs
        /\ Says(issued, Head(stack), p13n, m, x)
        /\ Spells(issued, Tail(stack), p13n, m, u)
        /\ d \o (x \o u) = Renderings(p13n, m)[content]
  BY <1>4
<1>6. PICK r : r = Renderings(p13n, m)[a]
  OBVIOUS
<1>7. Spells(issued, expansion, p13n, m, r) /\ expansion \in Seq(Cell)
  BY <1>1, <1>2, <1>3, <1>6 DEF CompiledRight, TypeInv, TemplatesOK
<1>8. r # << >>
  <2>. Heads(issued, expansion, p13n, m, r)
    BY <1>2, <1>7, SpellsHead
  <2>1. PICK y, z \in TextSeqs : Says(issued, Head(expansion), p13n, m, y) /\ r = y \o z
    BY DEF Heads
  <2>2. Head(expansion) \in Cell
    BY <1>2, <1>7, HeadTailProperties
  <2>3. y # << >>
    BY <1>3, <2>1, <2>2, SaysSome
  <2>4. \A b \in TextSeqs : \A c \in TextSeqs : b # << >> => b \o c # << >>
    <3>1. \A T : \A b, c \in Seq(T) : b # << >> => b \o c # << >>
      OBVIOUS
    <3>. QED
      BY <3>1 DEF TextSeqs
  <2>. QED
    BY <2>1, <2>3, <2>4
<1>9. x = r
  BY <1>1, <1>3, <1>5, <1>6, <1>8 DEF Says
<1>10. Spells(issued, expansion \o Tail(stack), p13n, m, r \o u)
  BY <1>3, <1>5, <1>7, SpellsConcat
<1>. QED
  BY <1>2, <1>5, <1>9, <1>10 DEF RowRight

(* A word that goes to the row shows its string there. *)
LEMMA EmitShows ==
  ASSUME OutputOK, NEW handed, NEW d, Shows(handed, cells, vector, d), NEW s \in Strings,
         NEW w \in Word, [str |-> s, word |-> w] \in handed,
         Head(stack).type = "static" => w # InVector, Emit(w)
  PROVE  Shows(handed, cells', vector', Append(d, s))
<1>1. cells \in Seq(Word) /\ vector \in Seq(Word)
  BY DEF OutputOK
<1>2. CASE Head(stack).type = "static"
  <2>1. cells' = Append(cells, w) /\ vector' = vector
    BY <1>2 DEF Emit, EmittedCells, EmittedVector
  <2>. QED
    BY <1>1, <1>2, <2>1, ShowsStatic
<1>3. CASE Head(stack).type # "static"
  <2>1. cells' = Append(cells, InVector) /\ vector' = Append(vector, w)
    BY <1>3 DEF Emit, EmittedCells, EmittedVector
  <2>. QED
    BY <1>1, <2>1, ShowsOpen
<1>. QED
  BY <1>2, <1>3

(* The string of the cell at hand, and the word that is emitted for it. *)
LEMMA EmitsString ==
  ASSUME TypeInv, TagsRight, ResultsRight, WordsLead, EmitStatic \/ EmitKnown \/ EmitValue,
         ~overrun', NEW handed, NEW m, NEW x, Says(handed, Head(stack), p13n, m, x),
         handed = issued, issued \subseteq issued'
  PROVE  \E s \in Strings : \E w \in Word :
           /\ x = << s >> /\ [str |-> s, word |-> w] \in issued'
           /\ Head(stack).type = "static" => w # InVector
           /\ Emit(w)
<1>1. PICK cell : cell = Head(stack)
  OBVIOUS
<1>2. CASE EmitStatic
  <2>1. cell.type = "static" /\ Emit(cell.offset)
    BY <1>1, <1>2 DEF EmitStatic, AtCell
  <2>2. PICK s \in Strings : x = << s >> /\ [str |-> s, word |-> cell.offset] \in issued
    BY <1>1, <2>1 DEF Says
  <2>3. PICK w : w = cell.offset
    OBVIOUS
  <2>4. w \in Word /\ w # InVector
    BY <2>2, <2>3, WordLeads
  <2>. QED
    BY <2>1, <2>2, <2>3, <2>4
<1>3. ASSUME EmitKnown \/ EmitValue
      PROVE  /\ cell \in Cell /\ cell.type \in {"p13n", "dt"} /\ x = << ValueOf(cell) >>
             /\ ValueOf(cell) \in Strings \cup {NoValue}
  <2>1. cell \in Cell /\ cell.type \in {"p13n", "dt"} /\ p13n \in Rows
    BY <1>1, <1>3, HeadType DEF EmitKnown, EmitValue
  <2>. QED
    BY <1>1, <2>1, ValueType DEF Says, ValueOf
<1>4. CASE EmitKnown
  <2>1. PICK w : w = results[cell.value_index]
    OBVIOUS
  <2>2. w # 0 /\ Emit(w) /\ stack # << >>
    BY <1>1, <1>4, <2>1 DEF EmitKnown, AtCell
  <2>3. PICK k \in DOMAIN tag_lookup : cell = tag_lookup[k]
    <3>1. stack \in Seq(Cell) /\ Tagged(stack, tag_lookup)
      BY DEF TypeInv, SlotsOK, TagsRight
    <3>. QED
      BY <1>1, <1>3, <1>4, <2>2, <3>1, TaggedTail
  <2>4. [str |-> ValueOf(cell), word |-> w] \in issued
    BY <1>3, <1>4, <2>1, <2>2, <2>3 DEF ResultsRight
  <2>5. PICK s : s = ValueOf(cell)
    OBVIOUS
  <2>6. s \in Strings /\ w \in Word
    BY <2>4, <2>5, WordLeads
  <2>. QED
    BY <1>1, <1>3, <1>4, <2>2, <2>4, <2>5, <2>6
<1>5. CASE EmitValue
  <2>1. PICK s, w : s = ValueOf(cell) /\ w = ST!Pointer(s)
    OBVIOUS
  <2>2. s # NoValue /\ ST!AddString(s) /\ Emit(w)
    BY <1>1, <1>5, <2>1 DEF EmitValue
  <2>3. s \in Strings
    BY <1>3, <1>5, <2>1, <2>2
  <2>4. w \in Word
    BY <2>1, <2>3, PointerType DEF TypeInv
  <2>5. [str |-> s, word |-> w] \in issued'
    BY <2>1, <2>2 DEF ST!AddString, ST!Issue
  <2>. QED
    BY <1>1, <1>3, <1>5, <2>1, <2>2, <2>3, <2>4, <2>5
<1>. QED
  BY <1>2, <1>4, <1>5

(* The string of a cell goes from what is to be said to what is shown. *)
LEMMA EmitSays ==
  ASSUME TypeInv, TagsRight, ResultsRight, WordsLead, UNCHANGED content,
         EmitStatic \/ EmitKnown \/ EmitValue, issued \subseteq issued', NEW m, RowRight(m)
  PROVE  RowRight(m)'
<1> SUFFICES ASSUME ~overrun' PROVE RowRight(m)'
  BY DEF RowRight
<1>1. /\ stack' = Tail(stack) /\ ~overrun
      /\ UNCHANGED << p13n, pc, compiling >>
      /\ AtCell({"static", "p13n", "dt"})
  BY DEF EmitStatic, EmitKnown, EmitValue, AtCell, compileVars
<1>2. PICK d : \E x, u \in TextSeqs :
        /\ Shows(issued, cells, vector, d) /\ d \in TextSeqs
        /\ Says(issued, Head(stack), p13n, m, x)
        /\ Spells(issued, Tail(stack), p13n, m, u)
        /\ d \o (x \o u) = Renderings(p13n, m)[content]
  BY <1>1, HeadSays
<1>3. PICK x, u \in TextSeqs :
        /\ Shows(issued, cells, vector, d) /\ d \in TextSeqs
        /\ Says(issued, Head(stack), p13n, m, x)
        /\ Spells(issued, Tail(stack), p13n, m, u)
        /\ d \o (x \o u) = Renderings(p13n, m)[content]
  BY <1>2
<1>4. PICK s \in Strings, w \in Word :
        /\ x = << s >> /\ [str |-> s, word |-> w] \in issued'
        /\ Head(stack).type = "static" => w # InVector
        /\ Emit(w)
  BY <1>3, EmitsString
<1>5. Shows(issued', cells, vector, d) /\ Spells(issued', Tail(stack), p13n, m, u)
  BY <1>3, ShowsStays, SpellsStays
<1>6. Shows(issued', cells', vector', Append(d, s))
  BY <1>4, <1>5, EmitShows DEF TypeInv
<1>7. Append(d, s) \o u = d \o (x \o u)
  <2>1. Append(d, s) = d \o x
    BY <1>3, <1>4, AppendIsConcat DEF TextSeqs
  <2>2. (d \o x) \o u = d \o (x \o u)
    BY <1>3, TextsJoin
  <2>. QED
    BY <2>1, <2>2
<1>. QED
  BY <1>1, <1>3, <1>5, <1>6, <1>7 DEF RowRight

-----------------------------------------------------------------------------
(* Every step keeps the cells faithful, where the tag it misses, if any,   *)
(* is in m, and the one it does not is not.                                *)
LEMMA FaithfulStays ==
  ASSUME TypeInv, TagsRight, ResultsRight, CompilesOnce, WordsLead, [Next]_vars,
         NEW m, Faithful(m),
         AtASegment => (Missed <=> << compiling, segment >> \in m)
  PROVE  Faithful(m)'
<1>. /\ issued \subseteq issued' /\ content' = content
     /\ CompiledRight(m) /\ CompilingRight(m) /\ RowRight(m)
  BY IssuedGrows, ContentStays DEF Faithful
<1>1. CASE PrecompileText \/ PrecompileKnownTag \/ PrecompileNewTag \/ PrecompileUnknownTag
  <2>1. /\ AtASegment /\ pc' = pc /\ compiling' = compiling
        /\ UNCHANGED << compiled, p13n, stack, cells, vector, overrun >>
    BY <1>1, AtASegmentIs DEF AtASegment, rowVars, outputVars
  <2>2. CompilingRight(m)'
    BY <1>1, <2>1, SegmentSaid
  <2>3. CompiledRight(m)'
    BY <2>1, CompiledStays
  <2>4. RowRight(m)'
    BY <2>1, RowStaysRight DEF InARow
  <2>. QED
    BY <2>2, <2>3, <2>4 DEF Faithful
<1>2. CASE PrecompileEnd
  <2>1. CompiledRight(m)'
    BY <1>2, EndSays
  <2>2. CompilingRight(m)'
    BY <1>2 DEF PrecompileEnd, CompilingRight
  <2>3. /\ UNCHANGED << p13n, stack, cells, vector, overrun >>
        /\ InARow' => InARow
    BY <1>2 DEF PrecompileEnd, rowVars, outputVars, InARow
  <2>4. RowRight(m)'
    BY <2>3, RowStaysRight
  <2>. QED
    BY <2>1, <2>2, <2>4 DEF Faithful
<1>3. CASE CompileDc
  <2>1. /\ UNCHANGED << compiled, segment, cc_head, p13n, stack, cells, vector, overrun >>
        /\ pc = "row" /\ compiling' \in Contents
    <3>1. Head(stack) \in Cell /\ p13n \in Rows /\ Head(stack).type \in {"dc"}
      BY <1>3, HeadType DEF CompileDc
    <3>. QED
      BY <1>3, <3>1, AlternativeType DEF CompileDc, AtCell, templateVars, rowVars, outputVars
  <2>2. segment = 1 /\ cc_head = << >>
    BY <2>1 DEF CompilesOnce
  <2>3. CompilingRight(m)'
    <3>1. PICK c : c = compiling'
      OBVIOUS
    <3>2. ASSUME NEW p \in Rows PROVE Spells(issued', << >>, p, m, Begins(c, p, m, 0))
      BY <2>1, <3>1, SpellsNothing, RenderingGrows
    <3>3. segment' - 1 = 0 /\ cc_head' = << >>
      BY <2>1, <2>2
    <3>. QED
      BY <3>1, <3>2, <3>3 DEF CompilingRight
  <2>4. CompiledRight(m)'
    BY <2>1, CompiledStays
  <2>5. RowRight(m)'
    BY <2>1, RowStaysRight DEF InARow
  <2>. QED
    BY <2>3, <2>4, <2>5 DEF Faithful
<1>4. ASSUME UNCHANGED compiled, pc' # "precompile", RowRight(m)'
      PROVE  Faithful(m)'
  BY <1>4, CompiledStays DEF Faithful, CompilingRight
<1>5. CASE \E p \in Rows : BeginAdd(p)
  <2>1. RowRight(m)'
    BY <1>5, BeginSays
  <2>. QED
    BY <1>4, <1>5, <2>1 DEF BeginAdd, templateVars
<1>6. CASE SpliceDc
  <2>1. RowRight(m)'
    BY <1>6, SpliceSays
  <2>. QED
    BY <1>4, <1>6, <2>1 DEF SpliceDc, AtCell, templateVars
<1>7. CASE EmitStatic \/ EmitKnown \/ EmitValue
  <2>1. RowRight(m)'
    BY <1>7, EmitSays
  <2>. QED
    BY <1>4, <1>7, <2>1 DEF EmitStatic, EmitKnown, EmitValue, AtCell, templateVars
<1>8. CASE SpliceNothing \/ EmitNull \/ PrecompileExits \/ OverrunCrashes \/ FinishRow \/ Finish
  <2>1. UNCHANGED compiled /\ pc' \notin {"precompile", "row"}
    BY <1>8 DEF SpliceNothing, EmitNull, PrecompileExits, OverrunCrashes, FinishRow, Finish,
                templateVars
  <2>2. RowRight(m)'
    BY <2>1 DEF RowRight, InARow
  <2>. QED
    BY <1>4, <2>1, <2>2
<1>9. CASE UNCHANGED vars
  <2>1. UNCHANGED << pc, compiled, compiling, segment, cc_head, p13n, stack, cells, vector,
                     overrun, issued >>
    BY <1>9 DEF vars, tableVars, templateVars, compileVars, rowVars, outputVars
  <2>2. CompiledRight(m)'
    BY <2>1, CompiledStays
  <2>3. CompilingRight(m)'
    BY <2>1 DEF CompilingRight
  <2>4. RowRight(m)'
    BY <2>1, RowStaysRight DEF InARow
  <2>. QED
    BY <2>2, <2>3, <2>4 DEF Faithful
<1>. QED
  BY <1>1, <1>2, <1>3, <1>5, <1>6, <1>7, <1>8, <1>9 DEF Next, Step, Stopped

(* Only what may be missed is. *)
LEMMA MissedIsMissable ==
  ASSUME TypeInv, CompilesOnce, TagsMet, AtASegment, [Next]_vars, Missed
  PROVE  << compiling, segment >> \in Missable(content)
<1>1. PICK key : key = KeyOf(Segment.key)
  OBVIOUS
<1>2. /\ pc = "precompile" /\ segment <= Len(SegmentsOf[compiling]) /\ Segment.kind = "tag"
      /\ key \in DOMAIN Dc \ DOMAIN FieldOf /\ compiling \in Contents
      /\ compiling \notin DOMAIN compiled
  BY <1>1 DEF Missed, AtASegment, TypeInv, PlaceOK, CompilesOnce
<1>3. /\ compiling # content
      /\ \A i \in TagsIn(content) : KeyAt(content, i) # key
  <2>1. CASE PrecompileKnownTag
    <3>1. key \in DOMAIN tag_lookup /\ tag_lookup[key].type # "dc"
      BY <1>1, <2>1 DEF PrecompileKnownTag, Missed
    <3>. QED
      BY <1>2, <3>1 DEF TagsMet
  <2>2. ASSUME key \in Meaningful \ DOMAIN tag_lookup, MayMiss(key)
        PROVE  /\ compiling # content
               /\ \A i \in TagsIn(content) : KeyAt(content, i) # key
    <3>1. compiling # content
      BY <2>2 DEF MayMiss
    <3>2. content \in DOMAIN compiled
      BY <1>2, <3>1 DEF TypeInv, PlaceOK, InARow
    <3>. QED
      BY <2>2, <3>1, <3>2 DEF TagsMet, Done
  <2>3. CASE PrecompileNewTag
    <3>1. /\ key \in Meaningful \ DOMAIN tag_lookup /\ key \in DOMAIN tag_lookup'
          /\ tag_lookup'[key] \in NewCells(key)
      BY <1>1, <2>3, NewTagJoins
    <3>2. tag_lookup'[key].type # "dc"
      BY <1>1, <3>1 DEF Missed
    <3>. QED
      BY <1>2, <2>2, <3>1, <3>2, NewCellIs
  <2>4. CASE PrecompileUnknownTag
    BY <1>1, <1>2, <2>2, <2>4 DEF PrecompileUnknownTag, Unknown, Meaningful
  <2>5. ~PrecompileText
    BY <1>2 DEF PrecompileText, AtSegment
  <2>. QED
    BY <2>1, <2>3, <2>4, <2>5, SegmentKinds
<1>4. compiling \in Contents \ Bodies
  BY <1>2, <1>3 DEF CompilesOnce
<1>5. segment \in DOMAIN SegmentsOf[compiling]
  <2>1. segment \in Nat \ {0}
    BY DEF TypeInv, CompilingOK
  <2>. QED
    BY <1>2, <2>1, SegmentsNumbered
<1>6. segment \in DcTagsIn(compiling) /\ KeyAt(compiling, segment) = key
  BY <1>1, <1>2, <1>5 DEF DcTagsIn, TagsIn, KeyAt, Segment
<1>7. KeyAt(compiling, segment) \notin {KeyAt(content, i) : i \in TagsIn(content)}
  BY <1>3, <1>6
<1>. QED
  BY <1>4, <1>6, <1>7 DEF Missable

(* As segments are done, what is missed is settled. *)
LEMMA MissesStaySettled ==
  ASSUME TypeInv, TagsRight, ResultsRight, CompilesOnce, TagsMet, WordsLead, MissesSettled,
         [Next]_vars
  PROVE  MissesSettled'
<1>1. PICK n \in SUBSET Missable(content) :
        \A m \in SUBSET Missable(content) : Agrees(m, n) => Faithful(m)
  BY DEF MissesSettled
<1>2. PICK at, s, here : at = compiling /\ s = segment /\ here = << at, s >>
  OBVIOUS
<1>3. PICK after : after = IF ~AtASegment THEN n
                           ELSE IF Missed THEN n \cup {here} ELSE n \ {here}
  OBVIOUS
<1>4. after \in SUBSET Missable(content)
  <2>1. AtASegment /\ Missed => here \in Missable(content)
    BY <1>2, MissedIsMissable
  <2>. QED
    BY <1>3, <2>1
<1>5. ASSUME AtASegment
      PROVE  /\ at \in Contents /\ s \in DOMAIN SegmentsOf[at] /\ s \in Nat
             /\ at \notin DOMAIN compiled /\ Done(at, s)'
  <2>1. /\ at \in Contents /\ at \notin DOMAIN compiled
        /\ s \in Nat \ {0} /\ s <= Len(SegmentsOf[at])
        /\ segment' = s + 1 /\ compiling' = at
    BY <1>2, <1>5 DEF AtASegment, CompilesOnce, TypeInv, PlaceOK, CompilingOK
  <2>2. s \in DOMAIN SegmentsOf[at]
    BY <2>1, SegmentsNumbered
  <2>. QED
    BY <2>1, <2>2 DEF Done
<1>6. ASSUME NEW m \in SUBSET Missable(content), Agrees(m, after)' PROVE Faithful(m)'
  <2>1. ASSUME NEW c \in Contents, NEW i \in DOMAIN SegmentsOf[c], Done(c, i)
        PROVE  << c, i >> \in m <=> << c, i >> \in n
    <3>1. << c, i >> \in m <=> << c, i >> \in after
      BY <1>6, <2>1, DoneSteps DEF Agrees
    <3>2. AtASegment => << c, i >> # here
      <4>1. ASSUME AtASegment, c = at, i = s PROVE FALSE
        BY <1>2, <1>5, <2>1, <4>1 DEF Done
      <4>. QED
        BY <1>2, <4>1
    <3>. QED
      BY <1>3, <3>1, <3>2
  <2>2. Faithful(m)
    BY <1>1, <2>1 DEF Agrees
  <2>3. AtASegment => (Missed <=> here \in m)
    <3>1. AtASegment => (here \in m <=> here \in after)
      BY <1>2, <1>5, <1>6 DEF Agrees
    <3>. QED
      BY <1>3, <3>1
  <2>. QED
    BY <1>2, <2>2, <2>3, FaithfulStays
<1>. QED
  BY <1>4, <1>6, ContentStays DEF MissesSettled

-----------------------------------------------------------------------------
(* What the steps keep while the file is below 2 GiB. *)
StoreInv ==
  /\ RowsInv /\ SlotsInv /\ STP!IInv
  /\ TagsRight /\ ResultsRight /\ CompilesOnce /\ TagsMet /\ MissesSettled
  /\ RecordsLie /\ RowsLie

(* Its parts, as the lemmas ask for them. *)
LEMMA StoreParts ==
  StoreInv => /\ TypeInv /\ HeaderInv /\ VCounted /\ WordsInv /\ OverrunNoted
              /\ RecordsLie /\ RowsLie
              /\ PointersFit => WordsLead
  BY TableLeads DEF StoreInv, RowsInv, RecordsInv, WordsInv, PointersFit

(* Nothing is known at first, nothing was missed and nothing was added. *)
LEMMA StoreInvInit == Init => StoreInv
<1> SUFFICES ASSUME Init PROVE StoreInv
  OBVIOUS
<1>1. RowsInv /\ SlotsInv /\ STP!IInv
  BY RowsInit, SlotsInit, TableKept
<1>2. /\ pc = "precompile" /\ compiling = content /\ segment = 1 /\ cc_head = << >>
      /\ compiled = ST!NoEntry /\ tag_lookup = ST!NoEntry /\ num_uniq_tags = 0
      /\ stack = << >> /\ results = [i \in Slots |-> 0]
      /\ uniq_cells_lookup = ST!NoEntry /\ answers = << >>
      /\ content \in Contents
  BY TemplateAssumption DEF Init
<1>3. DOMAIN compiled = {} /\ DOMAIN tag_lookup = {} /\ DOMAIN uniq_cells_lookup = {}
  BY <1>2 DEF ST!NoEntry
<1>4. TagsRight
  BY <1>2, <1>3 DEF TagsRight, Tagged
<1>5. ResultsRight
  BY <1>2, <1>3 DEF ResultsRight
<1>6. Len(SegmentsOf[content]) \in Nat /\ DOMAIN SegmentsOf[content] = 1 .. Len(SegmentsOf[content])
  BY <1>2, SegmentsNumbered
<1>7. CompilesOnce
  BY <1>2, <1>3, <1>6 DEF CompilesOnce
<1>8. TagsMet
  <2>1. \A i \in TagsIn(content) : ~(i < 1)
    BY <1>6 DEF TagsIn
  <2>. QED
    BY <1>2, <1>3, <2>1 DEF TagsMet, Done
<1>9. ASSUME NEW m PROVE Faithful(m)
  <2>1. CompiledRight(m)
    BY <1>3 DEF CompiledRight
  <2>2. \A p \in Rows : Begins(content, p, m, 0) = << >>
    BY <1>2, RenderingGrows
  <2>3. \A p \in Rows : Spells(issued, << >>, p, m, << >>)
    BY SpellsNothing
  <2>4. CompilingRight(m)
    BY <1>2, <2>2, <2>3 DEF CompilingRight
  <2>5. RowRight(m)
    BY <1>2 DEF RowRight, InARow
  <2>. QED
    BY <2>1, <2>4, <2>5 DEF Faithful
<1>10. MissesSettled
  BY <1>9 DEF MissesSettled
<1>11. RecordsLie /\ RowsLie
  BY <1>2, <1>3 DEF RecordsLie, RowsLie
<1>. QED
  BY <1>1, <1>4, <1>5, <1>7, <1>8, <1>10, <1>11 DEF StoreInv

(* A row that is done shows what it renders to, once more or less of it    *)
(* was missed.                                                             *)
LEMMA RowIsDone ==
  ASSUME TypeInv, MissesSettled, FinishRow, ~overrun
  PROVE  \E d : Shows(issued, cells, vector, d) /\ SeenAll(d) \in RendersTo[content][p13n]
<1>1. InARow /\ stack = << >> /\ p13n \in Rows /\ content \in Bodies
  BY DEF FinishRow, InARow, TypeInv, PlaceOK
<1>2. PICK n \in SUBSET Missable(content) : RowRight(n)
  BY DEF MissesSettled, Agrees, Faithful
<1>3. PICK d : \E t : /\ Shows(issued, cells, vector, d) /\ Spells(issued, << >>, p13n, n, t)
                      /\ d \o t = Renderings(p13n, n)[content]
  BY <1>1, <1>2 DEF RowRight
<1>4. PICK t : /\ Shows(issued, cells, vector, d) /\ Spells(issued, << >>, p13n, n, t)
               /\ d \o t = Renderings(p13n, n)[content]
  BY <1>3
<1>5. t = << >>
  BY <1>4, SpellsNothing
<1>6. d \in Seq(Strings) /\ d \in TextSeqs
  BY <1>4 DEF Shows, TextSeqs
<1>7. d = Renderings(p13n, n)[content]
  BY <1>4, <1>5, <1>6, TextsJoin
<1>8. d \in MayRender[content][p13n]
  BY <1>1, <1>7 DEF MayRender
<1>9. ~WithoutValue(d)
  <2>1. \A i \in DOMAIN d : d[i] \in Strings
    BY <1>6
  <2>2. NoValue \notin Strings
    BY TemplateAssumption
  <2>. QED
    BY <2>1, <2>2 DEF WithoutValue
<1>10. SeenAll(d) \in RendersTo[content][p13n]
  BY <1>1, <1>8, <1>9 DEF RendersTo
<1>. QED
  BY <1>4, <1>10

(* The other steps leave the records and the rows as they are. *)
LEMMA OthersKeepRows ==
  ASSUME RecordsLie, RowsLie, UNCHANGED << fileVars, content >>, issued \subseteq issued'
  PROVE  RecordsLie' /\ RowsLie'
<1>1. UNCHANGED << uniq_cells_lookup, uc, v, answers, content >>
  BY DEF fileVars
<1>2. RecordsLie'
  BY <1>1 DEF RecordsLie
<1>3. ASSUME NEW i \in DOMAIN answers, ~answers[i].overrun
      PROVE  \E k \in DOMAIN uniq_cells_lookup, vec \in Seq(Word) : \E d :
               /\ RowAt(v, uniq_cells_lookup[k], vec, Pointed(answers[i]))
               /\ Shows(issued', k, vec, d)
               /\ SeenAll(d) \in RendersTo[content][answers[i].row]
  BY <1>3, ShowsStays DEF RowsLie, RowLies
<1>. QED
  BY <1>1, <1>2, <1>3 DEF RowsLie, RowLies

(* Every step that leaves the pointers fitting keeps all of it. *)
LEMMA StoreInvStep == StoreInv /\ PointersFit /\ PointersFit' /\ [Next]_vars => StoreInv'
<1> SUFFICES ASSUME StoreInv, PointersFit, PointersFit', [Next]_vars PROVE StoreInv'
  OBVIOUS
<1>1. /\ TypeInv /\ HeaderInv /\ VCounted /\ WordsInv /\ OverrunNoted /\ WordsLead
      /\ SlotsInv /\ TagsRight /\ ResultsRight /\ CompilesOnce /\ TagsMet /\ MissesSettled
      /\ RecordsLie /\ RowsLie /\ issued \subseteq issued' /\ content' = content
  BY StoreParts, IssuedGrows, ContentStays DEF StoreInv
<1>2. RowsInv' /\ WordsInv'
  BY RowsInvInductive DEF StoreInv, RowsInv, RecordsInv
<1>3. SlotsInv'
  <2>1. SlotsInv /\ UNCHANGED << tag_lookup, num_uniq_tags >> => SlotsInv'
    BY DEF SlotsInv, SlotsCounted, SlotsDistinct
  <2>. QED
    BY <1>1, <2>1, NewTagKeepsSlots, TagsLeftAlone
<1>4. STP!IInv'
  BY <1>1, TableKept DEF StoreInv
<1>5. TagsRight' /\ ResultsRight' /\ CompilesOnce' /\ TagsMet' /\ MissesSettled'
  BY <1>1, TagsStayRight, ResultsStayRight, CompilesOnceStays, TagsStayMet, MissesStaySettled
<1>6. RecordsLie' /\ RowsLie'
  <2>1. CASE FinishRow
    <3>1. ~overrun => \E d : /\ Shows(issued, cells, vector, d)
                             /\ SeenAll(d) \in RendersTo[content][p13n]
      BY <1>1, <2>1, RowIsDone
    <3>. QED
      BY <1>1, <2>1, <3>1, FinishKeepsRecords, FinishKeepsRows
  <2>2. CASE ~FinishRow
    BY <1>1, <1>2, <2>2, OnlyRowsWrite, OthersKeepRows
  <2>. QED
    BY <2>1, <2>2
<1>. QED
  BY <1>2, <1>3, <1>4, <1>5, <1>6 DEF StoreInv

(* Every step adds the row that was asked for to the store, or leaves it   *)
(* as it is.                                                               *)
LEMMA StepsImplement ==
  StoreInv /\ StoreInv' /\ Small /\ Small' /\ [Next]_vars => [Store!Next]_<< StoredRows, content >>
<1> SUFFICES ASSUME StoreInv, StoreInv', Small, Small', [Next]_vars
             PROVE  Store!Next \/ UNCHANGED << StoredRows, content >>
  OBVIOUS
<1>1. /\ TypeInv /\ HeaderInv /\ VCounted /\ WordsInv /\ OverrunNoted /\ WordsLead
      /\ MissesSettled /\ RecordsLie /\ RowsLie
      /\ issued \subseteq issued' /\ content' = content
  BY StoreParts, IssuedGrows, ContentStays DEF StoreInv, Small
<1>2. TypeInv' /\ RecordsLie' /\ RowsLie' /\ WordsLead' /\ WordsInv'
  <2>1. StoreInv' => TypeInv' /\ RecordsLie' /\ RowsLie' /\ WordsInv'
                     /\ (PointersFit' => WordsLead')
    BY StoreParts, PTL
  <2>. QED
    BY <2>1 DEF Small
<1>3. CASE FinishRow /\ ~overrun
  <2>1. p13n \in Rows
    BY <1>1, <1>3 DEF FinishRow, TypeInv, PlaceOK, InARow
  <2>2. PICK d : Shows(issued, cells, vector, d) /\ SeenAll(d) \in RendersTo[content][p13n]
    BY <1>1, <1>3, RowIsDone
  <2>3. Store!Add(p13n)
    BY <1>1, <1>2, <1>3, <2>2, FinishAdds
  <2>. QED
    BY <2>1, <2>3 DEF Store!Next
<1>4. CASE FinishRow /\ overrun
  <2>1. /\ Len(answers) \in Nat /\ DOMAIN answers = 1 .. Len(answers)
        /\ DOMAIN answers' = 1 .. Len(answers) + 1
        /\ \A i \in DOMAIN answers : answers'[i] = answers[i]
        /\ answers'[Len(answers) + 1] =
             [offset |-> AsInt(4 * Len(v)), row |-> p13n, overrun |-> overrun]
    BY <1>1, <1>4, AnswerJoins DEF Small
  <2>2. Clean' = Clean /\ \A i \in Clean : answers'[i] = answers[i]
    <3>1. PICK last : last = Len(answers) + 1
      OBVIOUS
    <3>2. DOMAIN answers' = DOMAIN answers \cup {last} /\ answers'[last].overrun
      BY <1>4, <2>1, <3>1
    <3>. QED
      BY <2>1, <3>2 DEF Clean
  <2>3. /\ v' = v \o << UniqOffset >> \o vector
        /\ v \in Seq(Word) /\ vector \in Seq(Word) /\ UniqOffset \in Word
    BY <1>1, <1>4 DEF TypeInv, SectionsOK, OutputOK, UniqOffset, UniqKnown, FinishRow
  <2>4. \E more \in Seq(Word) : v' = v \o more
    BY <2>3, RowIsWritten
  <2>5. \A k \in DOMAIN uniq_cells_lookup :
          k \in DOMAIN uniq_cells_lookup' /\ uniq_cells_lookup'[k] = uniq_cells_lookup[k]
    BY <1>1, <1>4, FinishKeepsRecords DEF Small
  <2>6. UNCHANGED StoredRows
    BY <1>1, <1>2, <2>2, <2>4, <2>5, StoreStays
  <2>. QED
    BY <1>1, <2>6
<1>5. CASE ~FinishRow
  <2>1. UNCHANGED fileVars
    BY <1>1, <1>2, <1>5, OnlyRowsWrite
  <2>2. UNCHANGED << v, uniq_cells_lookup, answers >> /\ Clean' = Clean
    BY <2>1 DEF fileVars, Clean
  <2>3. UNCHANGED StoredRows
    BY <1>1, <1>2, <2>2, StoreStays
  <2>. QED
    BY <1>1, <2>3
<1>. QED
  BY <1>3, <1>4, <1>5

(* frf_maker implements the store: while the file is below 2 GiB, the      *)
(* offset frf_maker_add returns is one of its own, the reader finds the    *)
(* rendering of the row under it, and no later call changes it, however    *)
(* rows share their slots and cells, whatever the lookups of the freed     *)
(* keys miss, and whatever other rows wrote behind their `results'.        *)
THEOREM MakerImplementsStore == Spec /\ []Small => ImplementsStore
<1>1. Init => StoreInv /\ Store!Init
  <2>1. ASSUME Init PROVE Store!Init
    <3>1. answers = << >> /\ content \in Bodies
      BY <2>1 DEF Init
    <3>2. StoredRows = [h \in {} |-> h]
      BY <3>1 DEF StoredRows
    <3>. QED
      BY <3>1, <3>2 DEF Store!Init
  <2>. QED
    BY <2>1, StoreInvInit
<1>2. Small => PointersFit
  BY DEF Small
<1>. QED
  BY <1>1, <1>2, StoreInvStep, StepsImplement, PTL DEF Spec, ImplementsStore, Store!Spec
=============================================================================
