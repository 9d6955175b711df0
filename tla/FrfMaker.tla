------------------------------ MODULE FrfMaker ------------------------------
(***************************************************************************)
(* Making an frf file: frf_maker_init, frf_maker_add and frf_maker_finish  *)
(* in frf_maker.c.                                                         *)
(*                                                                         *)
(* frf_maker_add renders a row: it works off a stack of cells that starts  *)
(* as a copy of the compiled body, replaces a cell of dynamic content by   *)
(* the cells of the alternative the row selects (compiling that one when   *)
(* it is first needed), and gives every other cell its pointer.  A tag is  *)
(* given one slot of the array `results', so that it is computed once per  *)
(* row.  The row ends as a reference to a record of unique cells and the   *)
(* vector of the pointers that vary.                                       *)
(*                                                                         *)
(* `results' has a slot for every tag known when the row began.  Compiling *)
(* an alternative can make more tags known; the code then copies results   *)
(* into a larger array but goes on using the old one (761-765), so that    *)
(* the new slots lie in whatever the arena holds behind it.                *)
(***************************************************************************)
EXTENDS FrfFile, FrfTemplate

CONSTANTS
  UsedLimit, Growths, MaxTable, (* As in StringTable.                      *)
  Garbage,    (* Words an unset or overwritten cell may be left with.      *)
  MaxRows     (* Bound: how many rows are added.                           *)

ASSUME MakerAssumption ==
  /\ UsedLimit \in Nat /\ Growths \subseteq Nat /\ MaxTable \in Nat
  /\ Garbage \subseteq Word /\ MaxRows \in Nat

VARIABLES
  table, table_size, string_table_written, (* The string table, as in      *)
  strings_lookup, str_used, reset_at,      (* StringTable.                 *)
  issued,
  pc,                   (* What the maker is doing.                        *)
  content,              (* The body of the content file it was made with.  *)
  compiled,             (* The cells of each content compiled so far.      *)
  tag_lookup,           (* The cell of each known tag.                     *)
  num_uniq_tags,        (* How many tags are known.                        *)
  compiling,            (* The content frf_maker_precompile is working on, *)
  segment,              (* the segment it is at,                           *)
  cc_head,              (* and the cells made so far.                      *)
  p13n,                 (* The row being added,                            *)
  stack,                (* the cells still to be done,                     *)
  results,              (* the pointer of each tag done, zero for none,    *)
  capacity,             (* the slots `results' has room for,               *)
  old_num_uniq_tags,    (* the tags known when a slot was last cleared,    *)
  cells,                (* the words of the cells done,                    *)
  vector,               (* the pointers that go to the vector,             *)
  overrun,              (* History: a slot behind `results' was touched.   *)
  uniq_cells_lookup,    (* The offset of each record of unique cells.      *)
  uc, unique_cells_written, (* The unique cells and their 32-bit counter.  *)
  v, vector_written,    (* The vectors and their 32-bit counter.           *)
  num_rows,
  answers,              (* History: what each frf_maker_add returned.      *)
  file                  (* The file frf_maker_finish left.                 *)

tableVars == << table, table_size, string_table_written, strings_lookup, str_used,
                reset_at, issued >>
templateVars == << compiled, tag_lookup, num_uniq_tags >>
compileVars == << compiling, segment, cc_head >>
slotVars == << results, capacity, old_num_uniq_tags >>
outputVars == << cells, vector, overrun >>
rowVars == << p13n, stack, slotVars, outputVars >>
fileVars == << uniq_cells_lookup, uc, unique_cells_written, v, vector_written,
               num_rows, answers >>
vars == << tableVars, pc, content, templateVars, compileVars, rowVars, fileVars, file >>

ST == INSTANCE StringTable

-----------------------------------------------------------------------------
(* Cells, with the value their type calls for. *)
StaticCell(w) == [type |-> "static", offset |-> w]
P13nCell(field, slot) == [type |-> "p13n", p13n |-> field, value_index |-> slot]
DcCell(key, slot) == [type |-> "dc", dc |-> key, value_index |-> slot]
DtCell(key, slot) == [type |-> "dt", exp |-> key, value_index |-> slot]

(* A fault for the checks to find: the fields are not looked up. *)
MeaningfulButFields == DOMAIN Dc \cup DtKeys

Meaningful == DOMAIN FieldOf \cup DOMAIN Dc \cup DtKeys

(* The slots a row can use. *)
Slots == 0 .. Cardinality(Keys) - 1

(* The slots there is room for: the array is rounded up to the 16 bytes    *)
(* the arena aligns to.                                                    *)
Capacity(tags) == 4 * ((tags + 3) \div 4)

NoRow == "none"
NoContent == "none"
NoFile == [state |-> "absent"]
Torn == [state |-> "torn"]

AsInt(w) == IF w >= Half THEN w - 2 * Half ELSE w
Add32(w, n) == (w + n) % (2 * Half)

-----------------------------------------------------------------------------
(* frf_maker_init: everything is empty, and the body is compiled first. *)
Init ==
  /\ ST!Init
  /\ pc = "precompile" /\ content \in Bodies
  /\ compiled = ST!NoEntry /\ tag_lookup = ST!NoEntry /\ num_uniq_tags = 0
  /\ compiling = content /\ segment = 1 /\ cc_head = << >>
  /\ p13n = NoRow /\ stack = << >>
  /\ results = [i \in Slots |-> 0] /\ capacity = 0 /\ old_num_uniq_tags = 0
  /\ cells = << >> /\ vector = << >> /\ overrun = FALSE
  /\ uniq_cells_lookup = ST!NoEntry
  /\ uc = << >> /\ unique_cells_written = 0
  /\ v = << >> /\ vector_written = 0
  /\ num_rows = 0 /\ answers = << >>
  /\ file = NoFile

-----------------------------------------------------------------------------
(* frf_maker_precompile, one segment at a time. *)
Segment == SegmentsOf[compiling][segment]

AtSegment(kind) ==
  /\ pc = "precompile"
  /\ segment <= Len(SegmentsOf[compiling])
  /\ Segment.kind = kind
  /\ segment' = segment + 1
  /\ UNCHANGED << pc, compiled, compiling, rowVars, fileVars, file >>

(* A text becomes a static cell, and goes to the string table at once. *)
PrecompileText ==
  /\ AtSegment("text")
  /\ cc_head' = Append(cc_head, StaticCell(ST!Pointer(Segment.str)))
  /\ ST!AddString(Segment.str)
  /\ UNCHANGED << tag_lookup, num_uniq_tags >>

(* A tag seen before, in whatever content, shares its slot. *)
PrecompileKnownTag ==
  /\ AtSegment("tag")
  /\ KeyOf(Segment.key) \in DOMAIN tag_lookup
  /\ cc_head' = Append(cc_head, tag_lookup[KeyOf(Segment.key)])
  /\ UNCHANGED << tag_lookup, num_uniq_tags, tableVars >>

(* A fault for the checks to find: new tags are not counted. *)
TagsUncounted == num_uniq_tags

TagsAfter == num_uniq_tags + 1

(* The keys of dc_lookup belong to the parsed JSON, which frf_maker_init    *)
(* gives up once the body is compiled (120, 500): after that a lookup      *)
(* compares with freed memory, and may miss what is there.                 *)
MayMiss(key) == compiling # content /\ key \in DOMAIN Dc \ DOMAIN FieldOf

(* The cell of a key nothing is known of yet: its type is decided by the   *)
(* first lookup that has it.                                               *)
NewCells(key) ==
  LET slot == num_uniq_tags IN
  IF key \in DOMAIN FieldOf THEN {P13nCell(FieldOf[key], slot)}
  ELSE {DcCell(k, slot) : k \in {key} \cap DOMAIN Dc}
       \cup {DtCell(k, slot) : k \in {l \in {key} \cap DtKeys : l \in DOMAIN Dc => MayMiss(l)}}

(* A new tag gets the next slot. *)
PrecompileNewTag ==
  LET key == KeyOf(Segment.key) IN
  /\ AtSegment("tag")
  /\ key \in Meaningful \ DOMAIN tag_lookup
  /\ \E cell \in NewCells(key) :
       /\ cc_head' = Append(cc_head, cell)
       /\ tag_lookup' = ST!Put(tag_lookup, key, cell)
  /\ num_uniq_tags' = TagsAfter
  /\ UNCHANGED tableVars

(* No lookup has the key. *)
Unknown(key) ==
  key \notin DOMAIN tag_lookup /\ (key \notin Meaningful \/ MayMiss(key))

(* A tag that means nothing, or is missed, is dropped... *)
PrecompileUnknownTag ==
  LET key == KeyOf(Segment.key) IN
  /\ AtSegment("tag")
  /\ Unknown(key) /\ key \notin CallKeys
  /\ UNCHANGED << cc_head, tag_lookup, num_uniq_tags, tableVars >>

(* ...unless it has a parenthesis: what does not parse as a call, or calls *)
(* what there is not, ends the program.                                    *)
PrecompileExits ==
  /\ pc = "precompile"
  /\ segment <= Len(SegmentsOf[compiling]) /\ Segment.kind = "tag"
  /\ Unknown(KeyOf(Segment.key)) /\ KeyOf(Segment.key) \in CallKeys \ DtKeys
  /\ pc' = "exited"
  /\ UNCHANGED << tableVars, templateVars, compileVars, rowVars, fileVars, file >>

PrecompileEnd ==
  /\ pc = "precompile"
  /\ segment > Len(SegmentsOf[compiling])
  /\ compiled' = ST!Put(compiled, compiling, cc_head)
  /\ pc' = IF compiling = content THEN "idle" ELSE "row"
  /\ compiling' = NoContent /\ segment' = 1 /\ cc_head' = << >>
  /\ UNCHANGED << tableVars, tag_lookup, num_uniq_tags, rowVars, fileVars, file >>

-----------------------------------------------------------------------------
(* A fault for the checks to find: the pointers of the row before stay. *)
StaleResults == results

(* The array starts out cleared. *)
FreshResults == [i \in Slots |-> 0]

(* frf_maker_add.  It starts with the copied body and cleared slots, and   *)
(* drops what the arena held of the row before.                            *)
BeginAdd(p) ==
  /\ pc = "idle"
  /\ num_rows < MaxRows
  /\ pc' = "row"
  /\ p13n' = p
  /\ stack' = compiled[content]
  /\ results' = FreshResults
  /\ capacity' = Capacity(num_uniq_tags)
  /\ old_num_uniq_tags' = num_uniq_tags
  /\ cells' = << >> /\ vector' = << >> /\ overrun' = FALSE
  /\ UNCHANGED << tableVars, templateVars, compileVars, fileVars, file >>

(* The next cell on the stack. *)
AtCell(types) == pc = "row" /\ stack # << >> /\ Head(stack).type \in types

(* The alternative has to be compiled before it can be put on the stack. *)
CompileDc ==
  /\ AtCell({"dc"})
  /\ Alternative(Head(stack).dc, p13n) \notin DOMAIN compiled
  /\ pc' = "precompile"
  /\ compiling' = Alternative(Head(stack).dc, p13n)
  /\ UNCHANGED << tableVars, templateVars, segment, cc_head, rowVars, fileVars, file >>

(* What a store behind `results' can do to the row.  The block behind it   *)
(* is the first cell the row has emitted: its type decides whether it goes *)
(* to the file as its own word or as "in the vector".                      *)
Spilled(row) ==
  IF row = << >> THEN {row}
  ELSE {[row EXCEPT ![1] = w] : w \in {row[1], InVector} \cup Garbage}

(* Before any cell was emitted it is the first cell of the alternative,    *)
(* which a cleared type turns into a static one.                           *)
SpilledStack(expansion) ==
  {expansion} \cup {[expansion EXCEPT ![1] = StaticCell(w)] : w \in Garbage}

(* The slots of tags that became known are cleared. *)
Cleared == [i \in Slots |-> IF i >= old_num_uniq_tags THEN 0 ELSE results[i]]
ClearsBehind == num_uniq_tags # old_num_uniq_tags /\ num_uniq_tags > capacity

(* The cells of the alternative take the place of the DC cell. *)
SpliceDc ==
  LET expansion == compiled[Alternative(Head(stack).dc, p13n)] IN
  /\ AtCell({"dc"})
  /\ Alternative(Head(stack).dc, p13n) \in DOMAIN compiled
  /\ expansion # << >>
  /\ results' = Cleared
  /\ old_num_uniq_tags' = num_uniq_tags
  /\ IF ClearsBehind
       THEN /\ overrun' = TRUE
            /\ cells' \in Spilled(cells)
            /\ \E e \in IF cells = << >> THEN SpilledStack(expansion) ELSE {expansion} :
                 stack' = e \o Tail(stack)
       ELSE /\ UNCHANGED << overrun, cells >>
            /\ stack' = expansion \o Tail(stack)
  /\ UNCHANGED << tableVars, pc, templateVars, compileVars, p13n, capacity, vector,
                  fileVars, file >>

(* An alternative without cells has no tail to hang the rest on: the code  *)
(* follows a null pointer.                                                 *)
SpliceNothing ==
  /\ AtCell({"dc"})
  /\ Alternative(Head(stack).dc, p13n) \in DOMAIN compiled
  /\ compiled[Alternative(Head(stack).dc, p13n)] = << >>
  /\ pc' = "crashed"
  /\ UNCHANGED << tableVars, templateVars, compileVars, rowVars, fileVars, file >>

(* A fault for the checks to find: static words go to the vector too. *)
VectorOfAll(w) == Append(vector, w)

(* The word goes to the row: static ones to the cells, others to the       *)
(* vector, with the place held in the cells.                               *)
EmittedCells(w) ==
  Append(cells, IF Head(stack).type = "static" THEN w ELSE InVector)
EmittedVector(w) ==
  IF Head(stack).type = "static" THEN vector ELSE Append(vector, w)
Emit(w) == cells' = EmittedCells(w) /\ vector' = EmittedVector(w)

EmitStatic ==
  /\ AtCell({"static"})
  /\ Emit(Head(stack).offset)
  /\ stack' = Tail(stack)
  /\ UNCHANGED << tableVars, pc, templateVars, compileVars, p13n, slotVars, overrun,
                  fileVars, file >>

(* A tag of the row that was done before keeps its pointer. *)
EmitKnown ==
  LET slot == Head(stack).value_index IN
  /\ AtCell({"p13n", "dt"})
  /\ results[slot] # 0
  /\ Emit(results[slot])
  /\ stack' = Tail(stack)
  /\ UNCHANGED << tableVars, pc, templateVars, compileVars, p13n, slotVars, overrun,
                  fileVars, file >>

(* The string of a tag for the row. *)
ValueOf(cell) ==
  IF cell.type = "p13n" THEN p13n[cell.p13n] ELSE Exec[cell.exp][p13n]

(* Any other tag goes to the string table, and its pointer to its slot. *)
EmitValue ==
  LET cell == Head(stack)
      word == ST!Pointer(ValueOf(cell)) IN
  /\ AtCell({"p13n", "dt"})
  /\ results[cell.value_index] = 0
  /\ ValueOf(cell) # NoValue
  /\ ST!AddString(ValueOf(cell))
  /\ results' = [results EXCEPT ![cell.value_index] = word]
  /\ IF cell.value_index >= capacity
       THEN /\ overrun' = TRUE
            /\ cells' \in Spilled(EmittedCells(word))
            /\ vector' \in {vector, EmittedVector(word)}
       ELSE UNCHANGED overrun /\ Emit(word)
  /\ stack' = Tail(stack)
  /\ UNCHANGED << pc, templateVars, compileVars, p13n, capacity, old_num_uniq_tags,
                  fileVars, file >>

(* A transform that refuses yields NULL, whose length the code asks for. *)
EmitNull ==
  /\ AtCell({"dt"})
  /\ results[Head(stack).value_index] = 0
  /\ ValueOf(Head(stack)) = NoValue
  /\ pc' = "crashed"
  /\ UNCHANGED << tableVars, templateVars, compileVars, rowVars, fileVars, file >>

(* Behind `results' the clearing and the store can also hit the pointers   *)
(* that link a row's cells, or leave the buffer of the arena: the program  *)
(* is killed, or in a state of which nothing can be said.                  *)
OverrunCrashes ==
  /\ \/ AtCell({"dc"}) /\ Alternative(Head(stack).dc, p13n) \in DOMAIN compiled /\ ClearsBehind
     \/ AtCell({"p13n", "dt"}) /\ results[Head(stack).value_index] = 0
                               /\ Head(stack).value_index >= capacity
  /\ pc' = "crashed" /\ overrun' = TRUE
  /\ UNCHANGED << tableVars, templateVars, compileVars, p13n, stack, slotVars, cells,
                  vector, fileVars, file >>

-----------------------------------------------------------------------------
(* Faults for the checks to find: a record that counts all its cells as    *)
(* dynamic, and one with its counts the wrong way round.                   *)
UcCountsAll == << Len(cells), Len(cells) >> \o cells
UcSwapped == << Len(vector), Len(cells) >> \o cells

(* frf_maker_add_uniq_vector, and the end of frf_maker_add: rows with the  *)
(* same cells share one record.                                            *)
UniqKnown == cells \in DOMAIN uniq_cells_lookup
UniqOffset == IF UniqKnown THEN uniq_cells_lookup[cells] ELSE unique_cells_written
UcAdded == << Len(cells), Len(vector) >> \o cells

FinishRow ==
  /\ pc = "row" /\ stack = << >>
  /\ pc' = "idle"
  /\ uniq_cells_lookup' = ST!Put(uniq_cells_lookup, cells, UniqOffset)
  /\ IF UniqKnown
       THEN UNCHANGED << uc, unique_cells_written >>
       ELSE /\ uc' = uc \o UcAdded
            /\ unique_cells_written' = Add32(unique_cells_written, 4 * Len(UcAdded))
  /\ v' = v \o << UniqOffset >> \o vector
  /\ vector_written' = Add32(vector_written, 4 * (Len(vector) + 1))
  /\ num_rows' = Add32(num_rows, 1)
  /\ answers' = Append(answers, [offset |-> AsInt(vector_written), row |-> p13n,
                                 overrun |-> overrun])
  /\ UNCHANGED << tableVars, templateVars, compileVars, rowVars, file >>

(* A fault for the checks to find: the counter's head start is forgotten. *)
HeaderUncorrected ==
  [rows |-> num_rows,
   st   |-> 16,
   uc   |-> Add32(16, string_table_written),
   v    |-> Add32(16, string_table_written + unique_cells_written)]

(* frf_maker_finish: the header tells where the sections start once the    *)
(* pieces are put together.                                                *)
HeaderWords ==
  [rows |-> num_rows,
   st   |-> 16,
   uc   |-> Add32(16, string_table_written - 1),
   v    |-> Add32(16, string_table_written - 1 + unique_cells_written)]

(* Where the sections really start, in a file that may be larger than a    *)
(* word of its header can say.                                             *)
TrueStarts == << 16, 16 + table_size, 16 + table_size + 4 * Len(uc) >>
HeaderLeads ==
  file.state = "whole" /\ << file.header.st, file.header.uc, file.header.v >> = TrueStarts

(* The sections as they stand. *)
Sections == [table |-> table, uc |-> uc, v |-> v]

(* `cat' puts the file together; when it fails, on a full disk say, nobody *)
(* looks, and the pieces are removed all the same.                         *)
Finish ==
  /\ pc = "idle"
  /\ pc' = "finished"
  /\ \/ file' = [state |-> "whole", header |-> HeaderWords, sections |-> Sections]
     \/ file' = Torn
  /\ UNCHANGED << tableVars, templateVars, compileVars, rowVars, fileVars >>

(* A finished maker does no more, and neither does one that is gone. *)
Stopped == pc \in {"finished", "crashed", "exited"} /\ UNCHANGED vars

Step ==
  /\ \/ PrecompileText \/ PrecompileKnownTag \/ PrecompileNewTag
     \/ PrecompileUnknownTag \/ PrecompileExits \/ PrecompileEnd
     \/ CompileDc \/ SpliceDc \/ SpliceNothing
     \/ EmitStatic \/ EmitKnown \/ EmitValue \/ EmitNull
     \/ OverrunCrashes \/ FinishRow
  /\ UNCHANGED content

Next ==
  \/ Step
  \/ UNCHANGED content /\ \E p \in Rows : BeginAdd(p)
  \/ UNCHANGED content /\ Finish
  \/ Stopped

(* A call that has begun runs on: there is one thread and nothing blocks. *)
Spec == Init /\ [][Next]_vars /\ WF_vars(Step)

-----------------------------------------------------------------------------
(* The variables keep their types. *)
Cell ==
  [type : {"static"}, offset : Word]
  \cup [type : {"p13n"}, p13n : {FieldOf[k] : k \in DOMAIN FieldOf}, value_index : Slots]
  \cup [type : {"dc"}, dc : DOMAIN Dc, value_index : Slots]
  \cup [type : {"dt"}, exp : DtKeys, value_index : Slots]

TypeOK ==
  /\ ST!TypeOK
  /\ pc \in {"precompile", "idle", "row", "finished", "crashed", "exited"}
  /\ content \in Bodies
  /\ DOMAIN compiled \subseteq Contents /\ \A c \in DOMAIN compiled : compiled[c] \in Seq(Cell)
  /\ DOMAIN tag_lookup \subseteq Meaningful /\ \A k \in DOMAIN tag_lookup : tag_lookup[k] \in Cell
  /\ num_uniq_tags = Cardinality(DOMAIN tag_lookup)
  /\ compiling \in Contents \cup {NoContent} /\ segment \in Nat \ {0} /\ cc_head \in Seq(Cell)
  /\ (pc = "row" => p13n \in Rows) /\ stack \in Seq(Cell) /\ results \in [Slots -> Word]
  /\ capacity \in Nat /\ old_num_uniq_tags \in 0 .. num_uniq_tags
  /\ cells \in Seq(Word) /\ vector \in Seq(Word) /\ overrun \in BOOLEAN
  /\ \A k \in DOMAIN uniq_cells_lookup : k \in Seq(Word) /\ uniq_cells_lookup[k] \in Word
  /\ uc \in Seq(Nat) /\ unique_cells_written \in Word
  /\ v \in Seq(Word) /\ vector_written \in Word
  /\ num_rows \in Word
  /\ answers \in Seq([offset : -Half .. Half - 1, row : Rows, overrun : BOOLEAN])

(* Two tags never share a slot of `results': a row would show one where    *)
(* the other belongs.                                                      *)
SlotsDistinct ==
  \A k, l \in DOMAIN tag_lookup :
    tag_lookup[k].value_index = tag_lookup[l].value_index => k = l

(* Some row touched what lies behind its `results'. *)
Overran == overrun \/ \E i \in DOMAIN answers : answers[i].overrun

(* What is written so far fits what counts it: the table, the unique cells *)
(* and the vectors are each below 4 GiB.                                   *)
TableFits == table_size + 1 < 2 * Half
UcFits == 4 * Len(uc) < 2 * Half
VFits == 4 * Len(v) < 2 * Half

(* Every record of unique cells lies where the lookup says, states its     *)
(* size, and states as many cells of the vector as it leaves open, until a *)
(* row touches what lies behind its `results' or a counter wraps.  Rows    *)
(* that share the record rely on that number to be stepped over.           *)
UniqueCellsSound ==
  ~Overran /\ TableFits /\ UcFits =>
    \A k \in DOMAIN uniq_cells_lookup :
      LET at == uniq_cells_lookup[k] \div 4 IN
      SubSeq(uc, at + 1, at + 2 + Len(k)) =
        << Len(k), Cardinality({i \in DOMAIN k : k[i] = InVector}) >> \o k

(* Stepping through the vectors the way frf_next does, from the first row  *)
(* on, visits exactly the offsets frf_maker_add returned, and ends at the  *)
(* end of the file, until a row touches what lies behind its `results' or  *)
(* a counter wraps.  A row that was begun and not ended leaves no trace.   *)
RowsInStep ==
  ~Overran /\ TableFits /\ UcFits /\ VFits =>
  LET row(i) == (answers[i].offset % (2 * Half)) \div 4
      next(i) == row(i) + ToSkip(Sections, row(i)) IN
  /\ answers = << >> => v = << >>
  /\ answers # << >> => row(1) = 0 /\ next(Len(answers)) = Len(v)
  /\ \A i \in 1 .. Len(answers) - 1 : row(i + 1) = next(i)

(* ASSERT_INDEX holds of every word on its way to the file: the asserts of *)
(* frf_maker.c lines 226, 562, 793 and 821.                                *)
AssertIndexHolds ==
  \A w \in {cells[i] : i \in DOMAIN cells} \cup {vector[i] : i \in DOMAIN vector} :
    AssertIndex(w, string_table_written)

(* The header of a finished file points at the sections that follow it,    *)
(* as long as they start below 4 GiB, and has the number of the rows.      *)
HeaderExact ==
  file.state = "whole" =>
    LET s == file.sections
        uc_at == 16 + table_size
        v_at == uc_at + 4 * Len(s.uc) IN
    /\ Len(answers) < 2 * Half => file.header.rows = Len(answers)
    /\ v_at < 2 * Half =>
         file.header.st = 16 /\ file.header.uc = uc_at /\ file.header.v = v_at

(* They hold in a row that touches nothing behind its `results', whatever  *)
(* the rows before it did, as long as the table's counter does not wrap.   *)
IndexesSound == ~overrun /\ TableFits => AssertIndexHolds
=============================================================================
