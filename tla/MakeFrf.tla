------------------------------ MODULE MakeFrf ------------------------------
(***************************************************************************)
(* The program make_frf (make_frf.c), one run after another: it cuts the   *)
(* lines of a personalization file into fields, adds a row for each, notes *)
(* the offset of the row in an index under a field of the line, has `cat'  *)
(* put the file together from its pieces (frf_maker_finish), and renames   *)
(* the index into place.  A run can be killed between any two steps, and   *)
(* the next one finds what it left; the `cat' of a killed run may go on    *)
(* without it, and beside the next one.  Meanwhile a reader (frf_init in   *)
(* frf.c) maps the file, whatever state it is in, and steps through it.    *)
(*                                                                         *)
(* The maker is taken by its promise here: frf_maker_add puts the row      *)
(* behind the ones before it and returns its offset as an int (FrfStore    *)
(* has the promise, FrfRendering shows that FrfMaker keeps it).            *)
(*                                                                         *)
(* The file is a sequence of chunks: the header, the string table, the     *)
(* unique cells, and the vector of each row.  `torn' says that a part of   *)
(* the next chunk is there, too.                                           *)
(***************************************************************************)
EXTENDS Integers, Sequences, FiniteSets, SequencesExt

CONSTANTS
  Texts,       (* The strings a field can be.                              *)
  Inputs,      (* The personalization files: sequences of lines, each      *)
               (* [fields, newline].                                       *)
  Cut,         (* A string without its last byte,                          *)
  Empty,       (* and the one that has none.                               *)
  Options,     (* Command lines: [argc, make_cdb], the latter a number of  *)
  NoCdb,       (* a field or NoCdb.                                        *)
  NumFields,   (* How many fields the content file names; rows use all.    *)
  MaxFields,   (* 100: how many pointers there is room for.                *)
  VectorWords, (* The words a row takes in the vectors, by its first field.*)
  Half,        (* 2^31.                                                    *)
  Stale,       (* Strings a pointer into an earlier line may lead to.      *)
  MaxRuns      (* Bound: how often make_frf is run.                        *)

Field == 0 .. NumFields - 1

ASSUME MakeFrfAssumption ==
  /\ NumFields \in Nat \ {0} /\ Half \in Nat \ {0} /\ MaxRuns \in Nat
  /\ MaxFields \in Nat
  /\ Inputs \subseteq Seq([fields : Seq(Texts) \ {<< >>}, newline : BOOLEAN])
  /\ Cut \in [Texts -> Texts] /\ Empty \in Texts /\ Stale \subseteq Texts
  /\ Options \subseteq [argc : Nat, make_cdb : Int \cup {NoCdb}]
  /\ VectorWords \in [Texts -> Nat]

VARIABLES
  out,      (* The frf file: [gen, parts, torn], or Absent.                *)
  temp,     (* The temporary index, and the index: [gen, recs, done] and   *)
  index,    (* whether it may be written, or Absent.                       *)
  orphans,  (* Killed runs whose `cat' goes on, and whether one of them    *)
  mixed,    (* wrote to the file of a later run, or from its pieces.       *)
  run,      (* How many runs there were.                                   *)
  pc,       (* Where main is.                                              *)
  input, option,
  line,     (* The number of the line getline put into the buffer.         *)
  p13n,     (* Pointers into the buffer, [line, field],                    *)
  key,      (* and the one that is the key.                                *)
  value,    (* What frf_maker_add returned.                                *)
  rows,     (* The vectors: chunks with where each starts, in words.       *)
  vector_written,
  cdb_fd,   (* "open", "failed", or "none".                                *)
  recs,     (* The records given to the index.                             *)
  failed,   (* `cat' gave up on this run.                                  *)
  made,     (* History: the rows of each run.                              *)
  mapped,   (* What the reader mapped: [gen, len, torn, row].              *)
  seen      (* History: the rows it read: [gen, n, row].                   *)

orphanVars == << orphans, mixed >>
diskVars == << out, temp, index, orphanVars >>
lineVars == << line, p13n, key, value >>
makerVars == << rows, vector_written, made >>
cdbVars == << cdb_fd, recs >>
startVars == << run, input, option >>
readerVars == << mapped, seen >>
vars == << diskVars, startVars, pc, lineVars, makerVars, cdbVars, failed, readerVars >>

Absent == [gen |-> 0]
Unset == [line |-> 0, field |-> 0]
Unmapped == [gen |-> 0]
Lost == [gen |-> -1]
Torn == << "torn" >>
Garbled == << "garbled" >>

Init ==
  /\ out = Absent /\ temp = Absent /\ index = Absent
  /\ orphans = {} /\ mixed = FALSE
  /\ run = 0 /\ pc = "down" /\ input = << >> /\ option = [argc |-> 0, make_cdb |-> NoCdb]
  /\ line = 0 /\ p13n = [i \in Field |-> Unset] /\ key = Unset /\ value = 0
  /\ rows = << >> /\ vector_written = 0 /\ made = << >>
  /\ cdb_fd = "none" /\ recs = << >>
  /\ failed = FALSE
  /\ mapped = Unmapped /\ seen = {}

Wanted == option.make_cdb # NoCdb

-----------------------------------------------------------------------------
(* The temporary index is opened without O_TRUNC: one that a killed run    *)
(* left stays as it is until it is written over.  It is made without a     *)
(* mode, so that it may come out as a file nobody can write to; then the   *)
(* next open fails, and everything that is done with it after that.        *)
OpenTemp ==
  IF option'.make_cdb = NoCdb THEN cdb_fd' = "none" /\ UNCHANGED temp
  ELSE IF temp = Absent
    THEN /\ cdb_fd' = "open"
         /\ \E w \in BOOLEAN :
              temp' = [gen |-> run + 1, recs |-> << >>, done |-> FALSE, writable |-> w]
    ELSE cdb_fd' = (IF temp.writable THEN "open" ELSE "failed") /\ UNCHANGED temp

(* main up to its loop: the maker is made, whose pieces start out empty,   *)
(* and nothing that is local to main is set.                               *)
Start ==
  /\ pc \in {"down", "done"} /\ run < MaxRuns
  /\ run' = run + 1 /\ pc' = "read"
  /\ input' \in Inputs /\ option' \in Options
  /\ line' = 0 /\ p13n' = [i \in Field |-> Unset] /\ key' = Unset /\ value' = 0
  /\ rows' = << >> /\ vector_written' = 0 /\ made' = Append(made, << >>)
  /\ OpenTemp /\ recs' = << >>
  /\ failed' = FALSE
  /\ UNCHANGED << out, index, orphanVars, readerVars >>

(* The fields of a line once its last byte is gone, be it a newline or     *)
(* not; behind a last tab it takes the empty field with it.                *)
FieldsOf(l) ==
  IF l.newline THEN l.fields
  ELSE IF Last(l.fields) = Empty THEN Front(l.fields)
  ELSE Append(Front(l.fields), Cut[Last(l.fields)])

Fields == FieldsOf(input[line])

(* A fault for the checks to find: the field behind the last tab is left.  *)
PointersButLast(fields) ==
  [i \in Field |->
     IF i + 1 < Len(fields) THEN [line |-> line + 1, field |-> i + 1] ELSE p13n[i]]

(* A line with fewer fields leaves the other pointers as they were. *)
Pointers(fields) ==
  [i \in Field |->
     IF i < Len(fields) THEN [line |-> line + 1, field |-> i + 1] ELSE p13n[i]]

(* A fault for the checks to find: fields are counted from one.            *)
KeyFromOne(fields) ==
  IF option.argc = 5 /\ option.make_cdb \in 1 .. Len(fields) - 1
    THEN [line |-> line + 1, field |-> option.make_cdb] ELSE key

(* The key is looked for among the fields a tab follows, and only when     *)
(* there are four arguments.                                               *)
KeyPointer(fields) ==
  IF option.argc = 5 /\ option.make_cdb \in 0 .. Len(fields) - 2
    THEN [line |-> line + 1, field |-> option.make_cdb + 1] ELSE key

ReadLine ==
  /\ pc = "read" /\ line < Len(input)
  /\ LET fields == FieldsOf(input[line + 1]) IN
       /\ Len(fields) <= MaxFields
       /\ p13n' = Pointers(fields) /\ key' = KeyPointer(fields)
  /\ line' = line + 1
  /\ pc' = "add"
  /\ UNCHANGED << diskVars, startVars, value, makerVars, cdbVars, failed, readerVars >>

(* The pointers to the fields of a line go beyond the end of p13n, over    *)
(* what else main has on its stack; that is the end of it.                 *)
TooManyFields ==
  /\ pc = "read" /\ line < Len(input)
  /\ Len(FieldsOf(input[line + 1])) > MaxFields
  /\ pc' = "down"
  /\ UNCHANGED << diskVars, startVars, lineVars, makerVars, cdbVars, failed, readerVars >>

(* What is found behind a pointer: the buffer holds another line by now,   *)
(* if it was not moved.                                                    *)
Found(ptr) == IF ptr.line = line THEN {Fields[ptr.field]} ELSE Stale

Dangling(ptrs) == \E ptr \in ptrs : ptr.line # line

AsInt(w) == IF w >= Half THEN w - 2 * Half ELSE w

(* Where the vectors end in the file, however far that is. *)
VectorEnd ==
  IF rows = << >> THEN 0 ELSE Last(rows).at + VectorWords[Last(rows).row[0]]

(* frf_maker_add: the row goes behind the others, and the counter, which   *)
(* has 32 bits, on by its bytes.                                           *)
AddRow ==
  /\ pc = "add"
  /\ \E row \in [Field -> UNION {Found(p13n[i]) : i \in Field}] :
       /\ \A i \in Field : row[i] \in Found(p13n[i])
       /\ rows' = Append(rows, [part |-> "v", row |-> row, at |-> VectorEnd])
       /\ made' = [made EXCEPT ![run] = Append(@, row)]
       /\ vector_written' = (vector_written + 4 * VectorWords[row[0]]) % (2 * Half)
  /\ value' = AsInt(vector_written)
  /\ pc' = IF Wanted THEN "index" ELSE "read"
  /\ UNCHANGED << diskVars, startVars, line, p13n, key, cdbVars, failed, readerVars >>

(* "%d" on the way to the index, and atoi on the way back (render.c). *)
Printed(n) == [minus |-> n < 0, digits |-> IF n < 0 THEN -n ELSE n]
Atoi(text) == IF text.minus THEN -text.digits ELSE text.digits

(* A fault for the checks to find: the sign is not read back.              *)
SeekDigits(text) == text.digits \div 4

(* Where frf_seek puts the row pointer, in words: its offset is unsigned.  *)
SeekTo(text) == (Atoi(text) % (2 * Half)) \div 4

(* cdb_make_add: key and offset. *)
IndexRow ==
  /\ pc = "index"
  /\ \E k \in Found(key) :
       recs' = Append(recs, [key |-> k, value |-> Printed(value), line |-> line])
  /\ pc' = "read"
  /\ UNCHANGED << diskVars, startVars, lineVars, makerVars, cdb_fd, failed, readerVars >>

(* A pointer nobody set, or into a buffer that moved, kills the program. *)
DanglingKills ==
  /\ \/ pc = "add" /\ Dangling({p13n[i] : i \in Field})
     \/ pc = "index" /\ Dangling({key})
  /\ pc' = "down"
  /\ UNCHANGED << diskVars, startVars, lineVars, makerVars, cdbVars, failed, readerVars >>

-----------------------------------------------------------------------------
(* Faults for the checks to find: the index is put in place first, and     *)
(* the vectors go before the unique cells.                                 *)
IndexFirst ==
  IF Wanted THEN << "read", "cdb_finish", "rename", "finish", "cat", "done" >>
  ELSE << "read", "finish", "cat", "done" >>
CatSwapped == << "h", "st", "v", "uc" >>

(* What main does once the input is at its end. *)
Course ==
  IF Wanted THEN << "read", "finish", "cat", "cdb_finish", "rename", "done" >>
  ELSE << "read", "finish", "cat", "done" >>

GoOn == pc' = Course[1 + CHOOSE i \in DOMAIN Course : Course[i] = pc]

(* The pieces in the order `cat' is given them. *)
CatOrder == << "h", "st", "uc", "v" >>
Piece(part) == IF part = "v" THEN rows ELSE << [part |-> part] >>
Whole == Piece(CatOrder[1]) \o Piece(CatOrder[2]) \o Piece(CatOrder[3]) \o Piece(CatOrder[4])

EndOfInput ==
  /\ pc = "read" /\ line = Len(input)
  /\ GoOn
  /\ UNCHANGED << diskVars, startVars, lineVars, makerVars, cdbVars, failed, readerVars >>

(* frf_maker_finish: the header is written and the pieces are closed.  The *)
(* shell empties the file, the same one that readers may have mapped...    *)
Finish ==
  /\ pc = "finish"
  /\ out' = [gen |-> run, parts |-> << >>, torn |-> FALSE]
  /\ mixed' = FALSE
  /\ GoOn
  /\ UNCHANGED << temp, index, orphans, startVars, lineVars, makerVars, cdbVars, failed,
                  readerVars >>

(* ...and `cat' fills it, a block at a time; the header goes at once. *)
Copy ==
  /\ out.parts # Whole
  /\ LET next == Append(out.parts, Whole[Len(out.parts) + 1]) IN
     \/ out' = [out EXCEPT !.parts = next, !.torn = FALSE]
     \/ out.parts # << >> /\ ~out.torn /\ out' = [out EXCEPT !.torn = TRUE]
  /\ UNCHANGED << temp, index, orphanVars, startVars, pc, lineVars, makerVars, cdbVars,
                  failed, readerVars >>

Cat == pc = "cat" /\ Copy

(* It comes to an end, or fails; either way the pieces are removed and the *)
(* program goes on.                                                        *)
CatEnds ==
  /\ pc = "cat"
  /\ failed' = (out.parts # Whole)
  /\ GoOn
  /\ UNCHANGED << diskVars, startVars, lineVars, makerVars, cdbVars, readerVars >>

(* cdb_make_finish: the header of the index comes last, and makes it one   *)
(* of the records of this run, whatever else is in the file.               *)
CdbFinish ==
  /\ pc = "cdb_finish"
  /\ IF cdb_fd = "open"
       THEN temp' = [temp EXCEPT !.gen = run, !.recs = recs, !.done = TRUE]
       ELSE UNCHANGED temp
  /\ GoOn
  /\ UNCHANGED << out, index, orphanVars, startVars, lineVars, makerVars, cdbVars, failed,
                  readerVars >>

(* rename, and the end of main. *)
Rename ==
  /\ pc = "rename"
  /\ index' = temp /\ temp' = Absent
  /\ GoOn
  /\ UNCHANGED << out, orphanVars, startVars, lineVars, makerVars, cdbVars, failed,
                  readerVars >>

(* The program is killed.  Of the index, what was in its buffer is lost,   *)
(* and the rest has no header.  `cat' is a process of its own: it may be   *)
(* killed with it or not.                                                  *)
Crash ==
  /\ pc \notin {"down", "done"}
  /\ pc' = "down"
  /\ \/ UNCHANGED temp
     \/ /\ cdb_fd = "open" /\ temp # Absent /\ pc # "rename"
        /\ temp' = [temp EXCEPT !.gen = run, !.recs = recs, !.done = FALSE]
  /\ \/ UNCHANGED orphans
     \/ pc = "cat" /\ orphans' = orphans \cup {run}
  /\ UNCHANGED << out, index, mixed, startVars, lineVars, makerVars, cdbVars, failed,
                  readerVars >>

(* A `cat' that was left alone goes on as if nothing had happened, until   *)
(* the next run empties the pieces it copies...                            *)
OrphanCat == pc = "down" /\ run \in orphans /\ Copy

(* ...and from then on puts whatever it finds in them where it is in the   *)
(* file, which by then may be another one.                                 *)
OrphanSpoils ==
  /\ (\E r \in orphans : r < run) /\ ~mixed
  /\ mixed' = TRUE
  /\ UNCHANGED << out, temp, index, orphans, startVars, pc, lineVars, makerVars, cdbVars,
                  failed, readerVars >>

(* It comes to its end. *)
OrphanEnds ==
  /\ \E r \in orphans : orphans' = orphans \ {r}
  /\ UNCHANGED << out, temp, index, mixed, startVars, pc, lineVars, makerVars, cdbVars,
                  failed, readerVars >>

-----------------------------------------------------------------------------
(* The reader maps what there is of the file; an empty one cannot be.      *)
Map ==
  /\ mapped = Unmapped /\ out # Absent /\ out.parts # << >>
  /\ mapped' = [gen |-> out.gen, len |-> Len(out.parts), torn |-> out.torn, row |-> 1]
  /\ UNCHANGED << diskVars, startVars, pc, lineVars, makerVars, cdbVars, failed, seen >>

(* The chunk of a row, counted from where the header says the vectors are; *)
(* what is in it must be a vector, and the record it refers to among the   *)
(* unique cells.                                                           *)
VectorBase == 3
Mapping == mapped # Unmapped /\ mapped # Lost
AtEnd == VectorBase + mapped.row > mapped.len + IF mapped.torn THEN 1 ELSE 0

RowSeen ==
  LET i == VectorBase + mapped.row IN
  IF i > mapped.len THEN Torn
  ELSE IF out.parts[i].part = "v" /\ out.parts[VectorBase].part = "uc" THEN out.parts[i].row
  ELSE Garbled

ReadRow ==
  /\ Mapping /\ ~AtEnd /\ out.gen = mapped.gen /\ ~mixed
  /\ seen' = seen \cup {[gen |-> mapped.gen, n |-> mapped.row, row |-> RowSeen]}
  /\ mapped' = [mapped EXCEPT !.row = @ + 1]
  /\ UNCHANGED << diskVars, startVars, pc, lineVars, makerVars, cdbVars, failed >>

(* The mapping is shared: once the file is written again, the reader is    *)
(* killed when the page is gone, or reads whatever is there.               *)
ReadRewritten ==
  /\ Mapping /\ ~AtEnd /\ (out.gen # mapped.gen \/ mixed)
  /\ mapped' = Lost
  /\ UNCHANGED << diskVars, startVars, pc, lineVars, makerVars, cdbVars, failed, seen >>

Stopped == pc \in {"down", "done"} /\ run = MaxRuns /\ UNCHANGED vars

MakeStep ==
  \/ ReadLine \/ TooManyFields \/ AddRow \/ IndexRow \/ DanglingKills \/ EndOfInput
  \/ Finish \/ Cat \/ CatEnds \/ CdbFinish \/ Rename

OrphanStep == OrphanCat \/ OrphanSpoils \/ OrphanEnds

Next ==
  MakeStep \/ Start \/ Crash \/ OrphanStep \/ Map \/ ReadRow \/ ReadRewritten \/ Stopped

Spec == Init /\ [][Next]_vars

-----------------------------------------------------------------------------
(* The variables keep their types. *)
TypeOK ==
  /\ run \in 0 .. MaxRuns /\ Len(made) = run
  /\ pc \in {"down", "add", "index"} \cup {"read", "finish", "cat", "cdb_finish", "rename", "done"}
  /\ input \in Inputs \cup {<< >>} /\ line \in 0 .. Len(input)
  /\ \A i \in Field : p13n[i].line \in 0 .. line
  /\ key.line \in 0 .. line /\ value \in -Half .. Half - 1
  /\ vector_written \in 0 .. 2 * Half - 1 /\ Len(rows) \in {line, line - 1}
  /\ cdb_fd \in {"open", "failed", "none"} /\ Len(recs) <= line
  /\ failed \in BOOLEAN /\ mixed \in BOOLEAN /\ orphans \subseteq 1 .. run
  /\ \A f \in {temp, index} \ {Absent} : f.gen \in 1 .. run /\ f.done \in BOOLEAN
  /\ out # Absent => out.gen \in 1 .. run /\ out.torn \in BOOLEAN

(* An index is never of a later run than the file: whoever looks an offset *)
(* up in an old index may be led astray by a new file, never the other way *)
(* round.  make_frf.c renames the index once the file was put together.    *)
IndexNeverAhead == index # Absent => out # Absent /\ index.gen <= out.gen

(* A run that came to its end, whose `cat' did not fail, which could write *)
(* to its index and was not disturbed by the `cat' of a killed run, leaves *)
(* a file and an index that agree, whatever else killed runs had left:     *)
(* every row has its record, in order, and the offset in it leads to where *)
(* that row is, by way of int, text and unsigned, also beyond 2 GiB.  Rows *)
(* at 4 GiB or beyond are left out: the counter does not reach them.       *)
DoneAgrees ==
  pc = "done" /\ ~failed /\ ~mixed =>
    /\ out.gen = run /\ ~out.torn
    /\ {out.parts[i] : i \in DOMAIN out.parts} \ {[part |-> p] : p \in {"h", "st", "uc"}}
         = {rows[i] : i \in DOMAIN rows}
    /\ cdb_fd = "open" =>
         /\ index.gen = run /\ index.done /\ Len(index.recs) = Len(input)
         /\ \A n \in DOMAIN input :
              out.parts[VectorBase + n].at = SeekTo(index.recs[n].value)
                \/ 4 * rows[n].at >= 2 * Half

(* The n-th row has the fields of the n-th line, as far as the line has    *)
(* them: only the last field of a last line without a newline may be cut,  *)
(* and only fields a line is short of may come from an earlier one.        *)
FieldsOwn ==
  \A n \in DOMAIN rows : \A i \in Field :
    i + 1 < Len(input[n].fields) \/ (i + 1 = Len(input[n].fields) /\ input[n].newline)
    => rows[n].row[i] = input[n].fields[i + 1]

(* With four arguments, a field that some tab follows is a sound key: the  *)
(* record of every line that has it is under that field of that line.      *)
KeysOwn ==
  \A n \in DOMAIN recs :
    /\ option.argc = 5
    /\ option.make_cdb + 1 \in 1 .. Len(input[n].fields) - 1
    /\ input[n].newline \/ Last(input[n].fields) # Empty
    => recs[n].key = input[n].fields[option.make_cdb + 1]

(* A reader that maps the file while `cat' still fills it sees a prefix of *)
(* the rows and at most one torn row behind them, until the file is        *)
(* written again by another run or a `cat' left from one: the sections     *)
(* come in the order in which they refer to each other backwards.          *)
MappedSeesPrefix ==
  \A s \in seen :
    \/ s.row = Torn /\ \A t \in seen : t.n <= s.n
    \/ s.n \in DOMAIN made[s.gen] /\ s.row = made[s.gen][s.n]

(* make_frf.c 26 says of --make_cdb: "make a cdb off of the given field    *)
(* from p13n".  So the record of a line that has the field is under it.    *)
CdbOffTheGivenField ==
  \A n \in DOMAIN recs :
    option.make_cdb + 1 \in DOMAIN FieldsOf(input[n])
    => recs[n].key = FieldsOf(input[n])[option.make_cdb + 1]
=============================================================================
