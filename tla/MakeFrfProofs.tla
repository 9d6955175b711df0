--------------------------- MODULE MakeFrfProofs ---------------------------
(***************************************************************************)
(* The index is never of a later run than the file, for every input, every *)
(* command line and every number of runs, wherever they are killed.  The   *)
(* rows it adds have the fields of their lines, and the records their keys.*)
(***************************************************************************)
EXTENDS MakeFrf, TLAPS

(* Once the shell has emptied the file, `cat' fills it: that of the run at *)
(* hand, or the one it left when it was killed.                            *)
Late == {"cat", "cdb_finish", "rename"}
Putting == pc \in Late \/ (pc = "down" /\ run \in orphans)
Copying == Cat \/ OrphanCat

(* The file is of a run that was started... *)
OutOfARun ==
  /\ run \in Nat
  /\ pc # "down" => run >= 1 /\ run \notin orphans
  /\ orphans \subseteq 1 .. run
  /\ out # Absent => "gen" \in DOMAIN out /\ out.gen \in 1 .. run

(* ...and so are the index and the temporary one, if they are there. *)
IndexOfARun ==
  /\ "gen" \in DOMAIN temp /\ temp.gen \in 0 .. run
  /\ index.gen \in 0 .. run

(* From the moment the shell has emptied the file it is of this run. *)
OutIsNew == Putting => out # Absent /\ out.gen = run

OrderInv == OutOfARun /\ IndexOfARun /\ OutIsNew /\ IndexNeverAhead

-----------------------------------------------------------------------------
(* What main does next, index or no index. *)
LEMMA CourseGoesOn ==
  ASSUME GoOn
  PROVE  /\ pc = "read" => pc' = "finish"
         /\ pc = "finish" => pc' = "cat"
         /\ pc = "cat" => pc' = IF Wanted THEN "cdb_finish" ELSE "done"
         /\ Wanted /\ pc = "cdb_finish" => pc' = "rename"
         /\ Wanted /\ pc = "rename" => pc' = "done"
<1> DEFINE at == CHOOSE i \in DOMAIN Course : Course[i] = pc
<1>1. pc' = Course[1 + at]
  BY DEF GoOn
<1>2. CASE Wanted
  <2>1. /\ DOMAIN Course = 1 .. 6 /\ Course[1] = "read" /\ Course[2] = "finish"
        /\ Course[3] = "cat" /\ Course[4] = "cdb_finish" /\ Course[5] = "rename"
        /\ Course[6] = "done"
    BY <1>2 DEF Course
  <2>2. \A n \in 1 .. 5 : pc = Course[n] => at = n
    BY <2>1
  <2>. QED
    BY <1>1, <1>2, <2>1, <2>2
<1>3. CASE ~Wanted
  <2>1. /\ DOMAIN Course = 1 .. 4 /\ Course[1] = "read" /\ Course[2] = "finish"
        /\ Course[3] = "cat" /\ Course[4] = "done"
    BY <1>3 DEF Course
  <2>2. \A n \in 1 .. 3 : pc = Course[n] => at = n
    BY <2>1
  <2>. QED
    BY <1>1, <1>3, <2>1, <2>2
<1>. QED
  BY <1>2, <1>3

(* Nothing is there at first. *)
LEMMA OrderInit == Init => OrderInv
  BY DEF Init, OrderInv, OutOfARun, IndexOfARun, OutIsNew, IndexNeverAhead, Absent, Putting,
         Late

(* A new run finds what the ones before it left. *)
LEMMA StartKeepsOrder == OrderInv /\ Start => OrderInv'
<1> SUFFICES ASSUME OrderInv, Start PROVE OrderInv'
  OBVIOUS
<1> USE DEF Start, OrderInv
<1>1. OutOfARun' /\ OutIsNew' /\ IndexNeverAhead'
  BY DEF OutOfARun, OutIsNew, IndexNeverAhead, Absent, Putting, Late, orphanVars
<1>2. IndexOfARun'
  BY DEF OutOfARun, IndexOfARun, OpenTemp, Absent
<1>. QED
  BY <1>1, <1>2

(* The file is emptied, and of this run from now on. *)
LEMMA FinishKeepsOrder == OrderInv /\ Finish => OrderInv'
<1> SUFFICES ASSUME OrderInv, Finish PROVE OrderInv'
  OBVIOUS
<1>1. /\ run >= 1 /\ run' = run /\ temp' = temp /\ index' = index /\ orphans' = orphans
      /\ run \notin orphans
  BY DEF Finish, startVars, OrderInv, OutOfARun
<1>2. out' # Absent /\ "gen" \in DOMAIN out' /\ out'.gen = run
  BY <1>1 DEF Finish, Absent, OrderInv, OutOfARun
<1>3. OutOfARun' /\ OutIsNew'
  BY <1>1, <1>2 DEF OrderInv, OutOfARun, OutIsNew
<1>4. IndexOfARun' /\ IndexNeverAhead'
  BY <1>1, <1>2 DEF OrderInv, OutOfARun, IndexOfARun, IndexNeverAhead
<1>. QED
  BY <1>3, <1>4 DEF OrderInv

(* `cat' adds to the file, which stays the one it is. *)
LEMMA CopyKeepsOrder == OrderInv /\ Copying => OrderInv'
<1> SUFFICES ASSUME OrderInv, Copying PROVE OrderInv'
  OBVIOUS
<1>1. /\ run' = run /\ temp' = temp /\ index' = index /\ pc' = pc /\ orphans' = orphans
      /\ Putting /\ Copy
  BY DEF Copying, Cat, OrphanCat, Copy, startVars, orphanVars, Putting, Late
<1>2. out # Absent /\ "gen" \in DOMAIN out /\ out.gen = run /\ run >= 1
  BY <1>1 DEF OrderInv, OutOfARun, OutIsNew
<1>3. "gen" \in DOMAIN out' /\ out'.gen = out.gen
  BY <1>1, <1>2 DEF Copy
<1>4. out' # Absent
  BY <1>2, <1>3 DEF Absent, OrderInv, OutOfARun
<1>. QED
  BY <1>1, <1>2, <1>3, <1>4
     DEF OrderInv, OutOfARun, IndexOfARun, OutIsNew, IndexNeverAhead, Putting

(* The index gets its header, and the file is left alone. *)
LEMMA CdbFinishKeepsOrder == OrderInv /\ CdbFinish => OrderInv'
<1> SUFFICES ASSUME OrderInv, CdbFinish PROVE OrderInv'
  OBVIOUS
<1>1. /\ run' = run /\ out' = out /\ index' = index /\ orphans' = orphans
      /\ out # Absent /\ out.gen = run /\ run >= 1 /\ run \notin orphans
  BY DEF CdbFinish, startVars, orphanVars, OrderInv, OutOfARun, OutIsNew, Putting, Late
<1>2. "gen" \in DOMAIN temp' /\ temp'.gen \in {run, temp.gen}
  BY DEF CdbFinish, OrderInv, IndexOfARun
<1>. QED
  BY <1>1, <1>2 DEF OrderInv, OutOfARun, IndexOfARun, OutIsNew, IndexNeverAhead

(* The index is renamed into place when the file is of this run. *)
LEMMA RenameKeepsOrder == OrderInv /\ Rename => OrderInv'
<1> SUFFICES ASSUME OrderInv, Rename PROVE OrderInv'
  OBVIOUS
<1>1. /\ run' = run /\ out' = out /\ index' = temp /\ temp' = Absent /\ orphans' = orphans
      /\ out # Absent /\ out.gen = run /\ run >= 1 /\ run \notin orphans
  BY DEF Rename, startVars, orphanVars, OrderInv, OutOfARun, OutIsNew, Putting, Late
<1>. QED
  BY <1>1 DEF OrderInv, OutOfARun, IndexOfARun, OutIsNew, IndexNeverAhead, Absent

(* A killed run leaves the file, and of the index what it had written; its *)
(* `cat' goes on only if there was one.                                    *)
LEMMA CrashKeepsOrder == OrderInv /\ Crash => OrderInv'
<1> SUFFICES ASSUME OrderInv, Crash PROVE OrderInv'
  OBVIOUS
<1>1. /\ run' = run /\ out' = out /\ index' = index /\ pc' = "down" /\ run >= 1
      /\ run \notin orphans /\ orphans \subseteq 1 .. run
      /\ orphans' = orphans \/ (pc = "cat" /\ orphans' = orphans \cup {run})
  BY DEF Crash, startVars, OrderInv, OutOfARun
<1>3. OutIsNew'
  BY <1>1 DEF OrderInv, OutIsNew, Putting, Late
<1>4. orphans' \subseteq 1 .. run
  <2>1. run \in Nat
    BY DEF OrderInv, OutOfARun
  <2>2. run \in 1 .. run
    BY <1>1, <2>1
  <2>3. orphans' \subseteq orphans \cup {run}
    BY <1>1
  <2>. QED
    BY <1>1, <2>2, <2>3
<1>2. "gen" \in DOMAIN temp' /\ temp'.gen \in {run, temp.gen}
  BY DEF Crash, OrderInv, IndexOfARun
<1>. QED
  BY <1>1, <1>2, <1>3, <1>4 DEF OrderInv, OutOfARun, IndexOfARun, IndexNeverAhead

(* Whatever leaves the files alone, and does not skip frf_maker_finish,    *)
(* keeps them in order.                                                    *)
LEMMA RestKeepsOrder ==
  ASSUME OrderInv, UNCHANGED << diskVars, run >>,
         pc' # "down" => pc # "down",
         pc' \in Late => pc \in Late
  PROVE  OrderInv'
  BY DEF diskVars, orphanVars, OrderInv, OutOfARun, IndexOfARun, OutIsNew, IndexNeverAhead,
         Putting

(* The other steps of a `cat' that was left alone say nothing of the files.*)
LEMMA OrphansKeepOrder ==
  ASSUME OrderInv, OrphanSpoils \/ OrphanEnds
  PROVE  OrderInv'
<1>1. UNCHANGED << out, temp, index, run, pc >> /\ orphans' \subseteq orphans
  BY DEF OrphanSpoils, OrphanEnds, startVars
<1>. QED
  BY <1>1 DEF OrderInv, OutOfARun, IndexOfARun, OutIsNew, IndexNeverAhead, Putting

(* So do the steps that only read, add rows or look. *)
LEMMA OthersKeepOrder ==
  ASSUME OrderInv,
         \/ ReadLine \/ TooManyFields \/ AddRow \/ IndexRow \/ DanglingKills
         \/ EndOfInput \/ CatEnds \/ Map \/ ReadRow \/ ReadRewritten \/ UNCHANGED vars
  PROVE  OrderInv'
<1>1. UNCHANGED << diskVars, run >>
  BY DEF ReadLine, TooManyFields, AddRow, IndexRow, DanglingKills, EndOfInput, CatEnds, Map,
         ReadRow, ReadRewritten, vars, startVars
<1>2. CASE ReadLine \/ TooManyFields \/ AddRow \/ IndexRow \/ DanglingKills
  <2>1. pc # "down" /\ pc' \in {"add", "index", "read", "down"}
    BY <1>2 DEF ReadLine, TooManyFields, AddRow, IndexRow, DanglingKills
  <2>. QED
    BY <1>1, <2>1, RestKeepsOrder DEF Late
<1>3. CASE EndOfInput
  BY <1>1, <1>3, CourseGoesOn, RestKeepsOrder DEF EndOfInput, Late
<1>4. CASE CatEnds
  BY <1>1, <1>4, RestKeepsOrder DEF CatEnds, Late
<1>5. CASE Map \/ ReadRow \/ ReadRewritten \/ UNCHANGED vars
  <2>1. pc' = pc
    BY <1>5 DEF Map, ReadRow, ReadRewritten, vars
  <2>. QED
    BY <1>1, <2>1, RestKeepsOrder
<1>. QED
  BY <1>2, <1>3, <1>4, <1>5

LEMMA OrderNext == OrderInv /\ [Next]_vars => OrderInv'
  BY StartKeepsOrder, FinishKeepsOrder, CopyKeepsOrder, CdbFinishKeepsOrder,
     RenameKeepsOrder, CrashKeepsOrder, OthersKeepOrder, OrphansKeepOrder
     DEF Next, MakeStep, OrphanStep, Copying, Stopped

(* make_frf.c renames the index once frf_maker_finish has rewritten the    *)
(* file: no index is ever of a later run than the file beside it.          *)
THEOREM IndexNeverAheadHolds == Spec => []IndexNeverAhead
<1>1. OrderInv => IndexNeverAhead
  BY DEF OrderInv
<1>. QED
  BY <1>1, OrderNext, OrderInit, PTL DEF Spec

-----------------------------------------------------------------------------
(* Sequences of whatever there is. *)
IsSeq(s) == \E S : s \in Seq(S)

(* Appending keeps what was there and puts the new element behind it. *)
LEMMA AppendIsSeq ==
  ASSUME NEW s, NEW e, IsSeq(s)
  PROVE  /\ IsSeq(Append(s, e))
         /\ Len(s) \in Nat /\ DOMAIN s = 1 .. Len(s)
         /\ Len(Append(s, e)) = Len(s) + 1
         /\ DOMAIN Append(s, e) = 1 .. Len(s) + 1
         /\ \A i \in 1 .. Len(s) : Append(s, e)[i] = s[i]
         /\ Append(s, e)[Len(s) + 1] = e
<1>1. PICK S : s \in Seq(S)
  BY DEF IsSeq
<1> DEFINE T == S \cup {e}
<1>2. s \in Seq(T) /\ e \in T
  BY <1>1
<1> HIDE DEF T
<1>3. Append(s, e) \in Seq(T)
  BY <1>2
<1>4. IsSeq(Append(s, e))
  BY <1>3 DEF IsSeq
<1>. QED
  BY <1>2, <1>4

(* Two sequences put together, element by element. *)
LEMMA ConcatIsSeq ==
  ASSUME NEW s, NEW t, IsSeq(s), IsSeq(t)
  PROVE  /\ IsSeq(s \o t) /\ Len(s) \in Nat /\ Len(t) \in Nat
         /\ Len(s \o t) = Len(s) + Len(t)
         /\ \A i \in 1 .. Len(s) : (s \o t)[i] = s[i]
         /\ \A i \in 1 .. Len(t) : (s \o t)[Len(s) + i] = t[i]
<1>1. PICK S : s \in Seq(S)
  BY DEF IsSeq
<1>2. PICK R : t \in Seq(R)
  BY DEF IsSeq
<1> DEFINE T == S \cup R
<1>3. s \in Seq(T) /\ t \in Seq(T)
  BY <1>1, <1>2
<1> HIDE DEF T
<1>4. s \o t \in Seq(T)
  BY <1>3
<1>5. IsSeq(s \o t)
  BY <1>4 DEF IsSeq
<1>. QED
  BY <1>3, <1>5

(* Sequences of one length with the same elements are the same. *)
LEMMA SameSeq ==
  ASSUME NEW s, NEW t, IsSeq(s), IsSeq(t), Len(s) = Len(t),
         \A i \in 1 .. Len(s) : s[i] = t[i]
  PROVE  s = t
<1>1. PICK S : s \in Seq(S)
  BY DEF IsSeq
<1>2. PICK R : t \in Seq(R)
  BY DEF IsSeq
<1>. QED
  BY <1>1, <1>2

-----------------------------------------------------------------------------
(* The rows of a run, as history has them, are those that wait to be       *)
(* written, in their order.                                                *)
MadeOK == IsSeq(made) /\ Len(made) = run /\ \A g \in 1 .. run : IsSeq(made[g])

RowsMade ==
  /\ IsSeq(rows)
  /\ run >= 1 =>
       /\ Len(rows) = Len(made[run])
       /\ \A n \in 1 .. Len(rows) : rows[n].part = "v" /\ rows[n].row = made[run][n]

(* What there is of the file: the unique cells third, and behind them the  *)
(* first rows of its run.                                                  *)
OutHoldsRows ==
  out # Absent =>
    /\ "parts" \in DOMAIN out /\ IsSeq(out.parts)
    /\ \A i \in 1 .. Len(out.parts) :
         /\ i = 3 => out.parts[i].part = "uc"
         /\ i > 3 => /\ i - 3 \in 1 .. Len(made[out.gen])
                     /\ out.parts[i].part = "v"
                     /\ out.parts[i].row = made[out.gen][i - 3]

(* Once the shell has emptied it, it is the beginning of the pieces.       *)
OutIsPrefix ==
  Putting =>
    /\ Len(out.parts) <= Len(Whole)
    /\ \A i \in 1 .. Len(out.parts) : out.parts[i] = Whole[i]

(* Until then it is of an earlier run; and there is a temporary index to   *)
(* finish only if one is wanted.                                           *)
Early == {"read", "add", "index", "finish"}
OutIsOld ==
  /\ pc \in Early /\ out # Absent => out.gen < run
  /\ pc \in {"cdb_finish", "rename"} => Wanted

(* The reader mapped no more than there is, and has read what lies before  *)
(* its row; a torn row is the last.                                        *)
MappedOK ==
  Mapping =>
    /\ {"gen", "len", "torn", "row"} \subseteq DOMAIN mapped
    /\ mapped.len \in Nat /\ mapped.row \in Nat /\ mapped.row >= 1
    /\ out # Absent /\ mapped.gen \in 1 .. run /\ mapped.gen <= out.gen
    /\ out.gen = mapped.gen => mapped.len <= Len(out.parts)
SeenOK ==
  /\ mapped = Unmapped => seen = {}
  /\ \A s \in seen :
       /\ s.n \in Nat
       /\ Mapping => s.n < mapped.row
       /\ \/ s.row = Torn /\ (Mapping => AtEnd) /\ \A t \in seen : t.n <= s.n
          \/ /\ s.gen \in 1 .. run
             /\ s.n \in 1 .. Len(made[s.gen]) /\ s.row = made[s.gen][s.n]

FileInv == OrderInv /\ MadeOK /\ RowsMade /\ OutHoldsRows /\ OutIsPrefix /\ OutIsOld
PrefixInv == FileInv /\ MappedOK /\ SeenOK

(* The pieces as `cat' gets them: the unique cells third, the rows behind. *)
LEMMA WholeIs ==
  ASSUME IsSeq(rows)
  PROVE  /\ IsSeq(Whole) /\ Len(rows) \in Nat /\ Len(Whole) = 3 + Len(rows)
         /\ Whole[1] = [part |-> "h"] /\ Whole[2] = [part |-> "st"]
         /\ Whole[3] = [part |-> "uc"]
         /\ \A n \in 1 .. Len(rows) : Whole[3 + n] = rows[n]
<1> DEFINE heads == << [part |-> "h"], [part |-> "st"], [part |-> "uc"] >>
<1>1. Whole = heads \o rows
  BY DEF Whole, CatOrder, Piece
<1>2. /\ Len(heads) = 3 /\ heads[1] = [part |-> "h"] /\ heads[2] = [part |-> "st"]
      /\ heads[3] = [part |-> "uc"]
  OBVIOUS
<1>3. IsSeq(heads)
  <2>1. heads \in Seq({[part |-> "h"], [part |-> "st"], [part |-> "uc"]})
    OBVIOUS
  <2>. QED
    BY <2>1 DEF IsSeq
<1> HIDE DEF heads
<1>4. /\ IsSeq(heads \o rows) /\ Len(rows) \in Nat
      /\ Len(heads \o rows) = Len(heads) + Len(rows)
      /\ \A i \in 1 .. Len(heads) : (heads \o rows)[i] = heads[i]
      /\ \A i \in 1 .. Len(rows) : (heads \o rows)[Len(heads) + i] = rows[i]
  BY <1>3, ConcatIsSeq
<1>. QED
  BY <1>1, <1>2, <1>4

(* A sequence stays one when an element is replaced. *)
LEMMA ExceptIsSeq ==
  ASSUME NEW s, IsSeq(s), NEW i \in 1 .. Len(s), NEW e
  PROVE  IsSeq([s EXCEPT ![i] = e]) /\ Len([s EXCEPT ![i] = e]) = Len(s)
<1>1. PICK S : s \in Seq(S)
  BY DEF IsSeq
<1> DEFINE T == S \cup {e}
<1>2. s \in Seq(T) /\ e \in T
  BY <1>1
<1> HIDE DEF T
<1>3. [s EXCEPT ![i] = e] \in Seq(T) /\ Len([s EXCEPT ![i] = e]) = Len(s)
  BY <1>2
<1>. QED
  BY <1>3 DEF IsSeq

LEMMA PrefixInit == Init => PrefixInv
<1> SUFFICES ASSUME Init PROVE PrefixInv
  OBVIOUS
<1>1. IsSeq(<< >>) /\ Len(<< >>) = 0
  <2>1. << >> \in Seq({})
    OBVIOUS
  <2>. QED
    BY <2>1 DEF IsSeq
<1>2. MadeOK /\ RowsMade
  BY <1>1 DEF Init, MadeOK, RowsMade
<1>3. OutHoldsRows /\ OutIsPrefix /\ OutIsOld /\ MappedOK /\ SeenOK
  BY DEF Init, OutHoldsRows, OutIsPrefix, OutIsOld, Putting, Late, Early, MappedOK, SeenOK,
         Mapping
<1>. QED
  BY <1>2, <1>3, OrderInit DEF PrefixInv, FileInv

-----------------------------------------------------------------------------
(* Which steps change what. *)
LEMMA RowsChange ==
  [Next]_vars => Start \/ AddRow \/ UNCHANGED << made, rows, run >>
  BY DEF Next, MakeStep, OrphanStep, Start, Crash, OrphanCat, OrphanSpoils, OrphanEnds, Map,
         ReadRow, ReadRewritten, Stopped, ReadLine, TooManyFields, IndexRow, DanglingKills,
         EndOfInput, Finish, Cat, Copy, CatEnds, CdbFinish, Rename, vars, startVars, makerVars

LEMMA OutChanges == [Next]_vars => Finish \/ Copying \/ UNCHANGED out
  BY DEF Next, MakeStep, OrphanStep, Copying, Start, Crash, OrphanSpoils, OrphanEnds, Map,
         ReadRow, ReadRewritten, Stopped, ReadLine, TooManyFields, AddRow, IndexRow,
         DanglingKills, EndOfInput, CatEnds, CdbFinish, Rename, vars, diskVars

LEMMA SeenChanges ==
  [Next]_vars => Map \/ ReadRow \/ ReadRewritten \/ UNCHANGED << mapped, seen >>
  BY DEF Next, MakeStep, OrphanStep, Start, Crash, OrphanCat, OrphanSpoils, OrphanEnds,
         Stopped, ReadLine, TooManyFields, AddRow, IndexRow, DanglingKills, EndOfInput,
         Finish, Cat, Copy, CatEnds, CdbFinish, Rename, vars, readerVars

LEMMA PuttingFollows ==
  ASSUME FileInv, [Next]_vars, Putting'
  PROVE  Finish \/ Copying \/ (Putting /\ UNCHANGED << out, rows >>)
<1>1. pc # "down" => run \notin orphans
  BY DEF FileInv, OrderInv, OutOfARun
<1>2. CASE ReadLine \/ TooManyFields \/ AddRow \/ IndexRow \/ DanglingKills \/ Start
  <2>1. /\ pc' \in {"down", "add", "read", "index"}
        /\ Start => pc' = "read"
        /\ ~Start => pc # "down" /\ run' = run /\ orphans' = orphans
    BY <1>2 DEF ReadLine, TooManyFields, AddRow, IndexRow, DanglingKills, Start, diskVars,
                orphanVars, startVars
  <2>. QED
    BY <1>1, <2>1 DEF Putting, Late
<1>3. CASE Crash
  <2>1. /\ pc # "down" /\ pc' = "down" /\ run' = run /\ UNCHANGED << out, rows >>
        /\ orphans' = orphans \/ pc = "cat"
    BY <1>3 DEF Crash, startVars, makerVars
  <2>. QED
    BY <1>1, <2>1 DEF Putting, Late
<1>4. CASE EndOfInput
  BY <1>4, CourseGoesOn DEF Putting, Late, EndOfInput
<1>5. CASE CatEnds \/ CdbFinish \/ Rename
  BY <1>5 DEF Putting, Late, CatEnds, CdbFinish, Rename, diskVars, makerVars
<1>6. CASE OrphanSpoils \/ OrphanEnds \/ Map \/ ReadRow \/ ReadRewritten \/ UNCHANGED vars
  <2>1. UNCHANGED << pc, run, out, rows >> /\ orphans' \subseteq orphans
    BY <1>6 DEF OrphanSpoils, OrphanEnds, Map, ReadRow, ReadRewritten, vars, diskVars,
                orphanVars, startVars, makerVars
  <2>. QED
    BY <2>1 DEF Putting
<1>. QED
  BY <1>2, <1>3, <1>4, <1>5, <1>6 DEF Next, MakeStep, OrphanStep, Copying, Stopped
-----------------------------------------------------------------------------
(* Rows that were made stay made. *)
MadeGrows ==
  /\ run \in Nat /\ run' \in Nat /\ run <= run'
  /\ \A g \in 1 .. run :
       /\ Len(made[g]) \in Nat /\ Len(made'[g]) \in Nat /\ Len(made[g]) <= Len(made'[g])
       /\ \A n \in 1 .. Len(made[g]) : made'[g][n] = made[g][n]

LEMMA SeqLen == ASSUME NEW s, IsSeq(s) PROVE Len(s) \in Nat /\ DOMAIN s = 1 .. Len(s)
  BY DEF IsSeq

LEMMA EmptyIsSeq == IsSeq(<< >>) /\ Len(<< >>) = 0
<1>1. << >> \in Seq({})
  OBVIOUS
<1>. QED
  BY <1>1 DEF IsSeq

(* A run starts without rows. *)
LEMMA StartMakes ==
  ASSUME FileInv, Start
  PROVE  MadeOK' /\ RowsMade' /\ MadeGrows
<1>1. /\ run \in Nat /\ run' = run + 1 /\ made' = Append(made, << >>) /\ rows' = << >>
      /\ IsSeq(made) /\ Len(made) = run
  BY DEF FileInv, OrderInv, OutOfARun, Start, MadeOK
<1>2. /\ IsSeq(made') /\ Len(made') = run'
      /\ \A g \in 1 .. run : made'[g] = made[g]
      /\ made'[run'] = << >>
  BY <1>1, AppendIsSeq
<1>3. MadeOK'
  BY <1>1, <1>2, EmptyIsSeq DEF FileInv, MadeOK
<1>4. RowsMade'
  BY <1>1, <1>2, EmptyIsSeq DEF RowsMade
<1>5. MadeGrows
  BY <1>1, <1>2, SeqLen DEF MadeGrows, FileInv, MadeOK
<1>. QED
  BY <1>3, <1>4, <1>5

(* A row goes behind the ones of its run. *)
LEMMA AddRowMakes ==
  ASSUME FileInv, AddRow
  PROVE  MadeOK' /\ RowsMade' /\ MadeGrows
<1>1. PICK row :
        /\ rows' = Append(rows, [part |-> "v", row |-> row, at |-> VectorEnd])
        /\ made' = [made EXCEPT ![run] = Append(@, row)]
  BY DEF AddRow
<1> DEFINE chunk == [part |-> "v", row |-> row, at |-> VectorEnd]
           added == Append(made[run], row)
<1>2. /\ run \in Nat /\ run >= 1 /\ run' = run
      /\ IsSeq(made) /\ Len(made) = run /\ IsSeq(made[run])
      /\ DOMAIN made = 1 .. run
  BY SeqLen DEF FileInv, OrderInv, OutOfARun, AddRow, startVars, MadeOK
<1>3. /\ IsSeq(added) /\ Len(made[run]) \in Nat /\ Len(added) = Len(made[run]) + 1
      /\ \A n \in 1 .. Len(made[run]) : added[n] = made[run][n]
      /\ added[Len(made[run]) + 1] = row
  BY <1>2, AppendIsSeq
<1>4. chunk.part = "v" /\ chunk.row = row
  OBVIOUS
<1>5. /\ IsSeq(rows) /\ IsSeq(rows') /\ Len(rows) \in Nat /\ Len(rows') = Len(rows) + 1
      /\ \A n \in 1 .. Len(rows) : rows'[n] = rows[n]
      /\ rows'[Len(rows) + 1] = chunk
  BY <1>1, AppendIsSeq DEF FileInv, RowsMade
<1> HIDE DEF added, chunk
<1>6. made' = [made EXCEPT ![run] = added]
  BY <1>1 DEF added
<1>7. IsSeq(made') /\ Len(made') = run'
  <2>1. run \in 1 .. Len(made)
    BY <1>2
  <2>2. /\ IsSeq([made EXCEPT ![run] = added])
        /\ Len([made EXCEPT ![run] = added]) = Len(made)
    BY <1>2, <2>1, ExceptIsSeq
  <2>. QED
    BY <1>2, <1>6, <2>2
<1>8. /\ made'[run] = added
      /\ \A g \in 1 .. run : g # run => made'[g] = made[g]
  BY <1>2, <1>6
<1>9. MadeOK'
  BY <1>2, <1>3, <1>7, <1>8 DEF FileInv, MadeOK
<1>10. MadeGrows
  BY <1>2, <1>3, <1>8, SeqLen DEF MadeGrows, FileInv, MadeOK
<1>11. RowsMade'
  <2>1. /\ Len(rows) = Len(made[run])
        /\ \A n \in 1 .. Len(rows) : rows[n].part = "v" /\ rows[n].row = made[run][n]
    BY <1>2 DEF FileInv, RowsMade
  <2>2. Len(rows') = Len(made'[run'])
    BY <1>2, <1>3, <1>5, <1>8, <2>1
  <2>3. \A n \in 1 .. Len(rows') : rows'[n].part = "v" /\ rows'[n].row = made'[run'][n]
    BY <1>2, <1>3, <1>4, <1>5, <1>8, <2>1
  <2>. QED
    BY <1>5, <2>2, <2>3 DEF RowsMade
<1>. QED
  BY <1>9, <1>10, <1>11

LEMMA MadeNext ==
  ASSUME FileInv, [Next]_vars
  PROVE  MadeOK' /\ RowsMade' /\ MadeGrows
<1>1. CASE UNCHANGED << made, rows, run >>
  <2>1. MadeOK' /\ RowsMade'
    BY <1>1 DEF FileInv, MadeOK, RowsMade
  <2>2. MadeGrows
    BY <1>1, SeqLen DEF MadeGrows, FileInv, MadeOK, OrderInv, OutOfARun
  <2>. QED
    BY <2>1, <2>2
<1>. QED
  BY <1>1, RowsChange, StartMakes, AddRowMakes

-----------------------------------------------------------------------------
(* The step of `cat': the file gets the next piece, or part of it. *)
LEMMA CatAdds ==
  ASSUME FileInv, Copying
  PROVE  /\ out # Absent /\ out' # Absent /\ out'.gen = out.gen /\ out.gen = run /\ run >= 1
         /\ "parts" \in DOMAIN out' /\ IsSeq(out.parts) /\ IsSeq(out'.parts)
         /\ UNCHANGED << rows, made, run, pc >>
         /\ \/ out'.parts = out.parts
            \/ /\ Len(out.parts) < Len(Whole) /\ Len(out'.parts) = Len(out.parts) + 1
               /\ \A i \in 1 .. Len(out.parts) : out'.parts[i] = out.parts[i]
               /\ out'.parts[Len(out.parts) + 1] = Whole[Len(out.parts) + 1]
<1>0. Putting /\ Copy
  BY DEF Copying, Cat, OrphanCat, Putting, Late
<1>1. /\ out # Absent /\ out.gen = run /\ "gen" \in DOMAIN out /\ run \in Nat /\ run >= 1
      /\ out.parts # Whole /\ UNCHANGED << rows, made, run, pc >>
  BY <1>0 DEF FileInv, OrderInv, OutOfARun, OutIsNew, Copy, startVars, makerVars
<1>2. "parts" \in DOMAIN out /\ IsSeq(out.parts) /\ IsSeq(rows)
  BY <1>1 DEF FileInv, OutHoldsRows, RowsMade
<1>3. Len(out.parts) \in Nat /\ Len(Whole) \in Nat /\ IsSeq(Whole)
  BY <1>2, SeqLen, WholeIs
<1>4. Len(out.parts) < Len(Whole)
  <2>1. /\ Len(out.parts) <= Len(Whole)
        /\ \A i \in 1 .. Len(out.parts) : out.parts[i] = Whole[i]
    BY <1>0 DEF FileInv, OutIsPrefix
  <2>. QED
    BY <1>1, <1>2, <1>3, <2>1, SameSeq
<1> DEFINE next == Append(out.parts, Whole[Len(out.parts) + 1])
<1>5. /\ IsSeq(next) /\ Len(next) = Len(out.parts) + 1
      /\ \A i \in 1 .. Len(out.parts) : next[i] = out.parts[i]
      /\ next[Len(out.parts) + 1] = Whole[Len(out.parts) + 1]
  BY <1>2, AppendIsSeq
<1> HIDE DEF next
<1>6. /\ "gen" \in DOMAIN out' /\ "parts" \in DOMAIN out' /\ out'.gen = out.gen
      /\ out'.parts = out.parts \/ out'.parts = next
  BY <1>0, <1>1, <1>2 DEF Copy, next
<1>7. out' # Absent
  BY <1>1, <1>6 DEF Absent
<1>. QED
  BY <1>1, <1>2, <1>4, <1>5, <1>6, <1>7

(* An emptied file holds the beginning of anything. *)
LEMMA FinishEmpties ==
  ASSUME FileInv, Finish
  PROVE  /\ out'.gen = run /\ out'.parts = << >> /\ "parts" \in DOMAIN out'
         /\ UNCHANGED << rows, made, run >> /\ run >= 1
  BY DEF FileInv, OrderInv, OutOfARun, Finish, startVars, makerVars

LEMMA OutHoldsRowsNext ==
  ASSUME FileInv, [Next]_vars
  PROVE  OutHoldsRows'
<1>1. CASE Finish
  BY <1>1, FinishEmpties, EmptyIsSeq DEF OutHoldsRows
<1>2. CASE Copying
  <2>1. IsSeq(rows) /\ Len(rows) \in Nat /\ Len(Whole) = 3 + Len(rows)
        /\ Whole[3].part = "uc" /\ \A n \in 1 .. Len(rows) : Whole[3 + n] = rows[n]
    BY WholeIs DEF FileInv, RowsMade
  <2>2. /\ Len(rows) = Len(made[run])
        /\ \A n \in 1 .. Len(rows) : rows[n].part = "v" /\ rows[n].row = made[run][n]
    BY <1>2, CatAdds DEF FileInv, RowsMade
  <2>3. /\ out # Absent /\ out.gen = run /\ out'.gen = run /\ made' = made
        /\ "parts" \in DOMAIN out' /\ IsSeq(out.parts) /\ IsSeq(out'.parts)
        /\ Len(out.parts) \in Nat
        /\ \/ out'.parts = out.parts
           \/ /\ Len(out.parts) < Len(Whole) /\ Len(out'.parts) = Len(out.parts) + 1
              /\ \A i \in 1 .. Len(out.parts) : out'.parts[i] = out.parts[i]
              /\ out'.parts[Len(out.parts) + 1] = Whole[Len(out.parts) + 1]
    BY <1>2, CatAdds, SeqLen
  <2> DEFINE Holds(part, i) ==
               /\ i = 3 => part.part = "uc"
               /\ i > 3 => /\ i - 3 \in 1 .. Len(made[run])
                           /\ part.part = "v" /\ part.row = made[run][i - 3]
  <2>4. \A i \in 1 .. Len(out.parts) : Holds(out.parts[i], i)
    BY <2>3 DEF FileInv, OutHoldsRows
  <2>5. \A i \in 1 .. Len(Whole) : Holds(Whole[i], i)
    <3> SUFFICES ASSUME NEW i \in 1 .. Len(Whole) PROVE Holds(Whole[i], i)
      OBVIOUS
    <3>1. CASE i > 3
      <4>1. i - 3 \in 1 .. Len(rows) /\ Whole[3 + (i - 3)] = rows[i - 3] /\ 3 + (i - 3) = i
        BY <2>1, <3>1
      <4>. QED
        BY <2>2, <3>1, <4>1
    <3>2. CASE ~(i > 3)
      BY <2>1, <3>2
    <3>. QED
      BY <3>1, <3>2
  <2> HIDE DEF Holds
  <2>6. \A i \in 1 .. Len(out'.parts) : Holds(out'.parts[i], i)
    BY <2>1, <2>3, <2>4, <2>5
  <2>. QED
    BY <2>3, <2>6 DEF OutHoldsRows, Holds
<1>3. CASE UNCHANGED out
  <2>1. MadeGrows
    BY MadeNext
  <2>2. out # Absent => out.gen \in 1 .. run
    BY DEF FileInv, OrderInv, OutOfARun
  <2>3. out # Absent => "parts" \in DOMAIN out /\ IsSeq(out.parts) /\ Len(out.parts) \in Nat
    BY SeqLen DEF FileInv, OutHoldsRows
  <2>4. ASSUME out # Absent, NEW i \in 1 .. Len(out.parts)
        PROVE  /\ i = 3 => out.parts[i].part = "uc"
               /\ i > 3 => /\ i - 3 \in 1 .. Len(made'[out.gen])
                           /\ out.parts[i].part = "v"
                           /\ out.parts[i].row = made'[out.gen][i - 3]
    <3>1. PICK g \in 1 .. run : g = out.gen
      BY <2>2, <2>4
    <3>2. /\ i = 3 => out.parts[i].part = "uc"
          /\ i > 3 => /\ i - 3 \in 1 .. Len(made[g])
                      /\ out.parts[i].part = "v"
                      /\ out.parts[i].row = made[g][i - 3]
      BY <2>4, <3>1 DEF FileInv, OutHoldsRows
    <3>3. /\ Len(made[g]) \in Nat /\ Len(made'[g]) \in Nat /\ Len(made[g]) <= Len(made'[g])
          /\ \A n \in 1 .. Len(made[g]) : made'[g][n] = made[g][n]
      BY <2>1 DEF MadeGrows
    <3>4. i \in Nat
      BY <2>3, <2>4
    <3>5. i > 3 => i - 3 \in 1 .. Len(made'[g]) /\ made'[g][i - 3] = made[g][i - 3]
      BY <3>2, <3>3, <3>4
    <3>. QED
      BY <3>1, <3>2, <3>5
  <2>. QED
    BY <1>3, <2>3, <2>4 DEF OutHoldsRows
<1>. QED
  BY <1>1, <1>2, <1>3, OutChanges

LEMMA OutIsPrefixNext ==
  ASSUME FileInv, [Next]_vars
  PROVE  OutIsPrefix'
<1> SUFFICES ASSUME Putting'
             PROVE  /\ Len(out'.parts) <= Len(Whole')
                    /\ \A i \in 1 .. Len(out'.parts) : out'.parts[i] = Whole'[i]
  BY DEF OutIsPrefix
<1>1. rows' = rows => Whole' = Whole
  BY DEF Whole, Piece, CatOrder
<1>2. IsSeq(rows) /\ Len(Whole) \in Nat
  BY WholeIs DEF FileInv, RowsMade
<1>3. CASE Finish
  BY <1>1, <1>2, <1>3, FinishEmpties, EmptyIsSeq
<1>4. CASE Copying
  <2>1. Putting
    BY <1>4 DEF Copying, Cat, OrphanCat, Putting, Late
  <2>. QED
    BY <1>1, <1>2, <1>4, <2>1, CatAdds, SeqLen DEF FileInv, OutIsPrefix
<1>5. CASE Putting /\ UNCHANGED << out, rows >>
  BY <1>1, <1>5 DEF FileInv, OutIsPrefix
<1>. QED
  BY <1>3, <1>4, <1>5, PuttingFollows

LEMMA OutIsOldNext ==
  ASSUME FileInv, [Next]_vars
  PROVE  OutIsOld'
<1> USE DEF FileInv, OutIsOld, Early
<1>1. CASE Start
  BY <1>1 DEF Start, OrderInv, OutOfARun
<1>2. CASE ReadLine \/ TooManyFields \/ AddRow \/ IndexRow \/ DanglingKills \/ Crash
  <2>1. /\ UNCHANGED << out, run >> /\ (pc \in Early \/ pc' = "down")
        /\ pc' \in Early \cup {"down"}
    BY <1>2 DEF ReadLine, TooManyFields, AddRow, IndexRow, DanglingKills, Crash, diskVars, startVars
  <2>. QED
    BY <2>1
<1>3. CASE EndOfInput \/ Finish
  BY <1>3, CourseGoesOn DEF EndOfInput, Finish, diskVars, startVars
<1>4. CASE CatEnds
  BY <1>4, CourseGoesOn DEF CatEnds, startVars, Wanted
<1>5. CASE CdbFinish \/ Rename
  BY <1>5, CourseGoesOn DEF CdbFinish, Rename, startVars, Wanted
<1>6. CASE Copying
  <2>1. UNCHANGED pc /\ pc \in {"down", "cat"}
    BY <1>6 DEF Copying, Cat, OrphanCat, Copy
  <2>. QED
    BY <2>1
<1>7. CASE OrphanSpoils \/ OrphanEnds \/ Map \/ ReadRow \/ ReadRewritten \/ UNCHANGED vars
  BY <1>7 DEF OrphanSpoils, OrphanEnds, Map, ReadRow, ReadRewritten, vars, diskVars, startVars,
              Wanted
<1>. QED
  BY <1>1, <1>2, <1>3, <1>4, <1>5, <1>6, <1>7
     DEF Next, MakeStep, OrphanStep, Copying, Stopped

LEMMA FileNext == FileInv /\ [Next]_vars => FileInv'
<1>1. FileInv /\ [Next]_vars => OrderInv'
  BY OrderNext DEF FileInv
<1>. QED
  BY <1>1, MadeNext, OutHoldsRowsNext, OutIsPrefixNext, OutIsOldNext DEF FileInv

-----------------------------------------------------------------------------
(* A file stays one, and only grows until it is of another run. *)
LEMMA OutGrows ==
  ASSUME FileInv, [Next]_vars, out # Absent
  PROVE  /\ out' # Absent /\ run <= run' /\ run \in Nat /\ run' \in Nat
         /\ \/ out.gen < run /\ out'.gen = run
            \/ out'.gen = out.gen /\ Len(out.parts) \in Nat /\ Len(out'.parts) \in Nat
               /\ Len(out.parts) <= Len(out'.parts)
<1>1. run <= run' /\ run \in Nat /\ run' \in Nat
  BY MadeNext DEF MadeGrows
<1>2. IsSeq(out.parts) /\ Len(out.parts) \in Nat
  BY SeqLen DEF FileInv, OutHoldsRows
<1>3. CASE Finish
  <2>1. out'.gen = run /\ run >= 1 /\ out.gen < run
    BY <1>3, FinishEmpties DEF Finish, FileInv, OutIsOld, Early
  <2>. QED
    BY <1>1, <2>1 DEF Absent
<1>4. CASE Copying
  BY <1>1, <1>2, <1>4, CatAdds, SeqLen
<1>5. CASE UNCHANGED out
  BY <1>1, <1>2, <1>5
<1>. QED
  BY <1>3, <1>4, <1>5, OutChanges

(* While the reader is about to read on, there is one more row or the      *)
(* part of one.                                                            *)
LEMMA Extra ==
  ASSUME MappedOK, Mapping
  PROVE  AtEnd \/ VectorBase + mapped.row <= mapped.len
               \/ VectorBase + mapped.row = mapped.len + 1
<1> DEFINE extra == IF mapped.torn THEN 1 ELSE 0
<1>1. extra \in {0, 1}
  OBVIOUS
<1>2. AtEnd <=> VectorBase + mapped.row > mapped.len + extra
  BY DEF AtEnd
<1>. HIDE DEF extra
<1>. QED
  BY <1>1, <1>2 DEF VectorBase, MappedOK

(* Behind the torn row, if there is one, there is nothing to read. *)
BehindTorn == VectorBase + mapped.row > mapped.len + 1

LEMMA EndBehindTorn == MappedOK /\ Mapping /\ BehindTorn => AtEnd
<1> SUFFICES ASSUME MappedOK, Mapping, BehindTorn PROVE AtEnd
  OBVIOUS
<1> DEFINE extra == IF mapped.torn THEN 1 ELSE 0
<1>1. extra \in {0, 1}
  OBVIOUS
<1>2. AtEnd <=> VectorBase + mapped.row > mapped.len + extra
  BY DEF AtEnd
<1>. HIDE DEF extra
<1>. QED
  BY <1>1, <1>2 DEF VectorBase, MappedOK, BehindTorn

(* What a reader finds in a file that is still the one it mapped. *)
LEMMA RowFound ==
  ASSUME PrefixInv, ReadRow
  PROVE  \/ RowSeen = Torn /\ VectorBase + mapped.row = mapped.len + 1
         \/ /\ mapped.row \in 1 .. Len(made[mapped.gen])
            /\ RowSeen = made[mapped.gen][mapped.row]
<1>1. Mapping /\ ~AtEnd /\ out.gen = mapped.gen
  BY DEF ReadRow
<1>2. /\ out # Absent /\ mapped.len \in Nat /\ mapped.row \in Nat /\ mapped.row >= 1
      /\ mapped.len <= Len(out.parts)
  BY <1>1 DEF PrefixInv, MappedOK
<1>3. IsSeq(out.parts) /\ Len(out.parts) \in Nat
  BY <1>2, SeqLen DEF PrefixInv, FileInv, OutHoldsRows
<1>4. CASE VectorBase + mapped.row > mapped.len
  <2>1. VectorBase + mapped.row = mapped.len + 1
    BY <1>1, <1>2, <1>4, Extra DEF PrefixInv, VectorBase
  <2>. QED
    BY <1>4, <2>1 DEF RowSeen
<1>5. CASE ~(VectorBase + mapped.row > mapped.len)
  <2> DEFINE i == VectorBase + mapped.row
  <2>1. i \in 1 .. Len(out.parts) /\ i > 3 /\ i - 3 = mapped.row
        /\ VectorBase \in 1 .. Len(out.parts) /\ VectorBase = 3
    BY <1>2, <1>3, <1>5 DEF VectorBase
  <2>2. /\ out.parts[i].part = "v" /\ out.parts[VectorBase].part = "uc"
        /\ i - 3 \in 1 .. Len(made[out.gen]) /\ out.parts[i].row = made[out.gen][i - 3]
    BY <1>2, <2>1 DEF PrefixInv, FileInv, OutHoldsRows
  <2>. QED
    BY <1>1, <1>5, <2>1, <2>2 DEF RowSeen
<1>. QED
  BY <1>4, <1>5

LEMMA MappedNext ==
  ASSUME PrefixInv, [Next]_vars
  PROVE  MappedOK'
<1>1. CASE Map
  <2>1. /\ mapped' = [gen |-> out.gen, len |-> Len(out.parts), torn |-> out.torn, row |-> 1]
        /\ out # Absent /\ out' = out /\ run' = run
    BY <1>1 DEF Map, diskVars, startVars
  <2>2. out.gen \in 1 .. run /\ Len(out.parts) \in Nat
    BY <2>1, SeqLen DEF PrefixInv, FileInv, OrderInv, OutOfARun, OutHoldsRows
  <2>. QED
    BY <2>1, <2>2 DEF MappedOK
<1>2. CASE ReadRow
  <2>1. /\ mapped' = [mapped EXCEPT !.row = @ + 1] /\ Mapping /\ out' = out /\ run' = run
    BY <1>2 DEF ReadRow, diskVars, startVars
  <2>2. {"gen", "len", "torn", "row"} \subseteq DOMAIN mapped /\ mapped.row \in Nat
    BY <2>1 DEF PrefixInv, MappedOK
  <2>3. /\ DOMAIN mapped' = DOMAIN mapped /\ mapped'.row = mapped.row + 1
        /\ mapped'.gen = mapped.gen /\ mapped'.len = mapped.len
    BY <2>1, <2>2
  <2>. QED
    BY <2>1, <2>2, <2>3 DEF PrefixInv, MappedOK
<1>3. CASE ReadRewritten
  BY <1>3 DEF ReadRewritten, MappedOK, Mapping
<1>4. CASE UNCHANGED << mapped, seen >> /\ ~Mapping
  BY <1>4 DEF MappedOK, Mapping
<1>5. CASE UNCHANGED << mapped, seen >> /\ Mapping
  <2>1. /\ {"gen", "len", "torn", "row"} \subseteq DOMAIN mapped
        /\ mapped.len \in Nat /\ mapped.row \in Nat /\ mapped.row >= 1
        /\ out # Absent /\ mapped.gen \in 1 .. run /\ mapped.gen <= out.gen
        /\ out.gen = mapped.gen => mapped.len <= Len(out.parts)
        /\ out.gen \in 1 .. run
    BY <1>5 DEF PrefixInv, MappedOK, FileInv, OrderInv, OutOfARun
  <2>2. /\ out' # Absent /\ run <= run' /\ run \in Nat /\ run' \in Nat
        /\ \/ out.gen < run /\ out'.gen = run
           \/ out'.gen = out.gen /\ Len(out.parts) \in Nat /\ Len(out'.parts) \in Nat
              /\ Len(out.parts) <= Len(out'.parts)
    BY <2>1, OutGrows DEF PrefixInv
  <2>3. mapped' = mapped
    BY <1>5
  <2>. QED
    BY <2>1, <2>2, <2>3 DEF MappedOK
<1>. QED
  BY <1>1, <1>2, <1>3, <1>4, <1>5, SeenChanges

(* Rows the reader has seen stay the rows they are. *)
RowIsMade(s) ==
  s.gen \in 1 .. run /\ s.n \in 1 .. Len(made[s.gen]) /\ s.row = made[s.gen][s.n]

LEMMA RowStaysMade ==
  ASSUME MadeGrows, NEW s, RowIsMade(s)
  PROVE  RowIsMade(s)'
  BY DEF MadeGrows, RowIsMade

LEMMA SeenNext ==
  ASSUME PrefixInv, [Next]_vars
  PROVE  SeenOK'
<1>1. MadeGrows
  BY MadeNext DEF PrefixInv
<1>2. /\ mapped = Unmapped => seen = {}
      /\ \A s \in seen :
           /\ s.n \in Nat /\ (Mapping => s.n < mapped.row)
           /\ \/ s.row = Torn /\ (Mapping => AtEnd) /\ \A t \in seen : t.n <= s.n
              \/ RowIsMade(s)
  BY DEF PrefixInv, SeenOK, RowIsMade
<1>3. CASE Map
  BY <1>2, <1>3 DEF Map, SeenOK
<1>4. CASE ReadRow
  <2>0. PICK new : new = [gen |-> mapped.gen, n |-> mapped.row, row |-> RowSeen]
    OBVIOUS
  <2>1. /\ Mapping /\ ~AtEnd /\ seen' = seen \cup {new}
        /\ mapped' = [mapped EXCEPT !.row = @ + 1]
        /\ run' = run /\ made' = made
    BY <1>4, <2>0 DEF ReadRow, startVars, makerVars
  <2>2. /\ {"gen", "len", "torn", "row"} \subseteq DOMAIN mapped
        /\ mapped.len \in Nat /\ mapped.row \in Nat /\ mapped.row >= 1
        /\ mapped.gen \in 1 .. run /\ run \in Nat
    BY <1>1, <2>1 DEF PrefixInv, MappedOK, MadeGrows
  <2>3. \A s \in seen : s.n \in Nat /\ s.n < mapped.row /\ RowIsMade(s)
    BY <1>2, <2>1
  <2>4. mapped'.row = mapped.row + 1 /\ mapped'.len = mapped.len /\ mapped' # Unmapped
    <3>1. "row" \in DOMAIN mapped' /\ mapped'.row = mapped.row + 1 /\ mapped'.len = mapped.len
      BY <2>1, <2>2
    <3>2. "row" \notin DOMAIN Unmapped
      BY DEF Unmapped
    <3>. QED
      BY <3>1, <3>2
  <2>5. new.n = mapped.row /\ new.gen = mapped.gen /\ new.row = RowSeen
    BY <2>0
  <2>6. \A s \in seen' : s.n \in Nat /\ s.n < mapped'.row /\ s.n <= new.n
    BY <2>1, <2>2, <2>3, <2>4, <2>5
  <2>7. \/ new.row = Torn /\ VectorBase + mapped.row = mapped.len + 1
        \/ RowIsMade(new)
    BY <1>4, <2>2, <2>5, RowFound DEF RowIsMade
  <2>8. VectorBase + mapped.row = mapped.len + 1 => (Mapping' => AtEnd')
    <3>1. MappedOK'
      BY MappedNext
    <3>2. VectorBase + mapped.row = mapped.len + 1 => BehindTorn'
      BY <2>2, <2>4 DEF VectorBase, BehindTorn
    <3>3. MappedOK' /\ Mapping' /\ BehindTorn' => AtEnd'
      BY EndBehindTorn, PTL
    <3>. QED
      BY <3>1, <3>2, <3>3
  <2>9. \A s \in seen : RowIsMade(s)'
    BY <1>1, <2>3, RowStaysMade
  <2>10. RowIsMade(new) => RowIsMade(new)'
    BY <1>1, RowStaysMade
  <2>. QED
    BY <2>1, <2>4, <2>6, <2>7, <2>8, <2>9, <2>10 DEF SeenOK, RowIsMade
<1>5. CASE ReadRewritten
  <2>1. seen' = seen /\ mapped' = Lost
    BY <1>5 DEF ReadRewritten
  <2>2. ~Mapping' /\ mapped' # Unmapped
    BY <2>1 DEF Mapping, Lost, Unmapped
  <2>3. \A s \in seen : RowIsMade(s) => RowIsMade(s)'
    BY <1>1, RowStaysMade
  <2>. QED
    BY <1>2, <2>1, <2>2, <2>3 DEF SeenOK, RowIsMade
<1>6. CASE UNCHANGED << mapped, seen >>
  <2>1. \A s \in seen : RowIsMade(s) => RowIsMade(s)'
    BY <1>1, RowStaysMade
  <2>2. (Mapping <=> Mapping') /\ (AtEnd <=> AtEnd')
    BY <1>6 DEF Mapping, AtEnd
  <2>. QED
    BY <1>2, <1>6, <2>1, <2>2 DEF SeenOK, RowIsMade
<1>. QED
  BY <1>3, <1>4, <1>5, <1>6, SeenChanges

(* A reader that maps the file while `cat' fills it sees a prefix of the   *)
(* rows of one run, and at most one torn row behind them, for every input, *)
(* every split of the file and wherever the writer is killed.              *)
THEOREM MappedSeesPrefixHolds == Spec => []MappedSeesPrefix
<1>1. PrefixInv /\ [Next]_vars => PrefixInv'
  BY FileNext, MappedNext, SeenNext DEF PrefixInv
<1>2. PrefixInv => MappedSeesPrefix
  <2> SUFFICES ASSUME PrefixInv PROVE MappedSeesPrefix
    OBVIOUS
  <2>1. \A g \in 1 .. run : DOMAIN made[g] = 1 .. Len(made[g])
    BY SeqLen DEF PrefixInv, FileInv, MadeOK
  <2>. QED
    BY <2>1 DEF PrefixInv, SeenOK, MappedSeesPrefix
<1>. QED
  BY <1>1, <1>2, PrefixInit, PTL DEF Spec

-----------------------------------------------------------------------------
Line == [fields : Seq(Texts) \ {<< >>}, newline : BOOLEAN]

(* The fields of a line are the ones it has: all of them when a newline    *)
(* ends it, and otherwise all but the last for sure.                       *)
LEMMA FieldsOfLine ==
  ASSUME NEW l \in Line
  PROVE  /\ IsSeq(FieldsOf(l)) /\ IsSeq(l.fields)
         /\ Len(l.fields) \in Nat /\ Len(l.fields) >= 1 /\ Len(FieldsOf(l)) \in Nat
         /\ Len(FieldsOf(l)) >= Len(l.fields) - 1
         /\ l.newline => FieldsOf(l) = l.fields
         /\ Last(l.fields) # Empty => Len(FieldsOf(l)) = Len(l.fields)
         /\ \A i \in 1 .. Len(l.fields) - 1 : FieldsOf(l)[i] = l.fields[i]
<1> DEFINE f == l.fields
<1>1. f \in Seq(Texts) /\ Len(f) \in Nat /\ Len(f) >= 1 /\ IsSeq(f)
  BY DEF Line, IsSeq
<1> DEFINE front == SubSeq(f, 1, Len(f) - 1)
<1>2. /\ front \in Seq(Texts) /\ Len(front) = Len(f) - 1
      /\ \A i \in 1 .. Len(f) - 1 : front[i] = f[i]
  BY <1>1
<1>3. IsSeq(front)
  BY <1>2 DEF IsSeq
<1>4. FieldsOf(l) = IF l.newline THEN f
                    ELSE IF Last(f) = Empty THEN front ELSE Append(front, Cut[Last(f)])
  BY DEF FieldsOf, Front
<1> HIDE DEF front
<1>5. CASE l.newline
  BY <1>1, <1>4, <1>5
<1>6. CASE ~l.newline /\ Last(f) = Empty
  BY <1>1, <1>2, <1>3, <1>4, <1>6
<1>7. CASE ~l.newline /\ Last(f) # Empty
  <2>1. /\ IsSeq(Append(front, Cut[Last(f)]))
        /\ Len(Append(front, Cut[Last(f)])) = Len(front) + 1
        /\ \A i \in 1 .. Len(front) : Append(front, Cut[Last(f)])[i] = front[i]
    BY <1>3, AppendIsSeq
  <2>. QED
    BY <1>1, <1>2, <1>4, <1>7, <2>1
<1>. QED
  BY <1>5, <1>6, <1>7

-----------------------------------------------------------------------------
(* The field i of a line is there for sure, whatever ends the line... *)
Sound(l, i) == i + 1 < Len(l.fields) \/ (i + 1 = Len(l.fields) /\ l.newline)

(* ...and so is the key. *)
KeySound(l) ==
  /\ option.argc = 5 /\ option.make_cdb + 1 \in 1 .. Len(l.fields) - 1
  /\ l.newline \/ Last(l.fields) # Empty

(* The pointers of the line at hand lead to it, and behind the row that is *)
(* being added there is one for each line, and one record.                 *)
PointersOwn ==
  /\ line \in 1 .. Len(input)
  /\ \A i \in Field : Sound(input[line], i) => p13n[i] = [line |-> line, field |-> i + 1]
KeyOwn ==
  KeySound(input[line]) => key = [line |-> line, field |-> option.make_cdb + 1]

AtLine ==
  /\ pc = "read" => /\ line \in 0 .. Len(input) /\ Len(rows) = line
                    /\ Wanted => Len(recs) = line
  /\ pc = "add" => /\ PointersOwn /\ (Wanted => KeyOwn) /\ Len(rows) = line - 1
                   /\ Wanted => Len(recs) = line - 1
  /\ pc = "index" => /\ line \in 1 .. Len(input) /\ Wanted /\ KeyOwn
                     /\ Len(rows) = line /\ Len(recs) = line - 1

Done ==
  /\ IsSeq(rows) /\ IsSeq(recs) /\ (~Wanted => recs = << >>)
  /\ input \in Seq(Line) /\ option.make_cdb \in Int \cup {NoCdb}
  /\ FieldsOwn /\ KeysOwn

LineInv == AtLine /\ Done

LEMMA LineInit == Init => LineInv
  BY EmptyIsSeq, MakeFrfAssumption
     DEF Init, LineInv, AtLine, Done, Wanted, FieldsOwn, KeysOwn

LEMMA StartKeepsLines == ASSUME LineInv, Start PROVE LineInv'
<1>1. /\ input' \in Inputs /\ option' \in Options /\ rows' = << >> /\ recs' = << >>
      /\ pc' = "read" /\ line' = 0
  BY DEF Start
<1>2. input' \in Seq(Line) /\ option'.make_cdb \in Int \cup {NoCdb}
  BY <1>1, MakeFrfAssumption DEF Line
<1>3. FieldsOwn' /\ KeysOwn'
  BY <1>1 DEF FieldsOwn, KeysOwn
<1>. QED
  BY <1>1, <1>2, <1>3, EmptyIsSeq DEF LineInv, AtLine, Done

(* A line is cut into the fields it has. *)
LEMMA ReadLineKeepsLines == ASSUME LineInv, ReadLine PROVE LineInv'
<1>1. /\ pc = "read" /\ pc' = "add" /\ line < Len(input) /\ line' = line + 1
      /\ p13n' = Pointers(FieldsOf(input[line + 1]))
      /\ key' = KeyPointer(FieldsOf(input[line + 1]))
      /\ UNCHANGED << rows, recs, input, option >>
  BY DEF ReadLine, makerVars, cdbVars, startVars
<1>2. /\ line \in Nat /\ line' \in 1 .. Len(input) /\ input[line'] \in Line
      /\ Len(rows) = line /\ (Wanted => Len(recs) = line)
  BY <1>1 DEF LineInv, AtLine, Done
<1> DEFINE l == input[line']
<1>3. /\ Len(l.fields) \in Nat /\ Len(l.fields) >= 1 /\ Len(FieldsOf(l)) \in Nat
      /\ Len(FieldsOf(l)) >= Len(l.fields) - 1
      /\ l.newline => FieldsOf(l) = l.fields
      /\ Last(l.fields) # Empty => Len(FieldsOf(l)) = Len(l.fields)
  BY <1>2, FieldsOfLine
<1>4. \A i \in Field : Sound(l, i) => i < Len(FieldsOf(l))
  BY <1>3, MakeFrfAssumption DEF Sound, Field
<1>5. PointersOwn'
  BY <1>1, <1>2, <1>4 DEF PointersOwn, Pointers, Sound
<1>6. Wanted => KeyOwn'
  <2> SUFFICES ASSUME Wanted, KeySound(l)
               PROVE  key' = [line |-> line', field |-> option.make_cdb + 1]
    BY <1>1 DEF KeyOwn, KeySound
  <2>1. option.make_cdb \in Int
    BY DEF LineInv, Done, Wanted
  <2>2. option.argc = 5 /\ option.make_cdb \in 0 .. Len(FieldsOf(l)) - 2
    BY <1>3, <2>1 DEF KeySound
  <2>. QED
    BY <1>1, <2>2 DEF KeyPointer
<1>. QED
  BY <1>1, <1>2, <1>5, <1>6
     DEF LineInv, AtLine, Done, Wanted, FieldsOwn, KeysOwn

(* A sound field, or key, is found where the pointer leads. *)
LEMMA SoundFound ==
  ASSUME LineInv, line \in 1 .. Len(input), NEW i \in Int, i >= 0,
         Sound(input[line], i) \/ i + 1 \in 1 .. Len(input[line].fields) - 1
  PROVE  Found([line |-> line, field |-> i + 1]) = {input[line].fields[i + 1]}
<1>1. input[line] \in Line
  BY DEF LineInv, Done
<1> DEFINE l == input[line]
<1>2. /\ Len(l.fields) \in Nat
      /\ l.newline => FieldsOf(l) = l.fields
      /\ \A j \in 1 .. Len(l.fields) - 1 : FieldsOf(l)[j] = l.fields[j]
  BY <1>1, FieldsOfLine
<1>3. FieldsOf(l)[i + 1] = l.fields[i + 1]
  BY <1>2 DEF Sound
<1>. QED
  BY <1>3 DEF Found, Fields

(* The row has the fields of the line. *)
LEMMA AddRowKeepsLines == ASSUME LineInv, AddRow PROVE LineInv'
<1>1. PICK row \in [Field -> UNION {Found(p13n[i]) : i \in Field}] :
        /\ \A i \in Field : row[i] \in Found(p13n[i])
        /\ rows' = Append(rows, [part |-> "v", row |-> row, at |-> VectorEnd])
  BY DEF AddRow
<1> DEFINE chunk == [part |-> "v", row |-> row, at |-> VectorEnd]
<1>2. /\ pc = "add" /\ pc' = (IF Wanted THEN "index" ELSE "read")
      /\ UNCHANGED << line, p13n, key, recs, input, option >>
  BY DEF AddRow, startVars, cdbVars
<1>3. /\ line \in 1 .. Len(input) /\ Len(rows) = line - 1 /\ IsSeq(rows)
      /\ Len(input) \in Nat
      /\ \A i \in Field : Sound(input[line], i) => p13n[i] = [line |-> line, field |-> i + 1]
  BY <1>2 DEF LineInv, AtLine, PointersOwn, Done
<1>4. chunk.row = row
  OBVIOUS
<1> HIDE DEF chunk
<1>5. rows' = Append(rows, chunk)
  BY <1>1 DEF chunk
<1>6. /\ IsSeq(rows') /\ DOMAIN rows = 1 .. line - 1 /\ DOMAIN rows' = 1 .. line
      /\ Len(rows') = line
      /\ \A n \in 1 .. line - 1 : rows'[n] = rows[n]
      /\ rows'[line] = chunk
  BY <1>3, <1>5, AppendIsSeq
<1>7. FieldsOwn'
  <2> SUFFICES ASSUME NEW n \in 1 .. line, NEW i \in Field, Sound(input[n], i)
               PROVE  rows'[n].row[i] = input[n].fields[i + 1]
    BY <1>2, <1>6 DEF FieldsOwn, Sound
  <2>1. CASE n # line
    BY <1>3, <1>6, <2>1 DEF LineInv, Done, FieldsOwn, Sound
  <2>2. CASE n = line
    <3>1. i \in Int /\ i >= 0
      BY MakeFrfAssumption DEF Field
    <3>2. row[i] = input[line].fields[i + 1]
      BY <1>1, <1>3, <2>2, <3>1, SoundFound
    <3>. QED
      BY <1>4, <1>6, <2>2, <3>2
  <2>. QED
    BY <2>1, <2>2
<1>8. KeysOwn' /\ (KeyOwn => KeyOwn')
  BY <1>2 DEF LineInv, Done, KeysOwn, KeyOwn, KeySound
<1>. QED
  BY <1>2, <1>3, <1>6, <1>7, <1>8 DEF LineInv, AtLine, Done, Wanted

(* The record has the key of the line. *)
LEMMA IndexRowKeepsLines == ASSUME LineInv, IndexRow PROVE LineInv'
<1>1. PICK k \in Found(key) :
        recs' = Append(recs, [key |-> k, value |-> Printed(value), line |-> line])
  BY DEF IndexRow
<1> DEFINE rec == [key |-> k, value |-> Printed(value), line |-> line]
<1>2. /\ pc = "index" /\ pc' = "read"
      /\ UNCHANGED << line, p13n, key, rows, input, option >>
  BY DEF IndexRow, startVars, lineVars, makerVars
<1>3. /\ line \in 1 .. Len(input) /\ Wanted /\ KeyOwn
      /\ Len(rows) = line /\ Len(recs) = line - 1 /\ IsSeq(recs) /\ Len(input) \in Nat
  BY <1>2 DEF LineInv, AtLine, Done
<1>4. rec.key = k
  OBVIOUS
<1> HIDE DEF rec
<1>5. recs' = Append(recs, rec)
  BY <1>1 DEF rec
<1>6. /\ IsSeq(recs') /\ DOMAIN recs = 1 .. line - 1 /\ DOMAIN recs' = 1 .. line
      /\ Len(recs') = line
      /\ \A n \in 1 .. line - 1 : recs'[n] = recs[n]
      /\ recs'[line] = rec
  BY <1>3, <1>5, AppendIsSeq
<1>7. KeysOwn'
  <2> SUFFICES ASSUME NEW n \in 1 .. line, KeySound(input[n])
               PROVE  recs'[n].key = input[n].fields[option.make_cdb + 1]
    BY <1>2, <1>6 DEF KeysOwn, KeySound
  <2>1. CASE n # line
    <3>1. n \in DOMAIN recs /\ recs'[n] = recs[n]
      BY <1>3, <1>6, <2>1
    <3>2. KeysOwn /\ KeySound(input[n])
      BY DEF LineInv, Done
    <3>3. recs[n].key = input[n].fields[option.make_cdb + 1]
      BY <3>1, <3>2, Zenon DEF KeysOwn, KeySound
    <3>. QED
      BY <3>1, <3>3
  <2>2. CASE n = line
    <3>1. option.make_cdb \in Int
      BY <1>3 DEF LineInv, Done, Wanted
    <3>2. /\ option.make_cdb + 1 \in 1 .. Len(input[line].fields) - 1
          /\ option.make_cdb >= 0
      BY <2>2, <3>1 DEF KeySound
    <3>3. key = [line |-> line, field |-> option.make_cdb + 1]
      BY <1>3, <2>2 DEF KeyOwn
    <3>4. k = input[line].fields[option.make_cdb + 1]
      BY <1>1, <1>3, <3>1, <3>2, <3>3, SoundFound
    <3>. QED
      BY <1>4, <1>6, <2>2, <3>4
  <2>. QED
    BY <2>1, <2>2
<1>8. FieldsOwn'
  BY <1>2 DEF LineInv, Done, FieldsOwn
<1>. QED
  BY <1>2, <1>3, <1>6, <1>7, <1>8 DEF LineInv, AtLine, Done, Wanted

(* The other steps leave the rows, the records and the line alone, and do  *)
(* not go back to it.                                                      *)
LEMMA RestKeepsLines ==
  ASSUME LineInv, UNCHANGED << rows, recs, input, option >>,
         \/ pc' \notin {"read", "add", "index"}
         \/ UNCHANGED << pc, line, p13n, key >>
  PROVE  LineInv'
<1>1. Done'
  BY DEF LineInv, Done, FieldsOwn, KeysOwn, Wanted
<1>2. AtLine'
  BY DEF LineInv, AtLine, PointersOwn, KeyOwn, KeySound, Sound, Wanted
<1>. QED
  BY <1>1, <1>2 DEF LineInv

LEMMA OthersKeepLines ==
  ASSUME FileInv, LineInv, [Next]_vars, ~Start, ~ReadLine, ~AddRow, ~IndexRow
  PROVE  LineInv'
<1>1. UNCHANGED << rows, recs, input, option >>
  BY DEF Next, MakeStep, OrphanStep, Crash, OrphanCat, OrphanSpoils, OrphanEnds, Map, ReadRow,
         ReadRewritten, Stopped, TooManyFields, DanglingKills, EndOfInput, Finish, Cat, Copy,
         CatEnds, CdbFinish, Rename, vars, startVars, makerVars, cdbVars
<1>2. CASE TooManyFields \/ DanglingKills \/ Crash
  BY <1>1, <1>2, RestKeepsLines DEF TooManyFields, DanglingKills, Crash
<1>3. CASE EndOfInput \/ Finish \/ CatEnds
  <2>1. pc' \notin {"read", "add", "index"}
    BY <1>3, CourseGoesOn DEF EndOfInput, Finish, CatEnds
  <2>. QED
    BY <1>1, <2>1, RestKeepsLines
<1>4. CASE CdbFinish \/ Rename
  <2>1. pc' \notin {"read", "add", "index"}
    BY <1>4, CourseGoesOn DEF CdbFinish, Rename, FileInv, OutIsOld
  <2>. QED
    BY <1>1, <2>1, RestKeepsLines
<1>5. CASE Cat \/ OrphanStep \/ Map \/ ReadRow \/ ReadRewritten \/ UNCHANGED vars
  <2>1. UNCHANGED << pc, line, p13n, key >>
    BY <1>5 DEF Cat, OrphanStep, OrphanCat, OrphanSpoils, OrphanEnds, Copy, Map, ReadRow,
                ReadRewritten, vars, lineVars
  <2>. QED
    BY <1>1, <2>1, RestKeepsLines
<1>. QED
  BY <1>2, <1>3, <1>4, <1>5 DEF Next, MakeStep, Stopped

LEMMA LinesHold == Spec => [](FieldsOwn /\ KeysOwn)
<1>1. FileInv /\ LineInv /\ [Next]_vars => FileInv' /\ LineInv'
  BY FileNext, StartKeepsLines, ReadLineKeepsLines, AddRowKeepsLines, IndexRowKeepsLines,
     OthersKeepLines
<1>2. Init => FileInv /\ LineInv
  BY PrefixInit, LineInit DEF PrefixInv
<1>3. LineInv => FieldsOwn /\ KeysOwn
  BY DEF LineInv, Done
<1>. QED
  BY <1>1, <1>2, <1>3, PTL DEF Spec

(* The n-th row make_frf adds has the fields of the n-th line, as far as   *)
(* the line has them and no newline is missing, in every file.  A line of  *)
(* more than MaxFields fields is never added: it ends the program.         *)
THEOREM FieldsOwnHolds == Spec => []FieldsOwn
  BY LinesHold, PTL

(* A record of the index is under the field of its own line that was asked *)
(* for, if a tab follows it and there are four arguments.                  *)
THEOREM KeysOwnHolds == Spec => []KeysOwn
  BY LinesHold, PTL

(* What a 32-bit counter is at, goes to the index as a signed number in    *)
(* decimal and comes back as an unsigned one.                              *)
LEMMA NegativeMod ==
  ASSUME NEW m \in Nat \ {0}, NEW w \in 0 .. m - 1
  PROVE  (w - m) % m = w
<1>1. w - m = m * (-1) + w
  OBVIOUS
<1>. QED
  BY <1>1

LEMMA PrintedBack ==
  ASSUME NEW n \in Int
  PROVE  Atoi(Printed(n)) = n
<1>1. Printed(n).minus <=> n < 0
  BY DEF Printed
<1>2. Printed(n).digits = IF n < 0 THEN -n ELSE n
  BY DEF Printed
<1>3. CASE n < 0
  BY <1>1, <1>2, <1>3 DEF Atoi
<1>4. CASE ~(n < 0)
  BY <1>1, <1>2, <1>4 DEF Atoi
<1>. QED
  BY <1>3, <1>4

LEMMA SeekLands ==
  ASSUME NEW w \in 0 .. 2 * Half - 1
  PROVE  SeekTo(Printed(AsInt(w))) = w \div 4
<1>1. Half \in Nat \ {0} /\ w \in Nat
  BY MakeFrfAssumption
<1>2. AsInt(w) \in Int
  BY <1>1 DEF AsInt
<1>3. Atoi(Printed(AsInt(w))) = AsInt(w)
  BY <1>2, PrintedBack
<1>4. AsInt(w) % (2 * Half) = w
  <2>1. CASE w >= Half
    <3>1. 2 * Half \in Nat \ {0} /\ w \in 0 .. 2 * Half - 1
      BY <1>1
    <3>2. (w - 2 * Half) % (2 * Half) = w
      BY <3>1, NegativeMod
    <3>. QED
      BY <2>1, <3>2 DEF AsInt
  <2>2. CASE ~(w >= Half)
    BY <1>1, <2>2 DEF AsInt
  <2>. QED
    BY <2>1, <2>2
<1>. QED
  BY <1>3, <1>4 DEF SeekTo

-----------------------------------------------------------------------------
(* The pointers lead into their lines, so that the fields of a row are     *)
(* strings.                                                                *)
PointersInside ==
  /\ line \in Nat
  /\ \A i \in Field :
       /\ p13n[i].line \in 0 .. line
       /\ p13n[i].line = line /\ line >= 1 =>
            p13n[i].field \in 1 .. Len(FieldsOf(input[line]))

(* The counter does not leave its 32 bits, and below 4 GiB it is at the    *)
(* end of the vectors.                                                     *)
CounterOK ==
  /\ vector_written \in 0 .. 2 * Half - 1 /\ VectorEnd \in Nat
  /\ 4 * VectorEnd < 2 * Half => vector_written = 4 * VectorEnd

(* The offsets of the records lead to the rows, below 4 GiB. *)
LeadsTo(text, chunk) == SeekTo(text) = chunk.at \/ 4 * chunk.at >= 2 * Half
OffsetsLead ==
  /\ pc = "index" => LeadsTo(Printed(value), rows[line])
  /\ \A n \in 1 .. Len(recs) :
       n \in 1 .. Len(rows) /\ LeadsTo(recs[n].value, rows[n])

(* Once the input is at its end there is a row for every line. *)
AllRead ==
  pc \in Late \cup {"finish", "done"} =>
    Len(rows) = Len(input) /\ (Wanted => Len(recs) = Len(input))

(* Once `cat' has done its work the file is whole. *)
OutDone ==
  /\ pc \in Late => "torn" \in DOMAIN out
  /\ pc = "cat" => out.torn = FALSE \/ out.parts # Whole
  /\ pc \in {"cdb_finish", "rename", "done"} /\ ~failed =>
       out # Absent /\ out.gen = run /\ out.parts = Whole /\ out.torn = FALSE

(* What is open is there, and it becomes the index of this run. *)
Shape(f) == {"gen", "recs", "done"} \subseteq DOMAIN f
OfThisRun(f) == f.gen = run /\ f.recs = recs /\ f.done = TRUE
IndexDone ==
  /\ temp # Absent => Shape(temp)
  /\ pc \notin {"down", "done"} /\ cdb_fd = "open" => temp # Absent
  /\ pc # "down" /\ cdb_fd = "open" => Wanted
  /\ pc = "rename" /\ cdb_fd = "open" => OfThisRun(temp)
  /\ pc = "done" /\ cdb_fd = "open" => OfThisRun(index)

-----------------------------------------------------------------------------
LEMMA FieldsTyped ==
  ASSUME NEW l \in Line
  PROVE  FieldsOf(l) \in Seq(Texts)
<1> DEFINE f == l.fields
           front == SubSeq(f, 1, Len(f) - 1)
<1>1. f \in Seq(Texts) /\ Len(f) \in Nat /\ Len(f) >= 1
  BY DEF Line
<1>2. front \in Seq(Texts)
  BY <1>1
<1>3. Cut[Last(f)] \in Texts
  BY <1>1, MakeFrfAssumption DEF Last
<1>4. FieldsOf(l) = IF l.newline THEN f
                    ELSE IF Last(f) = Empty THEN front ELSE Append(front, Cut[Last(f)])
  BY DEF FieldsOf, Front
<1> HIDE DEF front
<1>5. Append(front, Cut[Last(f)]) \in Seq(Texts)
  BY <1>2, <1>3
<1>. QED
  BY <1>1, <1>2, <1>4, <1>5

LEMMA PointersInsideNext ==
  ASSUME LineInv, PointersInside, [Next]_vars
  PROVE  PointersInside'
<1>1. CASE Start
  BY <1>1 DEF Start, Unset, PointersInside
<1>2. CASE ReadLine
  <2> DEFINE fields == FieldsOf(input[line + 1])
  <2>1. /\ line \in Nat /\ line' = line + 1 /\ input' = input
        /\ p13n' = Pointers(fields) /\ pc = "read" /\ line < Len(input)
    BY <1>2 DEF ReadLine, startVars, PointersInside
  <2>2. input[line + 1] \in Line
    BY <2>1 DEF LineInv, Done
  <2>3. Len(fields) \in Nat
    BY <2>2, FieldsOfLine
  <2> HIDE DEF fields
  <2> SUFFICES ASSUME NEW i \in Field
               PROVE  /\ p13n'[i].line \in 0 .. line'
                      /\ p13n'[i].line = line' => p13n'[i].field \in 1 .. Len(fields)
    BY <2>1 DEF PointersInside, fields
  <2>4. i \in Nat
    BY MakeFrfAssumption DEF Field
  <2>5. CASE i < Len(fields)
    BY <2>1, <2>3, <2>4, <2>5 DEF Pointers
  <2>6. CASE ~(i < Len(fields))
    BY <2>1, <2>6 DEF Pointers, PointersInside
  <2>. QED
    BY <2>5, <2>6
<1>3. CASE UNCHANGED << line, p13n, input >>
  BY <1>3 DEF PointersInside
<1>. QED
  BY <1>1, <1>2, <1>3
     DEF Next, MakeStep, OrphanStep, Crash, OrphanCat, OrphanSpoils, OrphanEnds, Map, ReadRow,
         ReadRewritten, Stopped, TooManyFields, AddRow, IndexRow, DanglingKills, EndOfInput,
         Finish, Cat, Copy, CatEnds, CdbFinish, Rename, vars, startVars, lineVars

LEMMA CounterNext ==
  ASSUME LineInv, PointersInside, CounterOK, [Next]_vars
  PROVE  CounterOK'
<1>1. 2 * Half \in Nat \ {0}
  BY MakeFrfAssumption
<1>2. CASE Start
  BY <1>1, <1>2 DEF Start, CounterOK, VectorEnd
<1>3. CASE AddRow
  <2>1. PICK row :
          /\ \A i \in Field : row[i] \in Found(p13n[i])
          /\ rows' = Append(rows, [part |-> "v", row |-> row, at |-> VectorEnd])
          /\ vector_written' = (vector_written + 4 * VectorWords[row[0]]) % (2 * Half)
    BY <1>3 DEF AddRow
  <2>2. 0 \in Field
    BY MakeFrfAssumption DEF Field
  <2>3. line \in 1 .. Len(input) /\ input[line] \in Line
    BY <1>3 DEF LineInv, AtLine, PointersOwn, Done, AddRow
  <2>4. FieldsOf(input[line]) \in Seq(Texts)
    BY <2>3, FieldsTyped
  <2>5. row[0] \in Texts
    <3>1. CASE p13n[0].line = line
      <4>1. row[0] = FieldsOf(input[line])[p13n[0].field]
        BY <2>1, <2>2, <3>1 DEF Found, Fields
      <4>2. p13n[0].field \in 1 .. Len(FieldsOf(input[line]))
        BY <2>2, <2>3, <3>1 DEF PointersInside
      <4>. QED
        BY <2>4, <4>1, <4>2
    <3>2. CASE p13n[0].line # line
      BY <2>1, <2>2, <3>2, MakeFrfAssumption DEF Found
    <3>. QED
      BY <3>1, <3>2
  <2>6. PICK more \in Nat : more = VectorWords[row[0]]
    BY <2>5, MakeFrfAssumption
  <2>7. PICK end \in Nat : end = VectorEnd
    BY DEF CounterOK
  <2>8. VectorEnd' = end + more
    <3> DEFINE chunk == [part |-> "v", row |-> row, at |-> VectorEnd]
    <3>1. chunk.at = end /\ chunk.row = row
      BY <2>7
    <3> HIDE DEF chunk
    <3>2. IsSeq(rows) /\ rows' = Append(rows, chunk)
      BY <2>1 DEF chunk, LineInv, Done
    <3>3. /\ IsSeq(rows') /\ Len(rows) \in Nat /\ Len(rows') = Len(rows) + 1
          /\ rows'[Len(rows) + 1] = chunk
      BY <3>2, AppendIsSeq
    <3>4. rows' # << >> /\ Last(rows') = chunk
      BY <3>3, EmptyIsSeq DEF Last
    <3>. QED
      BY <2>6, <3>1, <3>4 DEF VectorEnd
  <2>9. PICK m \in Nat \ {0} : m = 2 * Half
    BY <1>1
  <2>10. PICK at \in Nat : at = vector_written
    BY <1>1 DEF CounterOK
  <2>11. vector_written' = (at + 4 * more) % m /\ (4 * end < m => at = 4 * end)
    BY <2>1, <2>6, <2>7, <2>9, <2>10 DEF CounterOK
  <2>12. \A n \in Nat : n % m \in 0 .. m - 1 /\ (n < m => n % m = n)
    BY <2>9
  <2>13. vector_written' \in 0 .. m - 1
    BY <2>11, <2>12
  <2>14. ASSUME 4 * (end + more) < m PROVE vector_written' = 4 * (end + more)
    BY <2>11, <2>12, <2>14
  <2>. QED
    BY <2>8, <2>9, <2>13, <2>14 DEF CounterOK
<1>4. CASE UNCHANGED << vector_written, rows >>
  BY <1>4 DEF CounterOK, VectorEnd
<1>. QED
  BY <1>2, <1>3, <1>4
     DEF Next, MakeStep, OrphanStep, Crash, OrphanCat, OrphanSpoils, OrphanEnds, Map, ReadRow,
         ReadRewritten, Stopped, ReadLine, TooManyFields, IndexRow, DanglingKills, EndOfInput,
         Finish, Cat, Copy, CatEnds, CdbFinish, Rename, vars, makerVars

(* All but four steps leave the lines alone and do not go back to them. *)
LEMMA OthersGoOn ==
  ASSUME FileInv, [Next]_vars, ~Start, ~ReadLine, ~AddRow, ~IndexRow
  PROVE  /\ UNCHANGED << rows, recs, line, value, input, option >>
         /\ pc' \in {"read", "add", "index"} => pc' = pc
<1>1. UNCHANGED << rows, recs, line, value, input, option >>
  BY DEF Next, MakeStep, OrphanStep, Crash, OrphanCat, OrphanSpoils, OrphanEnds, Map, ReadRow,
         ReadRewritten, Stopped, TooManyFields, DanglingKills, EndOfInput, Finish, Cat, Copy,
         CatEnds, CdbFinish, Rename, vars, startVars, lineVars, makerVars, cdbVars
<1>2. CASE TooManyFields \/ DanglingKills \/ Crash
  BY <1>1, <1>2 DEF TooManyFields, DanglingKills, Crash
<1>3. CASE EndOfInput \/ Finish \/ CatEnds
  BY <1>1, <1>3, CourseGoesOn DEF EndOfInput, Finish, CatEnds
<1>4. CASE CdbFinish \/ Rename
  BY <1>1, <1>4, CourseGoesOn DEF CdbFinish, Rename, FileInv, OutIsOld
<1>5. CASE Cat \/ OrphanStep \/ Map \/ ReadRow \/ ReadRewritten \/ UNCHANGED vars
  BY <1>1, <1>5 DEF Cat, OrphanStep, OrphanCat, OrphanSpoils, OrphanEnds, Copy, Map, ReadRow,
                    ReadRewritten, vars
<1>. QED
  BY <1>2, <1>3, <1>4, <1>5 DEF Next, MakeStep, Stopped

LEMMA OffsetsLeadNext ==
  ASSUME FileInv, LineInv, CounterOK, OffsetsLead, [Next]_vars
  PROVE  OffsetsLead'
<1>1. CASE Start
  BY <1>1, EmptyIsSeq DEF Start, OffsetsLead
<1>2. CASE AddRow
  <2>1. PICK row :
          rows' = Append(rows, [part |-> "v", row |-> row, at |-> VectorEnd])
    BY <1>2 DEF AddRow
  <2> DEFINE chunk == [part |-> "v", row |-> row, at |-> VectorEnd]
  <2>2. chunk.at = VectorEnd
    OBVIOUS
  <2> HIDE DEF chunk
  <2>3. rows' = Append(rows, chunk)
    BY <2>1 DEF chunk
  <2>4. /\ IsSeq(rows) /\ Len(rows) = line - 1 /\ line \in Nat /\ line >= 1
        /\ line' = line /\ recs' = recs /\ value' = AsInt(vector_written)
    BY <1>2 DEF LineInv, AtLine, Done, PointersOwn, AddRow, cdbVars
  <2>5. /\ Len(rows') = line /\ rows'[line] = chunk
        /\ \A n \in 1 .. Len(rows) : rows'[n] = rows[n]
    BY <2>3, <2>4, AppendIsSeq
  <2>6. LeadsTo(Printed(value'), rows'[line'])
    <3>1. PICK end \in Nat : end = VectorEnd
      BY DEF CounterOK
    <3>2. SeekTo(Printed(AsInt(vector_written))) = vector_written \div 4
      BY SeekLands DEF CounterOK
    <3>3. \A n \in Nat : (4 * n) \div 4 = n
      OBVIOUS
    <3>4. ASSUME 4 * end < 2 * Half PROVE vector_written \div 4 = end
      BY <3>1, <3>3, <3>4 DEF CounterOK
    <3>5. Half \in Nat
      BY MakeFrfAssumption
    <3>6. rows'[line'].at = end /\ value' = AsInt(vector_written)
      BY <2>2, <2>4, <2>5, <3>1
    <3>. QED
      BY <3>1, <3>2, <3>4, <3>5, <3>6 DEF LeadsTo
  <2>. QED
    BY <2>4, <2>5, <2>6 DEF OffsetsLead
<1>3. CASE IndexRow
  <2>1. PICK k : recs' = Append(recs, [key |-> k, value |-> Printed(value), line |-> line])
    BY <1>3 DEF IndexRow
  <2> DEFINE rec == [key |-> k, value |-> Printed(value), line |-> line]
  <2>2. rec.value = Printed(value)
    OBVIOUS
  <2> HIDE DEF rec
  <2>3. recs' = Append(recs, rec)
    BY <2>1 DEF rec
  <2>4. /\ IsSeq(recs) /\ Len(recs) = line - 1 /\ Len(rows) = line /\ line \in Nat
        /\ line >= 1 /\ pc = "index" /\ pc' = "read" /\ rows' = rows
    BY <1>3 DEF LineInv, AtLine, Done, IndexRow, makerVars
  <2>5. /\ Len(recs') = line /\ recs'[line] = rec
        /\ \A n \in 1 .. Len(recs) : recs'[n] = recs[n]
    BY <2>3, <2>4, AppendIsSeq
  <2>. QED
    BY <2>2, <2>4, <2>5 DEF OffsetsLead
<1>4. CASE ReadLine
  BY <1>4 DEF ReadLine, OffsetsLead, makerVars, cdbVars
<1>5. CASE UNCHANGED << rows, recs, line, value >> /\ (pc' = "index" => pc = "index")
  BY <1>5 DEF OffsetsLead
<1>. QED
  BY <1>1, <1>2, <1>3, <1>4, <1>5, OthersGoOn

LEMMA AllReadNext ==
  ASSUME FileInv, LineInv, AllRead, [Next]_vars
  PROVE  AllRead'
<1>1. CASE Start \/ ReadLine \/ AddRow \/ IndexRow
  BY <1>1 DEF Start, ReadLine, AddRow, IndexRow, AllRead, Late
<1>2. CASE EndOfInput
  BY <1>2 DEF EndOfInput, LineInv, AtLine, AllRead, makerVars, cdbVars, startVars, Wanted
<1>3. CASE TooManyFields \/ DanglingKills \/ Crash
  BY <1>3 DEF TooManyFields, DanglingKills, Crash, AllRead, Late
<1>4. CASE Finish \/ Cat \/ CatEnds \/ CdbFinish \/ Rename
  <2>1. pc \in Late \cup {"finish"} /\ UNCHANGED << rows, recs, input, option >>
    BY <1>4 DEF Finish, Cat, Copy, CatEnds, CdbFinish, Rename, Late, makerVars, cdbVars, startVars
  <2>. QED
    BY <2>1 DEF AllRead, Wanted
<1>5. CASE OrphanStep \/ Map \/ ReadRow \/ ReadRewritten \/ UNCHANGED vars
  <2>1. UNCHANGED << pc, rows, recs, input, option >>
    BY <1>5 DEF OrphanStep, OrphanCat, OrphanSpoils, OrphanEnds, Copy, Map, ReadRow,
                ReadRewritten, vars, makerVars, cdbVars, startVars
  <2>. QED
    BY <2>1 DEF AllRead, Wanted
<1>. QED
  BY <1>1, <1>2, <1>3, <1>4, <1>5 DEF Next, MakeStep, Stopped

LEMMA OutDoneNext ==
  ASSUME FileInv, OutDone, [Next]_vars
  PROVE  OutDone'
<1>1. CASE Finish
  <2>1. pc' = "cat" /\ out' = [gen |-> run, parts |-> << >>, torn |-> FALSE]
    BY <1>1, CourseGoesOn DEF Finish
  <2>. QED
    BY <2>1 DEF OutDone, Late
<1>2. CASE Cat
  <2>1. /\ pc = "cat" /\ pc' = "cat" /\ rows' = rows /\ "torn" \in DOMAIN out
        /\ "parts" \in DOMAIN out
    BY <1>2, CatAdds DEF Cat, Copying, OutDone, Late, FileInv, OutHoldsRows
  <2>2. Whole' = Whole
    BY <2>1 DEF Whole, Piece, CatOrder
  <2>3. CASE out' = [out EXCEPT !.parts = Append(out.parts, Whole[Len(out.parts) + 1]),
                                !.torn = FALSE]
    BY <2>1, <2>3 DEF OutDone, Late
  <2>4. CASE out' = [out EXCEPT !.torn = TRUE]
    <3>1. out'.parts = out.parts /\ "torn" \in DOMAIN out' /\ out.parts # Whole
      BY <1>2, <2>1, <2>4 DEF Cat, Copy
    <3>. QED
      BY <2>1, <2>2, <3>1 DEF OutDone, Late
  <2>. QED
    BY <1>2, <2>3, <2>4 DEF Cat, Copy
<1>3. CASE CatEnds
  <2>1. /\ pc = "cat" /\ pc' \in {"cdb_finish", "done"} /\ failed' = (out.parts # Whole)
        /\ UNCHANGED << out, rows, run >>
    BY <1>3, CourseGoesOn DEF CatEnds, diskVars, makerVars, startVars
  <2>2. Whole' = Whole
    BY <2>1 DEF Whole, Piece, CatOrder
  <2>3. out # Absent /\ out.gen = run
    BY <2>1 DEF FileInv, OrderInv, OutIsNew, Putting, Late
  <2>4. ~failed' => out.parts = Whole
    BY <2>1
  <2>5. "torn" \in DOMAIN out /\ (out.torn = FALSE \/ out.parts # Whole)
    BY <2>1 DEF OutDone, Late
  <2>. QED
    BY <2>1, <2>2, <2>3, <2>4, <2>5 DEF OutDone, Late
<1>4. CASE CdbFinish \/ Rename
  <2>1. /\ pc \in {"cdb_finish", "rename"} /\ pc' \in {"rename", "done"}
        /\ UNCHANGED << out, rows, run, failed >>
    BY <1>4, CourseGoesOn DEF CdbFinish, Rename, FileInv, OutIsOld, makerVars, startVars
  <2>2. Whole' = Whole
    BY <2>1 DEF Whole, Piece, CatOrder
  <2>. QED
    BY <2>1, <2>2 DEF OutDone, Late
<1>5. CASE \/ Start \/ ReadLine \/ TooManyFields \/ AddRow \/ IndexRow \/ DanglingKills
           \/ Crash \/ OrphanCat \/ EndOfInput
  <2>1. pc' \in {"read", "add", "index", "down", "finish"}
    BY <1>5, CourseGoesOn DEF Start, ReadLine, TooManyFields, AddRow, IndexRow, DanglingKills,
       Crash, OrphanCat, Copy, EndOfInput
  <2>. QED
    BY <2>1 DEF OutDone, Late
<1>6. CASE OrphanSpoils \/ OrphanEnds \/ Map \/ ReadRow \/ ReadRewritten \/ UNCHANGED vars
  <2>1. UNCHANGED << pc, out, rows, run, failed >>
    BY <1>6 DEF OrphanSpoils, OrphanEnds, Map, ReadRow, ReadRewritten, vars, diskVars, makerVars, startVars
  <2>2. Whole' = Whole
    BY <2>1 DEF Whole, Piece, CatOrder
  <2>. QED
    BY <2>1, <2>2 DEF OutDone
<1>. QED
  BY <1>1, <1>2, <1>3, <1>4, <1>5, <1>6 DEF Next, MakeStep, OrphanStep, Stopped

LEMMA IndexDoneNext ==
  ASSUME FileInv, IndexDone, [Next]_vars
  PROVE  IndexDone'
<1>1. CASE Start
  <2>1. pc' = "read"
    BY <1>1 DEF Start
  <2>2. /\ temp' # Absent => Shape(temp')
        /\ cdb_fd' = "open" => temp' # Absent /\ Wanted'
    BY <1>1 DEF Start, OpenTemp, IndexDone, Shape, Absent, Wanted
  <2>. QED
    BY <2>1, <2>2 DEF IndexDone, Shape
<1>2. CASE CdbFinish
  <2>1. /\ pc = "cdb_finish" /\ pc' = "rename"
        /\ UNCHANGED << run, option, recs, cdb_fd >>
    BY <1>2, CourseGoesOn DEF CdbFinish, FileInv, OutIsOld, startVars, cdbVars
  <2>2. CASE cdb_fd = "open"
    <3>1. /\ temp' = [temp EXCEPT !.gen = run, !.recs = recs, !.done = TRUE]
          /\ Shape(temp)
      BY <1>2, <2>1, <2>2 DEF CdbFinish, IndexDone
    <3>2. Shape(temp') /\ temp'.gen = run /\ temp'.recs = recs /\ temp'.done = TRUE
      BY <3>1 DEF Shape
    <3>3. "recs" \notin DOMAIN Absent
      BY DEF Absent
    <3>4. temp' # Absent
      BY <3>2, <3>3 DEF Shape
    <3>. QED
      BY <2>1, <2>2, <3>2, <3>4 DEF IndexDone, Shape, OfThisRun, Wanted
  <2>3. CASE cdb_fd # "open"
    BY <1>2, <2>1, <2>3 DEF CdbFinish, IndexDone, Shape
  <2>. QED
    BY <2>2, <2>3
<1>3. CASE Rename
  <2>1. /\ pc = "rename" /\ pc' = "done" /\ index' = temp /\ temp' = Absent
        /\ UNCHANGED << run, option, recs, cdb_fd >>
    BY <1>3, CourseGoesOn DEF Rename, FileInv, OutIsOld, startVars, cdbVars
  <2>. QED
    BY <2>1 DEF IndexDone, Shape, OfThisRun, Wanted
<1>4. CASE Crash
  <2>1. temp' # Absent => Shape(temp')
    BY <1>4 DEF Crash, IndexDone, Shape
  <2>2. pc' = "down"
    BY <1>4 DEF Crash
  <2>. QED
    BY <2>1, <2>2 DEF IndexDone, Shape
<1>5. CASE CatEnds
  <2>1. /\ pc = "cat" /\ pc' = IF Wanted THEN "cdb_finish" ELSE "done"
        /\ UNCHANGED << temp, option, cdb_fd >>
    BY <1>5, CourseGoesOn DEF CatEnds, diskVars, startVars, cdbVars
  <2>. QED
    BY <2>1 DEF IndexDone, Shape, Wanted
<1>6. CASE \/ ReadLine \/ TooManyFields \/ AddRow \/ IndexRow \/ DanglingKills
           \/ EndOfInput \/ Finish \/ Cat
  <2>1. /\ UNCHANGED << temp, option, cdb_fd >> /\ pc \notin {"down", "done"}
        /\ pc' \in {"down", "read", "add", "index", "finish", "cat"}
    BY <1>6, CourseGoesOn DEF ReadLine, TooManyFields, AddRow, IndexRow, DanglingKills,
       EndOfInput, Finish, Cat, Copy, diskVars, startVars, cdbVars
  <2>. QED
    BY <2>1 DEF IndexDone, Shape, Wanted
<1>7. CASE OrphanStep \/ Map \/ ReadRow \/ ReadRewritten \/ UNCHANGED vars
  <2>1. UNCHANGED << pc, temp, index, option, run, recs, cdb_fd >>
    BY <1>7 DEF OrphanStep, OrphanCat, OrphanSpoils, OrphanEnds, Copy, Map, ReadRow, ReadRewritten, vars, diskVars, startVars, cdbVars
  <2>. QED
    BY <2>1 DEF IndexDone, Shape, OfThisRun, Wanted
<1>. QED
  BY <1>1, <1>2, <1>3, <1>4, <1>5, <1>6, <1>7 DEF Next, MakeStep, Stopped

-----------------------------------------------------------------------------
DoneInv ==
  /\ FileInv /\ LineInv
  /\ PointersInside /\ CounterOK /\ OffsetsLead /\ AllRead /\ OutDone /\ IndexDone

LEMMA DoneInit == Init => DoneInv
<1> SUFFICES ASSUME Init PROVE DoneInv
  OBVIOUS
<1>1. FileInv /\ LineInv
  BY PrefixInit, LineInit DEF PrefixInv
<1>2. PointersInside /\ CounterOK
  BY MakeFrfAssumption DEF Init, PointersInside, CounterOK, VectorEnd, Unset
<1>3. OffsetsLead /\ AllRead /\ OutDone /\ IndexDone
  BY EmptyIsSeq DEF Init, OffsetsLead, AllRead, OutDone, IndexDone, Late
<1>. QED
  BY <1>1, <1>2, <1>3 DEF DoneInv

LEMMA DoneNext == DoneInv /\ [Next]_vars => DoneInv'
<1> SUFFICES ASSUME DoneInv, [Next]_vars PROVE DoneInv'
  OBVIOUS
<1>1. FileInv'
  BY FileNext DEF DoneInv
<1>2. LineInv'
  BY StartKeepsLines, ReadLineKeepsLines, AddRowKeepsLines, IndexRowKeepsLines,
     OthersKeepLines DEF DoneInv
<1>3. PointersInside' /\ CounterOK'
  BY PointersInsideNext, CounterNext DEF DoneInv
<1>4. OffsetsLead' /\ AllRead' /\ OutDone' /\ IndexDone'
  BY OffsetsLeadNext, AllReadNext, OutDoneNext, IndexDoneNext DEF DoneInv
<1>. QED
  BY <1>1, <1>2, <1>3, <1>4 DEF DoneInv

(* Whatever came before it, a run that comes to its end undisturbed leaves *)
(* a file with all its rows, and if it could write to its index, one whose *)
(* offsets lead to where they are, by way of int, decimal text and         *)
(* unsigned, as far as the rows begin below 4 GiB.                         *)
THEOREM DoneAgreesHolds == Spec => []DoneAgrees
<1>1. DoneInv => DoneAgrees
  <2> SUFFICES ASSUME DoneInv, pc = "done", ~failed, ~mixed PROVE DoneAgrees
    BY DEF DoneAgrees
  <2> DEFINE heads == {[part |-> p] : p \in {"h", "st", "uc"}}
  <2>1. out.gen = run /\ out.parts = Whole /\ out.torn = FALSE
    BY DEF DoneInv, OutDone
  <2>2. /\ IsSeq(Whole) /\ Len(rows) \in Nat /\ Len(Whole) = 3 + Len(rows)
        /\ Whole[1] = [part |-> "h"] /\ Whole[2] = [part |-> "st"] /\ Whole[3] = [part |-> "uc"]
        /\ \A n \in 1 .. Len(rows) : Whole[3 + n] = rows[n]
    BY WholeIs DEF DoneInv, FileInv, RowsMade
  <2>3. DOMAIN Whole = 1 .. 3 + Len(rows) /\ DOMAIN rows = 1 .. Len(rows)
    BY <2>2, SeqLen DEF DoneInv, FileInv, RowsMade
  <2>4. \A n \in 1 .. Len(rows) : rows[n] \notin heads
    <3>1. run >= 1
      BY DEF DoneInv, FileInv, OrderInv, OutOfARun
    <3>2. \A n \in 1 .. Len(rows) : rows[n].part = "v"
      BY <3>1 DEF DoneInv, FileInv, RowsMade
    <3>3. \A h \in heads : h.part # "v"
      OBVIOUS
    <3>. QED
      BY <3>2, <3>3
  <2>5. {Whole[i] : i \in DOMAIN Whole} = heads \cup {rows[i] : i \in DOMAIN rows}
    <3> SUFFICES ASSUME NEW x
                 PROVE  (\E i \in 1 .. 3 + Len(rows) : x = Whole[i])
                          <=> x \in heads \/ \E n \in 1 .. Len(rows) : x = rows[n]
      BY <2>3
    <3>1. ASSUME NEW i \in 1 .. 3 + Len(rows), x = Whole[i]
          PROVE  x \in heads \/ \E n \in 1 .. Len(rows) : x = rows[n]
      <4>1. CASE i <= 3
        BY <2>2, <3>1, <4>1
      <4>2. CASE i > 3
        <5>1. i - 3 \in 1 .. Len(rows) /\ 3 + (i - 3) = i
          BY <2>2, <4>2
        <5>. QED
          BY <2>2, <3>1, <5>1
      <4>. QED
        BY <4>1, <4>2
    <3>2. ASSUME x \in heads
          PROVE  \E i \in 1 .. 3 + Len(rows) : x = Whole[i]
      <4>1. 1 \in 1 .. 3 + Len(rows) /\ 2 \in 1 .. 3 + Len(rows) /\ 3 \in 1 .. 3 + Len(rows)
        BY <2>2
      <4>. QED
        BY <2>2, <3>2, <4>1
    <3>3. ASSUME NEW n \in 1 .. Len(rows), x = rows[n]
          PROVE  \E i \in 1 .. 3 + Len(rows) : x = Whole[i]
      <4>1. 3 + n \in 1 .. 3 + Len(rows)
        BY <2>2
      <4>. QED
        BY <2>2, <3>3, <4>1
    <3>. QED
      BY <3>1, <3>2, <3>3
  <2>6. {out.parts[i] : i \in DOMAIN out.parts} \ heads = {rows[i] : i \in DOMAIN rows}
    <3>1. \A x \in {rows[i] : i \in DOMAIN rows} : x \notin heads
      BY <2>3, <2>4
    <3> HIDE DEF heads
    <3>. QED
      BY <2>1, <2>5, <3>1
  <2>7. ASSUME cdb_fd = "open"
        PROVE  /\ index.gen = run /\ index.done /\ Len(index.recs) = Len(input)
               /\ \A n \in DOMAIN input :
                    out.parts[VectorBase + n].at = SeekTo(index.recs[n].value)
                      \/ 4 * rows[n].at >= 2 * Half
    <3>1. index.gen = run /\ index.recs = recs /\ index.done = TRUE /\ Wanted
      BY <2>7 DEF DoneInv, IndexDone, OfThisRun
    <3>2. Len(recs) = Len(input) /\ Len(rows) = Len(input)
      BY <3>1 DEF DoneInv, AllRead
    <3>3. DOMAIN input = 1 .. Len(input)
      BY DEF DoneInv, LineInv, Done
    <3>4. \A n \in 1 .. Len(rows) :
            out.parts[VectorBase + n].at = SeekTo(recs[n].value) \/ 4 * rows[n].at >= 2 * Half
      BY <2>1, <2>2, <3>2 DEF VectorBase, DoneInv, OffsetsLead, LeadsTo
    <3>. QED
      BY <3>1, <3>2, <3>3, <3>4
  <2>. QED
    BY <2>1, <2>6, <2>7 DEF DoneAgrees
<1>. QED
  BY <1>1, DoneInit, DoneNext, PTL DEF Spec

-----------------------------------------------------------------------------
(* The types, by what they speak of. *)
MainOK ==
  /\ run \in 0 .. MaxRuns
  /\ pc \in {"down", "add", "index"} \cup {"read", "finish", "cat", "cdb_finish", "rename", "done"}
  /\ input \in Inputs \cup {<< >>}
  /\ cdb_fd \in {"open", "failed", "none"} /\ failed \in BOOLEAN /\ mixed \in BOOLEAN
LineOK ==
  /\ line \in 0 .. Len(input) /\ key.line \in 0 .. line
  /\ Len(rows) \in {line, line - 1} /\ Len(recs) <= line
ValueOK == value \in -Half .. Half - 1
IndexOK(f, r) == f # Absent => f.gen \in 1 .. r /\ f.done \in BOOLEAN
FilesOK ==
  /\ IndexOK(temp, run) /\ IndexOK(index, run)
  /\ out # Absent => "torn" \in DOMAIN out /\ out.torn \in BOOLEAN

LEMMA MainNext == ASSUME FileInv, MainOK, [Next]_vars PROVE MainOK'
<1>1. CASE Start
  <2>1. run + 1 \in 0 .. MaxRuns
    BY <1>1, MakeFrfAssumption DEF Start, MainOK
  <2>. QED
    BY <1>1, <2>1 DEF Start, OpenTemp, MainOK, orphanVars
<1>2. CASE \/ ReadLine \/ TooManyFields \/ AddRow \/ IndexRow \/ DanglingKills \/ Crash
           \/ Cat \/ OrphanStep
  <2>1. /\ UNCHANGED << run, input, cdb_fd, failed >>
        /\ pc' = pc \/ pc' \in {"add", "index", "read", "down"}
        /\ mixed' = mixed \/ mixed' = TRUE
    BY <1>2 DEF ReadLine, TooManyFields, AddRow, IndexRow, DanglingKills, Crash, Cat,
         OrphanStep, OrphanCat, OrphanSpoils, OrphanEnds, Copy, startVars, cdbVars, diskVars,
         orphanVars
  <2>. QED
    BY <2>1 DEF MainOK
<1>3. CASE EndOfInput \/ Finish \/ CatEnds \/ CdbFinish \/ Rename
  <2>1. pc' \in {"finish", "cat", "cdb_finish", "rename", "done"}
    BY <1>3, CourseGoesOn DEF EndOfInput, Finish, CatEnds, CdbFinish, Rename, FileInv, OutIsOld
  <2>2. /\ UNCHANGED << run, input, cdb_fd >>
        /\ UNCHANGED failed \/ failed' = (out.parts # Whole)
        /\ UNCHANGED mixed \/ mixed' = FALSE
    BY <1>3 DEF EndOfInput, Finish, CatEnds, CdbFinish, Rename, startVars, cdbVars, diskVars,
                orphanVars
  <2>3. failed' \in BOOLEAN /\ mixed' \in BOOLEAN
    BY <2>2 DEF MainOK
  <2>. QED
    BY <2>1, <2>2, <2>3 DEF MainOK
<1>4. CASE Map \/ ReadRow \/ ReadRewritten \/ UNCHANGED vars
  BY <1>4 DEF Map, ReadRow, ReadRewritten, vars, MainOK, startVars, cdbVars, diskVars,
              orphanVars
<1>. QED
  BY <1>1, <1>2, <1>3, <1>4 DEF Next, MakeStep, Stopped

LEMMA LineNext ==
  ASSUME FileInv, LineInv, LineOK, [Next]_vars
  PROVE  LineOK'
<1>1. CASE Start
  <2>1. input' \in Seq(Line)
    BY <1>1, MakeFrfAssumption DEF Start, Line
  <2>. QED
    BY <1>1, <2>1, EmptyIsSeq DEF Start, LineOK, Unset
<1>2. CASE ReadLine
  <2>1. /\ line' = line + 1 /\ line < Len(input) /\ pc = "read"
        /\ key' = KeyPointer(FieldsOf(input[line + 1]))
        /\ UNCHANGED << input, rows, recs >>
    BY <1>2 DEF ReadLine, startVars, makerVars, cdbVars
  <2>2. Len(rows) = line /\ Len(input) \in Nat /\ Len(recs) \in Nat
    BY <2>1, SeqLen DEF LineInv, AtLine, Done
  <2>3. key'.line \in 0 .. line'
    BY <2>1, <2>2 DEF KeyPointer, LineOK
  <2>. QED
    BY <2>1, <2>2, <2>3 DEF LineOK
<1>3. CASE AddRow
  <2>1. PICK row :
          rows' = Append(rows, [part |-> "v", row |-> row, at |-> VectorEnd])
    BY <1>3 DEF AddRow
  <2>2. /\ pc = "add" /\ IsSeq(rows) /\ Len(rows) = line - 1
        /\ UNCHANGED << line, key, input, recs >>
    BY <1>3 DEF AddRow, LineInv, AtLine, Done, startVars, cdbVars
  <2>3. Len(rows') = Len(rows) + 1
    BY <2>1, <2>2, AppendIsSeq
  <2>. QED
    BY <2>2, <2>3 DEF LineOK
<1>4. CASE IndexRow
  <2>1. PICK k : recs' = Append(recs, [key |-> k, value |-> Printed(value), line |-> line])
    BY <1>4 DEF IndexRow
  <2>2. /\ pc = "index" /\ IsSeq(recs) /\ Len(recs) = line - 1
        /\ UNCHANGED << line, key, input, rows >>
    BY <1>4 DEF IndexRow, LineInv, AtLine, Done, startVars, lineVars, makerVars
  <2>3. Len(recs') = Len(recs) + 1
    BY <2>1, <2>2, AppendIsSeq
  <2>. QED
    BY <2>2, <2>3 DEF LineOK
<1>5. CASE ~Start /\ ~ReadLine /\ ~AddRow /\ ~IndexRow
  <2>1. UNCHANGED << rows, recs, line, input, key >>
    BY <1>5 DEF Next, MakeStep, OrphanStep, Crash, OrphanCat, OrphanSpoils, OrphanEnds, Map,
         ReadRow, ReadRewritten, Stopped, TooManyFields, DanglingKills, EndOfInput, Finish,
         Cat, Copy, CatEnds, CdbFinish, Rename, vars, startVars, lineVars, makerVars, cdbVars
  <2>. QED
    BY <2>1 DEF LineOK
<1>. QED
  BY <1>1, <1>2, <1>3, <1>4, <1>5

LEMMA ValueNext == ASSUME CounterOK, ValueOK, [Next]_vars PROVE ValueOK'
<1>1. CASE Start
  BY <1>1, MakeFrfAssumption DEF Start, ValueOK
<1>2. CASE AddRow
  BY <1>2, MakeFrfAssumption DEF AddRow, AsInt, CounterOK, ValueOK
<1>3. CASE ~Start /\ ~AddRow
  <2>1. value' = value
    BY <1>3 DEF Next, MakeStep, OrphanStep, Crash, OrphanCat, OrphanSpoils, OrphanEnds, Map,
         ReadRow, ReadRewritten, Stopped, TooManyFields, DanglingKills, ReadLine, IndexRow,
         EndOfInput, Finish, Cat, Copy, CatEnds, CdbFinish, Rename, vars, lineVars
  <2>. QED
    BY <2>1 DEF ValueOK
<1>. QED
  BY <1>1, <1>2, <1>3

LEMMA IndexStaysOK ==
  ASSUME NEW f, NEW r \in Nat, IndexOK(f, r)
  PROVE  IndexOK(f, r + 1)
<1>1. CASE f = Absent
  BY <1>1 DEF IndexOK
<1>2. CASE f # Absent
  <2>1. f.gen \in 1 .. r + 1
    BY <1>2 DEF IndexOK
  <2>2. f.done \in BOOLEAN
    BY <1>2, Zenon DEF IndexOK
  <2>. QED
    BY <2>1, <2>2, Zenon DEF IndexOK
<1>. QED
  BY <1>1, <1>2

LEMMA FilesNext == ASSUME FileInv, IndexDone, FilesOK, [Next]_vars PROVE FilesOK'
<1>0. run \in Nat /\ (pc # "down" => run >= 1)
  BY DEF FileInv, OrderInv, OutOfARun
<1>1. CASE Start
  <2>1. /\ run' = run + 1 /\ UNCHANGED << out, index >>
        /\ temp' = temp \/ (temp'.gen = run + 1 /\ temp'.done = FALSE)
    BY <1>1 DEF Start, OpenTemp
  <2>2. IndexOK(temp, run') /\ IndexOK(index, run')
    BY <1>0, <2>1, IndexStaysOK DEF FilesOK
  <2>3. ASSUME temp'.gen = run + 1, temp'.done = FALSE PROVE IndexOK(temp', run')
    <3>1. temp'.gen \in 1 .. run'
      BY <1>0, <2>1, <2>3
    <3>2. temp'.done \in BOOLEAN
      BY <2>3
    <3>. QED
      BY <3>1, <3>2, Zenon DEF IndexOK
  <2>. QED
    BY <2>1, <2>2, <2>3 DEF FilesOK
<1>2. CASE CdbFinish \/ Crash
  <2>0. pc # "down"
    BY <1>2 DEF CdbFinish, Crash
  <2>1. /\ UNCHANGED << out, index, run >>
        /\ \/ temp' = temp
           \/ /\ temp # Absent
              /\ \E d \in BOOLEAN : temp' = [temp EXCEPT !.gen = run, !.recs = recs, !.done = d]
    BY <1>2 DEF CdbFinish, Crash, IndexDone, startVars
  <2>2. temp' = temp \/ (temp'.gen = run /\ temp'.done \in BOOLEAN)
    BY <2>1 DEF IndexDone, Shape
  <2>3. ASSUME temp'.gen = run, temp'.done \in BOOLEAN PROVE IndexOK(temp', run)
    <3>1. temp'.gen \in 1 .. run
      BY <1>0, <2>0, <2>3
    <3>. QED
      BY <2>3, <3>1, Zenon DEF IndexOK
  <2>. QED
    BY <2>1, <2>2, <2>3 DEF FilesOK
<1>3. CASE Rename
  BY <1>3 DEF Rename, FilesOK, IndexOK, startVars
<1>4. CASE Finish
  BY <1>4 DEF Finish, FilesOK, startVars
<1>5. CASE Copying
  <2>0. Putting /\ Copy
    BY <1>5 DEF Copying, Cat, OrphanCat, Putting, Late
  <2>1. /\ out # Absent /\ UNCHANGED << temp, index, run >>
        /\ \/ out' = [out EXCEPT !.parts = Append(out.parts, Whole[Len(out.parts) + 1]),
                                !.torn = FALSE]
           \/ out' = [out EXCEPT !.torn = TRUE]
    BY <2>0 DEF Copy, startVars, FileInv, OrderInv, OutIsNew
  <2>2. "torn" \in DOMAIN out' /\ out'.torn \in BOOLEAN
    BY <2>1 DEF FilesOK
  <2>. QED
    BY <2>1, <2>2 DEF FilesOK
<1>6. CASE UNCHANGED << out, temp, index, run >>
  BY <1>6 DEF FilesOK
<1>. QED
  BY <1>1, <1>2, <1>3, <1>4, <1>5, <1>6
     DEF Next, MakeStep, OrphanStep, OrphanSpoils, OrphanEnds, Copying, Stopped, Map, ReadRow,
         ReadRewritten, TooManyFields, DanglingKills, ReadLine, AddRow, IndexRow, EndOfInput, CatEnds, vars, diskVars, startVars

(* The variables of make_frf keep their types, at whatever point its runs  *)
(* are killed: the counters of lines, rows and records go together.        *)
THEOREM MakeFrfTypeCorrect == Spec => []TypeOK
<1> DEFINE TypeInv == DoneInv /\ MainOK /\ LineOK /\ ValueOK /\ FilesOK
<1>1. Init => TypeInv
  <2> SUFFICES ASSUME Init PROVE MainOK /\ LineOK /\ ValueOK /\ FilesOK
    BY DoneInit
  <2>1. failed \in BOOLEAN /\ mixed \in BOOLEAN
    BY DEF Init
  <2>2. MainOK
    BY <2>1, MakeFrfAssumption DEF Init, MainOK
  <2>3. LineOK
    BY EmptyIsSeq DEF Init, LineOK, Unset
  <2>4. ValueOK
    BY MakeFrfAssumption DEF Init, ValueOK
  <2>5. FilesOK
    BY DEF Init, FilesOK, IndexOK
  <2>. QED
    BY <2>2, <2>3, <2>4, <2>5
<1>2. TypeInv /\ [Next]_vars => TypeInv'
  BY DoneNext, MainNext, LineNext, ValueNext, FilesNext DEF DoneInv
<1>3. TypeInv => TypeOK
  <2> SUFFICES ASSUME TypeInv PROVE TypeOK
    OBVIOUS
  <2>1. /\ Len(made) = run /\ (out # Absent => out.gen \in 1 .. run)
        /\ orphans \subseteq 1 .. run
    BY DEF DoneInv, FileInv, MadeOK, OrderInv, OutOfARun
  <2>2. \A i \in Field : p13n[i].line \in 0 .. line
    BY DEF DoneInv, PointersInside
  <2>. QED
    BY <2>1, <2>2 DEF TypeOK, DoneInv, CounterOK, MainOK, LineOK, ValueOK, FilesOK, IndexOK
<1> HIDE DEF TypeInv
<1>. QED
  BY <1>1, <1>2, <1>3, PTL DEF Spec
=============================================================================
