# A TLA+ model of Fast-Render-File

Fast-Render-File renders mail-merge content. A *maker* takes a content file
(JSON: a body, pieces of dynamic content, macros, transforms) and rows of
personalization data, and writes an `frf` file in which every row is a short list
of pointers to strings that rows share. A *reader* maps that file and writes a row
out with one `writev`, after stepping to it or seeking to it by an offset.

The project models the maker, the file, the programs that read it, the command
that feeds the maker and indexes the rows, the transforms, and the arenas and lists
all of it stands on. TLC checks the models on small instances; TLAPS proves
what matters most of the string table, the packing of strings, the arena, the
lists, the maker, `make_frf`, the transforms, render, stat and the Perl binding for
every value of their constants, and that the maker implements an abstract store of
renderings.

## Inventory

| Component | Source | State it keeps | Operations | Correct when |
|---|---|---|---|---|
| String table | `frf_maker.c` 146-211 | `.st` file, `string_table_written`, `strings_lookup`, `str_malloc_context` | `frf_maker_add_to_string_table` | every pointer handed out leads to its string for good; the lookup never outlives its arena |
| Maker | `frf_maker.c` | compiled contents, `tag_lookup`, `num_uniq_tags`, `uniq_cells_lookup`, `.uc` and `.v` files, counters; per row: stack of cells, `results`, cells, vector | `frf_maker_init`, `frf_maker_precompile`, `frf_maker_add`, `frf_maker_finish`, `frf_maker_destroy` | the row under a returned offset is the rendering of the row given; the file is in step |
| Reader library | `frf.c` | mapping, section bases, `_row_ptr`, an arena | `frf_init`, `frf_next`, `frf_seek`, `frf_get_offset`, `frf_write`, `frf_get_render_size`, `frf_render_to_buffer` | it walks exactly the rows that were added |
| render | `render.c` | options, the row number | `--all`, `--seek_offset`, `--seek_row` | the row asked for is the row shown; it ends |
| Arena | `frf_malloc.c` | a chain of buffers, used from the tail, counted in the head | new, malloc (strdup, strndup, printf, calloc), reset, destroy | blocks never overlap and stay in live buffers |
| Transforms | `frf_transform.y`, `.l`, `frf_transform_base.c` | an expression tree; nothing from row to row | compile, exec; trunc, add, join | a call is a function of the row, or refuses |
| make_frf | `make_frf.c` | the line, pointers to its fields, a temporary index | read, add, index, finish, rename | index and file agree at the end of a run, whatever killed runs had left |
| stat | `stat.c` | counts, tables of unique cells and strings | one pass over a file | counts what the rows render to |
| Perl binding | `FRF/FRF.xs`, `FRF/lib` | a reader, numbers that are doubles | load, step, seek, get_offset, write | a row is found again by the number that was kept |
| Callback library | (not in the repository) | - | `tag_cb`, `static_cb` | - |
| Vendored headers | `utlist.h`, `uthash.h`, `utstring.h`, `ppport.h` | lists, tables, strings | add, delete, iterate | lists are sequences |

Interaction. All of it is plain calls in one thread. The maker calls the string
table for every static text when it compiles, and for every value when it adds a
row; both allocate from arenas, one per row and one for the lookup. Compilation
calls the callback library with every text and tag. The maker and the reader
meet in the file only: offsets returned by `frf_maker_add` are given to
`frf_seek`, and counts in the unique cells tell `frf_next` how far to step.
Concurrency is between processes: a reader can have the file mapped while it is
written again.

What is hard here is mostly not interleaving but long sequences of legal calls:
caches that are dropped at any moment (the lookup), slots that are shared by tags and
allocated in mid-row, records shared by rows that the reader steps by, counters
that start at one and wrap, keys that are looked up after they were freed, and rows
that end half done. Between processes it is kills and order: of `cat`, the
index and the rename, and of the pieces `cat` puts into a file someone has mapped.
`PROJECT.json` lists these hazards at their lines.

## Modules

    FrfFormat  <-  StringTable  <-  StringTableProofs, MCStringTable
        ^
        +-- FrfFile  <-  FrfReader  - - - - - - - - - - -.  (instance)
        |      ^                                          :
        +-- FrfTemplate <- FrfMaker <- FrfRender, FrfStat, FrfPerl
                               ^               :
                               |               : (instances)
                               +-- FrfRendering <- FrfReaders <- MCFrfReaders
                               |    ^      :             ^
                               |    |      + - FrfStore  |    (refined)
                               |    |                    |
                               FrfMakerProofs  <-  FrfReadersProofs

    MakeFrf   <- MakeFrfProofs              FrfBytes <- FrfBytesProofs
    FrfMalloc <- FrfMallocProofs            Utlist   <- UtlistProofs
    FrfTransformBase <- FrfTransform <- FrfTransformProofs
                                            Utlist - - Sequence (refined)

* **FrfFormat**: pointers. A word is the number its four bytes spell in file
  order, so that `htonl` and `ntohl` cancel. `Half` is 2^31. A string is an
  opaque value with a length; tiny strings also have the bits they are packed
  into. `Mangled` are the tiny strings whose top bit the flag replaces.
* **FrfBytes**: the same, byte by byte: how a string of up to four bytes is packed
  and flagged and taken apart again, and the prefix of one or four bytes in front of
  any other. It is what `TinyCode`, `Mangled` and `RecordSize` stand for.
* **StringTable**: `frf_maker_add_to_string_table`, one action per way through
  it (`AddTiny`, `AddKnown`, `AddShort`, `AddLong`). The arena of the lookup is
  a count of bytes; what one insertion takes out of it is any of `Growths`, since
  the hash table may grow at any insertion. `reset_at` and `issued` are history.
* **FrfFile**: the sections as a record and the reader's walk over them
  (`RowText` is `_frf_iovec`, `ToSkip` the step of `frf_next`).
* **FrfTemplate**: what the content file says, as constants, with the resolution
  of tags (`KeyOf`) and of dynamic content (`Alternative`).
* **FrfMaker**: `frf_maker_init` (`Init`), `frf_maker_precompile` one segment a
  step (`Precompile...`), `frf_maker_add` (`BeginAdd`, `CompileDc`, `SpliceDc`,
  `Emit...`, `FinishRow`), `frf_maker_finish` (`Finish`, where `cat` may fail
  unnoticed). Uses StringTable by INSTANCE on variables of the same names. Where
  the code writes behind `results` (see below), what becomes of the cell that
  lies there is a choice, and so is whether the program survives it
  (`OverrunCrashes`). The keys of dynamic content point into the JSON document,
  which is freed once the body is compiled: a lookup after that may miss
  (`MayMiss`), whereupon the key is tried as a call. Rows that follow a null pointer
  end in `pc = "crashed"`; a key with a parenthesis that does not compile ends the
  program (`PrecompileExits`, `pc = "exited"`), in mid-row if it is in dynamic
  content.
* **FrfStore**: the abstract specification: a store that keeps the rendering of
  each row under a handle of its own, for good.
* **FrfRendering**: what a row may render to, defined from the content file alone
  (no cells, slots or pointers), and the refinement mapping: the store is, for
  each offset returned, what `_frf_iovec` makes of the file there.
  `ImplementsStore` is `FrfStore`'s specification. `Renderings` is a function of
  the contents that is defined by itself; `Depth` and `DepthOf` say how deep
  dynamic content is nested, so that it is well-founded. What may be missed is a set
  of tags, by their content and place in it, which is what `Missable` bounds: only
  dynamic content named by an alternative and by no tag of the body. `Seen` is
  the string a reader gets of one, with the top bit of a mangled one cleared.
* **FrfReader**: the library on a file: opening it, `frf_next`, `frf_seek`,
  `frf_get_offset`, and the array of pieces that `frf_write`,
  `frf_get_render_size` and `frf_render_to_buffer` make. `frf_init` takes the section
  bases from the header's 32-bit words: where these do not lead to the sections
  (`HeaderLeads` fails: the sections before fill 4 GiB), where the file is torn, and
  where `frf_init` fails and nobody looks, the reader is `"astray"`, and what it then
  reads is nothing that was added (`Strange`). Reading the word behind the file gives
  zero or kills the program.
* **FrfRender**, **FrfStat**, **FrfPerl**: the programs that read. `main` of
  `render.c` with any option; both parts of the report of `stat.c`; a Perl script that
  steps, seeks, writes and keeps numbers in any order, which are doubles made of an
  int or an unsigned. `--mem_dump` renders through a `buf` local to `run` that
  nothing was assigned to (`render.c` line 91): where that leads to memory that may be
  written, the rendering is there (`RunDumps`), and else the program is killed or
  astray (`RunDumpsAstray`). `stat` keys one table with the low half of an address
  or the first four bytes of a string, both of them words (`Id`), so that one can
  be taken for the other; `Mapped` is where the file lies in memory.
* **FrfReaders**: the composition: the maker, then one of the three programs on
  the file it left.
* **MakeFrf**: `main` of `make_frf.c`, several runs of it on one disk: cutting a line
  into fields (`ReadLine`), adding the row (`AddRow`), the record (`IndexRow`), and
  then one call after the other (`Course`), with `cat` chunk by chunk. `Crash` can
  come between any two steps. A kill does not reach `cat`: one that was left alone
  (`orphans`) goes on with the file of its run, and once another run has
  begun may put anything anywhere in it (`mixed`). A line of more than `MaxFields`
  fields (100, the size of `p13n`) ends the program (`TooManyFields`). A row lies
  where it is in the file (`VectorEnd`), however far that is, and the offset given
  for it comes from the 32-bit counter. A reader maps the file at any moment (`Map`) and
  reads on (`ReadRow`). The maker is taken by the promise of FrfStore.
* **FrfTransformBase**, **FrfTransform**: the three functions on sequences of
  bytes, and the shift-reduce machine of the grammar, the evaluation of the tree with
  its frames, and its destruction, on a heap of nodes.
* **Utlist**, **Sequence**: the lists of `utlist.h` as cells and links, with a
  loop that frees the cell it stands on, and what they implement.
* **FrfMalloc**: the arena as a chain `lo .. hi` of buffers with the blocks cut
  from them, and an owner that does or does not keep what a reset answers
  (`frf_maker_precompile` throws it away for the callbacks' arena, line 302).
* **MC...**: values of constants. `MCTemplate` has six content files: `body`
  (nested two deep, all well), `freed` (dynamic content first named by an
  alternative), `crash` (rows that kill the maker), `spill` (tags there is no
  slot for), `calls` (a call in an alternative that does not compile, and dynamic
  content whose key is a call that does) and `odd` (a body that does not compile).

Each module that is mapped to code also holds, next to an operator, the faulty
variants of it ("a fault for the checks to find"); nothing else refers to them.
Each checked property is violated when one of them takes the operator's place.

## Runs

| Run | Module, cfg | Question | Distinct states |
|---|---|---|---|
| `string_table` | MCStringTable | do pointers resolve below 2 GiB, is the lookup live, and does the maker's assertion on pointers hold up to 4 GiB? | 8,384 |
| `string_table_2gib` | MCStringTable, 2GiB | are pointers 32 bits wide, as the README has it? (violated) | |
| `frf_maker` | MCFrfMaker | do rows of the six content files keep the file in step and implement the store, whatever is missed, killed or overrun, and does the call return? | 15,452 |
| `frf_maker_assert` | MCFrfMaker, Assert | does the maker's assertion hold of that content? (violated) | |
| `readers` | MCFrfReaders | is the row asked for the row shown, by render and by a script, is the report of stat right, and do the programs end? | 137,705 |
| `render_all` | MCFrfReaders, All | does `--all` act on records only? (violated) | |
| `arena` | FrfMalloc | do blocks stay apart, under growth and resets? | 567,274 |
| `make_frf` | MCMakeFrf | do file and index agree after kills and reruns, with `cat`s that outlive their run, and what does a reader of a half-made file see? | 4,286,274 |
| `make_frf_last_field` | MCMakeFrf, LastField | is the index off the given field? (violated) | |
| `transform` | MCFrfTransform | is the tree the one of the grammar, the value the one of the tree, and is all of it freed once? | 47,894 |
| `bytes` | FrfBytes | does what was packed come back? | 68,350 |
| `utlist` | Utlist | are the lists sequences, also for a loop that frees? | 4,793 |

Properties:

* string table: `PointersResolve`, `LookupLive`, `NoDuplicates`, `ArenaBounded`,
  `IndexInTable`;
* maker: `TypeOK`, `SlotsDistinct` (tags never share a slot), `UniqueCellsSound`
  (a shared record says how many words each of its rows has in the vectors),
  `RowsInStep` (stepping as `frf_next` does visits exactly the offsets that
  were returned), `IndexesSound` (the asserts of `frf_maker.c`, for a row that
  overruns nothing), `HeaderExact`, `ImplementsStore` (refinement), `AddReturns`
  (liveness);
* readers: `ShownIsAdded`, `AskedIsShown`, `BufferHoldsRow` of render,
  `ReportIsRight` and `CountsUnique` of stat, `WritesTheRow` and `SeeksTheRow` of a
  script, `ReadersEnd` (liveness). Those on what is shown, counted or written speak of
  a program that is not astray (`OnCourse`); `BufferHoldsRow` of a buffer that could
  be written; `CountsUnique` leaves the strings that `stat` can take for others
  (`Confused`) out of its lower bound. That a reader has ended includes, in
  `ReadersEnd`, that it was killed or is astray;
* arena: `BlocksInside`, `BlocksDisjoint`, `UsedExact`;
* make_frf: `IndexNeverAhead`, `DoneAgrees`, `FieldsOwn`, `KeysOwn`,
  `MappedSeesPrefix`;
* transforms: `CompilesTheGrammar`, `PrintsBack`, `ExecYields` (against a
  reference definition by recursion on the tree), `FreesAll`, `Ends` (liveness);
* bytes: `RoundTrip`, `LengthSurvives`; lists: `Linked`, `VisitsAll`, and
  `IsSequence` (refinement).

### Bounds, and why they are enough

* Strings: one of each size class at least, with both sides of each border (lengths 4
  and 5, 7 and 8 where `ShortMax` is 8), an empty one, and a mangled twin of a
  tiny one. `Half` is 24 for the string table, whose 44 bytes pass 2 GiB in scale and
  stop just short of 4 GiB; 56 for the readers, so that the later of four rows are at
  offsets an int has no room for, and the vectors of files with three records begin
  at 118, beyond the 112 a header word can say; 16 for `make_frf`, for the same reason.
* `UsedLimit` and `Growths` make the arena reset after one to three insertions.
* Content: see `MCTemplate`: a tag in two contents, a macro, a callback that
  replaces a key, a tag that means nothing, transforms, rows that select
  different alternatives. `MaxRows` is 3: an earlier row, the row, a later one;
  four different rows of values are enough for a hit and a miss of each lookup.
* `spill` has four tags in the body, as many as the 16-byte rounding of
  `results` holds, and alternatives that add three more, so that every new
  slot lies behind the array, the first time before a cell is emitted. The model
  lets a store there change the type and the word of the cell behind, which is
  what the first slots behind `results` overlap; or crash the program, which is what
  becomes of it when the pointers of that cell are hit, or the end of the arena's
  buffer is passed.
  The build of the Makefile has assertions on; the model goes on after one that
  fails, as a build with NDEBUG would.
* Readers: `IovMax` is 5, so that one row has more pieces than the array, some as
  many, some fewer; `BufSize` is 15, which one row fits exactly and others miss by
  some bytes; `Past` is 1: render may look for one row more than there are. `sadly`
  begins like `sadl`, and `Hello ` lies at an address that is also the first bytes of
  `ANN!`, which `stat` cannot tell apart.
* make_frf: four files of up to four lines, with lines that are short of a field, have
  one too many, or miss their newline; one has its last row at 4 GiB, where the offset
  given for it is that of the first, and one has a line of four fields where
  `MaxFields` is 3; command lines with an index, with one that has
  options besides, and without. `MaxRuns` is 2: one that is killed, or not, and
  one that finds what it left.
* Transforms: every sequence of up to five tokens out of five kinds, and fourteen longer
  calls: nested ones, ones that refuse at each place, ones with as many
  arguments as there is room for (`BufSize` is 3 in place of 100) and one more.
  Numbers wrap at 128.
* Bytes: strings of up to four bytes over an alphabet with both sides of the top bit, and
  the lengths on both sides of each border of a prefix byte.
* Lists: four elements: a head, a tail, one between, and one more.
* Arena: an alignment of 4, requests of zero, below a unit, two units, and
  more than twice the first buffer; three buffers, so that a reset happens with
  one, two and three of them.

Deadlock is checked in every run: a maker that has finished, crashed or exited, a
program that has ended and an arena with a dangling head have explicit stuttering
steps, or the maker's.

### Fairness

`FrfMaker` has `WF_vars(Step)`: once `frf_maker_init` or `frf_maker_add` has
begun it runs on to its return, since there is one thread and nothing in the call
blocks. Nothing obliges anyone to add a row or to finish. `FrfReaders` has
weak fairness of the steps of render and of stat, and `FrfTransform` of its step, for the
same reason; a script may stop anywhere, and so may `make_frf`, which can be
killed. `AddReturns` is checked on content whose dynamic pieces do not lead back
to themselves; on content that does, the loop of `frf_maker_add` does not end,
which is a restriction on content files that nothing in the code checks.

## What the checks found

* **Pointers are 31 bits wide** (`string_table_2gib`). README line 47 says 32;
  `frf.c` line 110 takes the top bit for the mark of a tiny string. A record
  at or above 2 GiB cannot be read. Below, everything resolves.
* **`results` is not grown** (`frf_maker_assert`). `frf_maker.c` line 762 makes
  and fills `new_results`, and 764 clears `results + old_num_uniq_tags` instead:
  the array in use is written behind its end as soon as the new tags do not fit
  the rounding. When no cell was emitted yet, the first cell of the alternative
  lies there and turns static, and the assertion of line 793 fails on its word.
  `ImplementsStore` and `IndexesSound` show that rows that touch nothing behind
  the array are right all the same, before and after such a row.
* **`--all` acts once too often** (`render_all`): `frf_next` compares with `<=`
  (`frf.c` line 159). The additional time, it writes nothing, and `frf_next` then
  reads behind the file. On a file without rows the loop acts once, too, since it asks
  afterwards (`render.c` lines 136-138).
* **The last field is never the key** (`make_frf_last_field`). `make_frf.c` looks for
  the key among the fields that a tab follows (103-112), so that `--make_cdb` with
  the number of the last one puts the record under an unset pointer, or under
  the key of an earlier line. Line 26 says "off of the given field".

README lines 36-37 of the repository still describe the mark for "in the vector" as
`3 << 30`; the code, and lines 50-52, say zero. The model follows the code.

## Proofs

**StringTableProofs** proves, for every set of strings, word size, arena limit
and growth: `TypeOK`, `PointersResolve`, `LookupLive`, `NoDuplicates`,
`ArenaBounded`, `IndexInTable`, each as `Spec => []P`. It assumes
`FormatAssumption` (lengths are naturals; packing is injective on strings that are
not mangled; `TinyMax <= ShortMax`) and `TableAssumption`. The properties are not
inductive: that a pointer still resolves after the next write, and after the next
reset, needs the counter to be one more than the file's size until it wraps
(`CounterTracks`), the records and the reset mark to lie inside the file
(`RecordsInFile`), each record to end before the next begins (`RecordsApart`, from
which two records have two addresses in a reader's memory), the lookup to lead to records of its strings written since the
reset and to miss none of them (`LookupSound`, `LookupComplete`), and every pointer
handed out to be a packed string or to lead to a record of its string
(`IssuedSound`). The inductive invariant
`IInv` is the conjunction of these; the
steps of its proof follow the four ways through the function, each with small
lemmas about adding a record.

**FrfBytesProofs** proves `RoundTrip` (every string of up to four bytes comes back,
but for the top bit of a fourth), `WordIsTiny` (every packed word has the flag)
and `LengthSurvives`, for every alphabet and every length below 2 GiB. With
`RoundTrip` the assumption of FrfFormat that packing is injective on strings that
are not mangled is a fact about the code.

**FrfMallocProofs** proves for every alignment, first size and set of requests:
`TypeOK`, `BlocksInside`, `BlocksDisjoint`, `BuffersDouble`, `Aligned`
and `UsedExact`. `BlocksDisjoint` needs `TailCut`: what was cut from the
tail ends where the tail is used to. `Aligned` needs that a multiple of the
alignment leaves no remainder, which the SMT solver does not know for a variable
divisor; `MultipleOf` shows it from division with remainder. `UsedExact` is
about a sum over the set of blocks: `BytesOf` and `SumStep` say what one more
block adds to it.

**FrfMakerProofs** proves of the maker, for every content file (finitely many keys,
recursive or not) and every set of rows: `TypeOK`, `SlotsDistinct` and
`HeaderExact`. It assumes `FormatAssumption`, `TemplateAssumption` and
`MakerAssumption`. The types need to know where the maker is (`PlaceOK`): that
there is a row whenever an alternative is compiled or a cell taken off the stack,
that an alternative is never the body, and that the body is compiled before a
row begins; and that the known tags are counted (`TagsCounted`, `SlotLeft`), so
that a new one always finds a slot number. It also says that what a store
behind `results` leaves are still words and cells, as the model has it.
That a slot number is below the number of keys does not say that `results` has
room for it, and the theorems do not assume that it has.
`SlotsDistinct` needs that the slots given out lie below the counter
(`SlotsCounted`). `HeaderExact` needs each 32-bit counter to be what it counts as
long as that fits (`TableCounted`, `UcCounted`, `RowsCounted`), and that nothing
is added once there is a file (`FileIsLast`).

It goes on to the words, records and rows, each with an invariant on top of the
one before:

* `IndexesSound`: every word a row emits points below 4 GiB into the string table, or
  is a packed string, as the asserts say. `WordsInv` follows the word from the
  string table through the compiled segment, the slot or the stack to the cell;
  a row that wrote behind `results` is left out by `OverrunNoted`, which says that
  `overrun` is noted before a cell can be damaged.
* `UniqueCellsSound`: what the reader steps by. `RecordsKept` says that every key
  of the lookup lies in the unique cells as a record, under the offset it leads to,
  with the count of words that are in the vector. It needs `RowCounted`: the vector
  of the row so far has as many words as the row has open cells.
* `RowsInStep`: stepping visits exactly the offsets that were returned. `RowsKept`
  gives each answered row its record and its place, which is one word and the count of
  that record behind the last one's, which is the relation of the walk; the vectors
  are counted as long as they fit 32 bits (`TableFits`, `UcFits`, `VFits`: all three
  sections below 4 GiB).

Its last part is about FrfRendering and proves `MakerImplementsStore`: `Spec /\ []Small => ImplementsStore`,
where `Small` has every section of the file below 2 GiB. Above that the
property is false of the code: pointers are 31 bits wide, and the offset
`frf_maker_add` returns is an int. All states of the run `frf_maker` are small. What
is kept step by step (`StoreInv`) asks for less, `PointersFit`: the strings below
2 GiB, as their pointers need it, and the other two sections below 4 GiB. It
assumes `DepthAssumption` besides (content that leads back to itself has no
rendering, and the maker does not come to an end on it). The argument:

* What is rendered. `Renderings` is a solution of its own definition
  (`RenderingsAre`), by induction on `DepthOf`. The induction is over sets of numbers,
  from a lemma that a set of naturals with an element has a least one, which the
  library's theorem on the well-foundedness of `<` gives; the library's induction
  theorems cannot be instantiated here. `UpTo` and `Joined` take `FlattenSeq` apart,
  prefix by prefix.
* What was compiled. `TagsRight`: a compiled tag is one of its content, with the slot
  of its key; `TagsMet` and `CompilesOnce`: a content is compiled from front to end
  once, and a key has a slot since it was met. `ResultsRight`: a slot of the
  row at hand is empty or holds what the tag's key comes to.
* What may be missed. Whether a lookup of a freed key misses is a choice that is
  made once, when an alternative is compiled, and holds for every later row; the row
  that is answered now must render to what the store has for that choice. `Faithful(m)`
  says that compiled contents (`CompiledRight`), the one being compiled
  (`CompilingRight`) and the row at hand (`RowRight`) are those of the misses `m`. A
  choice that is not made yet cannot be named, so the invariant (`MissesSettled`)
  is that there are misses `n` such that every `m` that agrees with `n` on the segments
  already compiled is faithful. A step that compiles a segment picks the `n` that fits;
  every other step keeps it.
* The row. `Spells` says what the cells still on the stack come to, `Shows` what
  the emitted cells and the vector show, given the pointers handed out. At each step,
  what is shown joined with what is still to be spelled is the rendering.
  `WordsLead` says that a word handed out reads back as `Seen` of its string, from
  the theorem of StringTableProofs (its module is instantiated on the maker's
  variables).
* The file. `RecordsLie` and `RowsLie`: each record and each row lies, word by
  word, where its offset leads, and the row's record is the one its first word points
  to. What is added behind (`StoreStays`) changes none of that.

`StoreInv` is the conjunction, with the invariants of the earlier parts
(`RowsInv`, `SlotsInv`) and the one of the string table. `StoreInvStep` is that it
is inductive, `StepsImplement` that each step of the maker is `Add` of the store, for
`FinishRow` of a row that touched nothing behind `results`, or leaves the store alone.

**FrfReadersProofs** proves of the programs that read, for every content file, every
set of rows and every order of calls: `ShownIsAdded`, `AskedIsShown` and
`BufferHoldsRow` of render, `ReportIsRight` and `CountsUnique` of stat, `WritesTheRow`
and `SeeksTheRow` of a script, each as `ReadersSpec /\ []Readable => []P`. `Readable` has the pointers fit
(`PointersFit`: rows beyond 2 GiB, whose offsets are negative ints, are included), no
row written behind its `results` and nothing of the content missed (the rendering of
such rows is not one the content file alone determines), and no row pointer beyond
4 GiB (where `frf_get_offset` wraps; `frf_next` goes on without limit behind the
end). TLC finds all of it, with every kind of option and number, in the run
`readers`. `ReadersAssumption` says that a word's bytes are four, that a tiny string
whose top bit is cleared is another string (any bytes are), and that strings of at
most four bytes are told by their first four.

That the header leads to the sections is not assumed. The programs open whatever file
there is, and where its header does not lead to them they are astray; all that is
claimed of what they show is claimed on course (`OnCourse`), as is the invariant
(`ReadersInv`: `OnCourse => CourseInv`). A program that has gone astray does not come
back (`OnceAstray`).

* The library is the one of the maker's side: its operators, instantiated in each
  program, are those of FrfFile (`SameSteps`, `SameIovec`, `SameShot`).
* `Nth(n, r)`: r is where the n-th row begins, or anywhere behind the last one. The
  first row is at zero (`FirstRow`); a step leads from each place to the next
  (`RowFollows`, from `RowsKept` and `RecordsKept`); an offset leads to its row, and
  any other that render may be given, -4 and the ones at and behind the end
  included, behind the last row or to the first (`SeekLands`). At each
  place the row that was added, in its rendering, is read (`RowIsThere`, from
  `RowsLie`, `RecordsLie` and `WordsLead`), or nothing.
* `RenderInv` says for each place of `main` which rows have been shown: all up to
  the one at hand (`ShownBefore`), or the one that was asked for (`Asked`).
  `PerlInv` says where a kept number came from (`KeptRight`) and where the last
  seek led (`SoughtRight`), through a double and an unsigned.
* The maker is done before anything is read (`FileThere`), so that its steps change
  nothing of this (`FileStays`); a program keeps nothing of another (`Bystanders`).
* `BufferHoldsRow` needs the sums of the lengths, which are a recursive function:
  that there is one (`SizesExist`), that they do not fall (`SizesAre`), that those of
  a prefix are the first of the whole (`SizeOfFirst`), and that the pieces that fit are
  therefore a prefix, the longest one (`CopiedFit`).

* stat counts what it meets row by row, and the properties speak of the whole file. What
  the rows up to the n-th amount to is `Tallied(n)` (their pieces and lengths, by
  class), `IdsTallied(n)` (the ids met, by class) and `CellsOf(n)` (the records met);
  `StatInv` says how many rows are counted at each place of `main`, with the record
  at zero met once more behind the last row. A turn adds one row
  (`LastTurnTallies`, `TurnTallies`): sums over texts that are joined row by row
  are the sums over the join (`PrefixesJoin`, `CountsJoin`, `SizesJoin`). The
  ids of a row count once, and no more than are new (`FirstPlaces`, `ClassByClass`,
  `TurnMeetsIds`).
* `RecordsMet`: every record was made for a row, and the first one lies at zero. The
  record offsets stat has met at the end are therefore those of all records, and of no
  other place, also with the turn at the end (`CellsAreRecords`). That `num_rows` is the
  number of rows needs that it has not wrapped: there are no more rows than words
  (`RowsAreCounted`).
* `CountsUnique` counts ids against strings. Both kinds of id are
  words, so that an address may be some bytes. Each string of a row that is not
  `Confused` is that of some id, and of no other string's (`IdsCover`): two records lie
  apart, so that their addresses differ (`AddressesApart`, `ToldApart`). Each id by address is
  of a string in the table, each id by bytes of one there or of one that was
  packed, which as a string is in `Texts` (`IdsAreCovered`).

**UtlistProofs** proves for every set of elements `Linked`, `VisitsAll` and
`IsSequence`. `ListInv` says that the cells from the head on are the listed ones, each
once (`Chain`), linked both ways, with the tail behind the head; the loop's cell and
the one saved for it are in the list or were freed by it. `IsSequence` is the
refinement of Sequence: each macro is the step of its name on the sequence the cells
spell.

**MakeFrfProofs** proves of `make_frf`, for every input, command line and number
of runs, wherever these are killed: `IndexNeverAhead`, `MappedSeesPrefix`,
`FieldsOwn`, `KeysOwn`, `DoneAgrees` and `TypeOK`, from `MakeFrfAssumption`. `OrderInv`
dates everything on the disk by the run it is of, and has the file of this run
from the moment `cat` begins. `PrefixInv` adds that a file is always a prefix, chunk
by chunk, of `Whole` of some run, and that what a reader has read stays as it was
read until the file is written again; a `cat` that outlived its run copies the same
pieces (`Putting`) until the next run empties them. `LineInv` says where each pointer into the line
buffer leads, which is what an earlier line leaves when a line is short of a
field. `DoneInv` counts lines, rows and records against each other and gives the place
of each row, through int, decimal text and unsigned (`SeekLands`): a row lies where
the words before it end, however far, and the counter says so below 4 GiB. Rows
beyond, and runs whose file a stray `cat` wrote to, are left out of `DoneAgrees`.

**FrfTransformProofs** proves of the transforms, for every text, every assignment of
names to fields, every set of rows and any size of the buffer: `CompilesTheGrammar`,
`PrintsBack`, `ExecYields` and `FreesAll`. It assumes `TransformAssumption`: texts are sequences of
what the lexer makes, a row has a string for every field, and "undefined" is none.
`Apply` stays what it is: nothing is used of the three functions.

* The types. `HandleMeans` turns what bison does, a suffix of the stack, into entries at
  places. Each parser step is then one of eight forms (`ShiftsName` ...
  `MakesCall`), which say what is allocated and what is pushed in place of what;
  `StepsAre` reduces every step of the program to these. `TypesInv` has the
  kind of node each pointer leads to, and that it leads to an earlier one (but for a
  field, which lies behind its expression): the tree has no cycles.
* `FreesAll`. `OwnInv` gives every node one owner: a node, or an entry of the stack.
  `RunInv` says that the calls that are not over are a path down the tree, so that
  no expression is evaluated or destroyed while one below it is. `DestroyInv` says
  what is freed so far: nothing twice, each node behind all it leads to, and of
  the calls that are not over exactly the arguments they are past.
* `PrintsBack`. `PrintedSoFar` gives each entry of the stack the span of the text it was
  read from, and says that it is printed as that span. A reduction joins
  spans (`SpansJoin`, `SpansFollow`); the arguments with commas between them
  are taken apart by `PrintedNext` and lemmas about joining pieces one by one.
* `ExecYields`. `Evaluates` is that each call has what its arguments so far came to,
  and that what the last call over came to is what the tree says of that place.
  When an argument refuses, or there is no room for it, or the transform has no
  meaning, so it is for every call below (`NoMeaning`), down to the root.
* `CompilesTheGrammar`. The grammar (`IsSentence`) says where in the text expressions and
  lists of each length begin; it knows nothing of a stack or of looking ahead.
  `Derived` is that each entry of the stack is derived by the grammar from its span,
  that no expression or list on it is a name a parenthesis follows, and which
  symbol may lie on which. So what is accepted is a sentence (`AcceptsSentences`).
  The converse is that a reduction is never premature: `PartsTell`, by induction over
  the lengths, is that where a list begins both a shorter and a longer part, the
  longer one goes on behind a comma, or opens the parenthesis of a name. Hence
  in a sentence every parenthesis and comma on the stack has a list to come that
  ends before a parenthesis, and every call is of a name the library knows
  (`AllHope`, from the bottom up), and whatever is on top can be
  shifted onto, reduced or accepted (`SentenceGoesOn`).
* What is printed, what an expression comes to and what the grammar derives are functions
  defined by themselves. That there are such functions (`ValuesExist`, `PrintedIs`,
  `PartsExist`) is shown along the pointers, which lead down, by the least
  counterexample, or by length. Induction over the numbers is `AllNumbers`: for a
  set of them, not for an operator, which could not be instantiated here.

Only model-checked: the liveness properties `AddReturns`, `ReadersEnd` and `Ends`:
liveness under fairness and ENABLED are out of the prover's reach.

## Not modelled

* Reading JSON and the regular expression that cuts a content: their result is
  FrfTemplate. (`frf_maker.c` 13-150, but for the keys of dynamic content, which
  are freed with the document.)
* `frf_maker_destroy` (605-730), `frf_malloc_context_destroy` and what else frees everything
  at the end: nothing is used after them.
* `fopen` and `fwrite` that fail before `cat`, and descriptors that leak.
* The index format of `make_frf`: it is a sequence of records, and `cdb_make_finish`
  makes the index one of the records of its run, whatever longer one was in the
  file before. cdb is not in the repository.
* The moment between the shell's emptying the file and the start of `cat` (both belong
  to `Finish`), and what a program does that survives writing beyond `p13n`.
* What becomes of a program whose memory is spoilt, by the array of pieces, by the
  buffer of `run` or behind `results`: it may do anything or be killed.
* In the report of `stat`: bytes of unique strings, and ratios.
* In the binding: `add` with arrays that are too short, which reads behind them.
* `uthash.h` (tables are functions on the keys that are in them), `utstring.h`
  (strings are values), `ppport.h` (generated), build rules and sample data. These
  headers are most of the lines of C in the repository (8,637 of 10,681): the
  map covers a good part of the program's own lines, and little of all lines.

## Plan

1. Destroying: makers, readers, arenas; nothing is used after it.
