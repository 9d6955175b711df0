----------------------------- MODULE FrfRender -----------------------------
(***************************************************************************)
(* The program render (render.c): it opens the file the maker made and     *)
(* acts on all its rows, on the row at an offset, or on the nth row.       *)
(***************************************************************************)
EXTENDS FrfMaker

CONSTANTS
  IovMax,
  BufSize   (* The size of the buffer a row is rendered to.                *)

VARIABLES
  reader, row_ptr, (* As in FrfReader.                                     *)
  main,            (* Where main is: "start", "seek", "run", "next", "end" *)
  option,          (* What it was asked: [mode, arg, mem_dump].            *)
  i,               (* The rows skipped so far.                             *)
  shown            (* History: what run acted on, and where.               *)

readerVars == << reader, row_ptr >>
mainVars == << main, option, i, shown >>
renderVars == << readerVars, mainVars >>

R == INSTANCE FrfReader

Unasked == [mode |-> "none", arg |-> 0, mem_dump |-> FALSE]

RenderInit == option = Unasked /\ i = 0 /\ shown = {}

(* The sections of a file whose header leads to them. *)
Opened == file.sections

(* The offsets make_frf would have kept, one at the end and one behind it, *)
(* a negative one, and the numbers of rows.                                *)
OffsetsAsked ==
  {answers[j].offset : j \in DOMAIN answers} \cup {-4, 4 * Len(v), 4 * Len(v) + 4}
Options ==
  [mode : {"all"}, arg : {0}, mem_dump : BOOLEAN]
  \cup [mode : {"seek_offset"}, arg : OffsetsAsked, mem_dump : BOOLEAN]
  \cup [mode : {"seek_row"}, arg : 0 .. num_rows + 1, mem_dump : BOOLEAN]

(* What frf_init answers is not looked at. *)
Start ==
  /\ main = "start" /\ pc = "finished"
  /\ \/ file.state = "whole" /\ R!Open(HeaderLeads)
     \/ R!OpenNothing
  /\ option' \in Options
  /\ main' = IF option'.mode = "all" THEN "run" ELSE "seek"
  /\ UNCHANGED << i, shown >>

(* seek_offset: what frf_seek answers is not looked at. *)
SeekOffset ==
  /\ main = "seek" /\ option.mode = "seek_offset"
  /\ R!Seek(option.arg)
  /\ main' = "run"
  /\ UNCHANGED << option, i, shown >>

(* seek_row: neither is what frf_next answers. *)
SkipRow ==
  /\ main = "seek" /\ option.mode = "seek_row" /\ i < option.arg
  /\ \/ R!Next(Opened) /\ i' = i + 1
     \/ R!NextFaults(Opened) /\ UNCHANGED i
  /\ UNCHANGED << main, option, shown >>

Skipped ==
  /\ main = "seek" /\ option.mode = "seek_row" /\ i = option.arg
  /\ reader = "open"
  /\ main' = "run"
  /\ UNCHANGED << readerVars, option, i, shown >>

AfterRun == IF option.mode = "all" THEN "next" ELSE "end"

(* run: the offset is printed, the row is written, its size is printed. *)
NoBuffer == [answer |-> "none"]
Shows(buffered) ==
  shown' = shown \cup
    {[at |-> R!GetOffset, row |-> R!Iovec(Opened), size |-> R!RenderSize(Opened),
      buffered |-> buffered]}

Run ==
  /\ main = "run" /\ reader = "open" /\ R!Fits(Opened)
  /\ ~option.mem_dump
  /\ Shows(NoBuffer)
  /\ main' = AfterRun
  /\ UNCHANGED << readerVars, option, i >>

(* With mem_dump it is rendered to a buffer, too, but not to the one main  *)
(* has allocated: run has a `buf' of its own that nothing was assigned to. *)
(* Where that leads to memory the program can do without, the rendering is *)
(* there...                                                                *)
RunDumps ==
  /\ main = "run" /\ reader = "open" /\ R!Fits(Opened)
  /\ option.mem_dump
  /\ LET rendered == R!RenderToBuffer(Opened, BufSize) IN
       /\ Shows(rendered)
       /\ reader' \in IF rendered.answer = -1 THEN {"open", "killed"} ELSE {"open"}
  /\ main' = AfterRun
  /\ UNCHANGED << row_ptr, option, i >>

(* ...and else the program is killed, or spoils its own memory.  (It may   *)
(* be killed in the other case, too: where a piece did not fit, it writes  *)
(* out as many bytes as -1 is as a size_t.)                                *)
RunDumpsAstray ==
  /\ main = "run" /\ reader = "open" /\ R!Fits(Opened)
  /\ option.mem_dump
  /\ Shows(NoBuffer)
  /\ reader' \in {"killed", "astray"}
  /\ UNCHANGED << row_ptr, main, option, i >>

(* A row of too many pieces overflows the array: the program is killed,    *)
(* spoils its own memory, or gets away with it, and writev refuses so many *)
(* pieces.                                                                 *)
RunOverflows ==
  /\ main = "run"
  /\ R!Overflows(Opened)
  /\ \/ reader' \in {"killed", "astray"} /\ UNCHANGED main
     \/ reader' = reader /\ main' = AfterRun
  /\ UNCHANGED << option, i, shown >>

(* A program astray may show anything, or be killed; nobody follows it.    *)
Strays ==
  /\ reader = "astray" /\ main \in {"seek", "run", "next"}
  /\ shown' = shown \cup
       {[at |-> R!GetOffset, row |-> R!Strange, size |-> 0, buffered |-> NoBuffer]}
  /\ main' = "end"
  /\ UNCHANGED << readerVars, option, i >>

(* The loop over all rows goes on as long as frf_next says so. *)
NextRow ==
  /\ main = "next"
  /\ \/ R!Next(Opened) /\ main' = IF R!NextAnswers(Opened) THEN "run" ELSE "end"
     \/ R!NextFaults(Opened) /\ UNCHANGED main
  /\ UNCHANGED << option, i, shown >>

RenderStep ==
  \/ Start \/ SeekOffset \/ SkipRow \/ Skipped \/ NextRow
  \/ Run \/ RunDumps \/ RunDumpsAstray \/ RunOverflows \/ Strays
=============================================================================
