------------------------------ MODULE FrfPerl ------------------------------
(***************************************************************************)
(* A Perl script that reads a file through the binding (FRF.xs, FRF.pm):   *)
(* it loads the file, and then steps, seeks and writes in whatever order   *)
(* it likes.  A number it keeps for later is one that add or get_offset    *)
(* gave it; Perl holds either as a double.                                 *)
(***************************************************************************)
EXTENDS FrfMaker

CONSTANTS
  IovMax,
  Past      (* Bound: how far behind the file the script steps, in words.  *)

VARIABLES
  reader, row_ptr, (* As in FrfReader.                                     *)
  object,          (* The object: "none", "null", "live" or "gone".        *)
  kept,            (* The number kept: [from, row, offset],                *)
  sought,          (* what was sought last, and not stepped from since,    *)
  wrote            (* and what was written last, and at which row pointer. *)

perlVars == << reader, row_ptr, object, kept, sought, wrote >>

R == INSTANCE FrfReader

Unkept == [from |-> "nowhere"]
Unwritten == [at |-> -1]

PerlInit ==
  /\ object = "none" /\ kept = Unkept /\ sought = Unkept /\ wrote = Unwritten

Opened == file.sections

(* FRF->load blesses what frf_new answers, which is NULL when there is no  *)
(* file of the name given; a torn one is taken for a file.                 *)
Load ==
  /\ object = "none"
  /\ \/ file.state = "whole" /\ R!Open(HeaderLeads) /\ object' = "live"
     \/ file.state = "torn" /\ R!OpenNothing /\ object' = "live"
     \/ UNCHANGED << reader, row_ptr >> /\ object' = "null"
  /\ UNCHANGED << kept, sought, wrote >>

(* Every method of an object that is NULL is the last thing the script     *)
(* does, and there is one it cannot avoid: DESTROY.                        *)
NullKills ==
  /\ object = "null" /\ reader # "killed"
  /\ reader' = "killed"
  /\ UNCHANGED << row_ptr, object, kept, sought, wrote >>

Live == object = "live" /\ reader = "open"

NextRow ==
  /\ Live /\ row_ptr <= Len(Opened.v) + Past
  /\ R!Next(Opened) \/ R!NextFaults(Opened)
  /\ sought' = Unkept
  /\ UNCHANGED << object, kept, wrote >>

(* What add returned for a row was kept, or where the script is now is. *)
KeepAnswer ==
  /\ Live /\ kept = Unkept
  /\ \E j \in DOMAIN answers :
       kept' = [from |-> "add", row |-> j, offset |-> answers[j].offset]
  /\ UNCHANGED << reader, row_ptr, object, sought, wrote >>

KeepOffset ==
  /\ Live /\ kept = Unkept
  /\ kept' = [from |-> "get_offset", row |-> row_ptr, offset |-> R!GetOffset]
  /\ UNCHANGED << reader, row_ptr, object, sought, wrote >>

(* A fault for the checks to find: the number is taken for an int. *)
AsSigned(number) == {IF number >= Half THEN 0 ELSE number % (2 * Half)}

(* (uint32_t) of a double: it wraps below zero, or stays at zero, as the   *)
(* processor has it.                                                       *)
AsUint32(number) ==
  IF number >= 0 THEN {number} ELSE {0, number % (2 * Half)}

Seek ==
  /\ Live /\ kept # Unkept
  /\ \E uoffset \in AsUint32(kept.offset) : R!Seek(uoffset)
  /\ sought' = kept /\ kept' = Unkept
  /\ UNCHANGED << object, wrote >>

Write ==
  /\ Live /\ R!Fits(Opened)
  /\ wrote' = [at |-> row_ptr, row |-> R!Iovec(Opened)]
  /\ UNCHANGED << reader, row_ptr, object, kept, sought >>

WriteOverflows ==
  /\ Live /\ ~R!Fits(Opened)
  /\ reader' \in {"killed", "astray"}
  /\ UNCHANGED << row_ptr, object, kept, sought, wrote >>

(* A script astray may write anything, or be killed; nobody follows it. *)
Strays ==
  /\ object = "live" /\ reader = "astray"
  /\ wrote' = [at |-> row_ptr, row |-> R!Strange]
  /\ UNCHANGED << reader, row_ptr, object, kept, sought >>

(* DESTROY, when the last reference goes. *)
Destroy ==
  /\ Live
  /\ object' = "gone" /\ reader' = "closed"
  /\ UNCHANGED << row_ptr, kept, sought, wrote >>

PerlStep ==
  /\ pc = "finished"
  /\ \/ Load \/ NullKills \/ NextRow \/ KeepAnswer \/ KeepOffset \/ Seek
     \/ Write \/ WriteOverflows \/ Strays \/ Destroy
=============================================================================
