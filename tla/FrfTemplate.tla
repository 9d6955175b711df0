---------------------------- MODULE FrfTemplate ----------------------------
(***************************************************************************)
(* What content files say, once frf_maker_init has read one: the contents  *)
(* (the body, and every alternative of a piece of dynamic content) as the  *)
(* segments the content_re expression cuts them into, and the lookups a    *)
(* tag is resolved by.                                                     *)
(*                                                                         *)
(* A content is a sequence of segments: a non-empty text, or a %% tag %%.  *)
(***************************************************************************)
EXTENDS FrfFormat, Sequences, FiniteSets

CONSTANTS
  Contents,   (* The contents; each is compiled once, when first needed.   *)
  Bodies,     (* The ones rows start from, one in each content file.       *)
  SegmentsOf, (* The segments of each content.                             *)
  Keys,       (* The keys tags can have.                                   *)
  MacroOf,    (* macro_lookup: the key some keys stand for.                *)
  TagCb,      (* tag_cb of the callback library: a key it puts in place.   *)
  FieldOf,    (* p13n_lookup: the field some keys name.                    *)
  Dc,         (* dc_lookup: field, alternatives by value, and default.     *)
  CallKeys,   (* Keys with a parenthesis, which are taken for calls.       *)
  DtKeys,     (* The ones that compile: of transforms there are.           *)
  Exec,       (* frf_transform_exec: the string a call yields for a row.   *)
  NoValue,    (* NULL, what a transform yields when it refuses.            *)
  Rows        (* Personalization rows: a string for every field.           *)

Text(s) == [kind |-> "text", str |-> s]
Tag(k) == [kind |-> "tag", key |-> k]

ASSUME TemplateAssumption ==
  /\ Bodies \subseteq Contents /\ IsFiniteSet(Keys)
  /\ SegmentsOf \in [Contents -> Seq({Text(s) : s \in {t \in Strings : LenOf[t] > 0}}
                                        \cup {Tag(k) : k \in Keys})]
  /\ DOMAIN MacroOf \subseteq Keys /\ \A k \in DOMAIN MacroOf : MacroOf[k] \in Keys
  /\ TagCb \in [Keys -> Keys]
  /\ DOMAIN FieldOf \subseteq Keys /\ DOMAIN Dc \subseteq Keys
  /\ DtKeys \subseteq CallKeys /\ CallKeys \subseteq Keys
  /\ \A d \in DOMAIN Dc :
       /\ Dc[d].def \in Contents \ Bodies
       /\ \A s \in DOMAIN Dc[d].alternatives : Dc[d].alternatives[s] \in Contents \ Bodies
       /\ \A p \in Rows : Dc[d].field \in DOMAIN p
  /\ \A p \in Rows : \A k \in DOMAIN FieldOf : p[FieldOf[k]] \in Strings
  /\ NoValue \notin Strings
  /\ Exec \in [DtKeys -> [Rows -> Strings \cup {NoValue}]]

(* The key a tag is looked up by: macros first, then the callback. *)
KeyOf(k) == TagCb[IF k \in DOMAIN MacroOf THEN MacroOf[k] ELSE k]

(* The content a piece of dynamic content comes to for a row. *)
Alternative(d, p) ==
  LET value == p[Dc[d].field]
      alternatives == Dc[d].alternatives
  IN  IF value \in DOMAIN alternatives THEN alternatives[value] ELSE Dc[d].def
=============================================================================
