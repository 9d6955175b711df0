---------------------------- MODULE FrfRendering ----------------------------
(***************************************************************************)
(* What a row renders to, told from the content file alone, and the        *)
(* promise of the maker in those terms: each call of frf_maker_add puts    *)
(* the rendering of its row into the file, where the reader finds it under *)
(* the offset the call returned, now and after any later call.             *)
(***************************************************************************)
EXTENDS FrfMaker, SequencesExt

CONSTANTS
  Depth,      (* How deep dynamic content is nested at most,               *)
  DepthOf     (* and in each content.                                      *)

(* The tags of a content, their keys, and the ones that are dynamic        *)
(* content.                                                                *)
TagsIn(c) == {i \in DOMAIN SegmentsOf[c] : SegmentsOf[c][i].kind = "tag"}
KeyAt(c, i) == KeyOf(SegmentsOf[c][i].key)
DcTagsIn(c) == {i \in TagsIn(c) : KeyAt(c, i) \in DOMAIN Dc \ DOMAIN FieldOf}
AlternativesOf(d) ==
  {Dc[d].def} \cup {Dc[d].alternatives[s] : s \in DOMAIN Dc[d].alternatives}

(* Dynamic content does not lead back to itself. *)
ASSUME DepthAssumption ==
  /\ Depth \in Nat /\ DepthOf \in [Contents -> 0 .. Depth]
  /\ \A c \in Contents : \A i \in DcTagsIn(c) : \A a \in AlternativesOf(KeyAt(c, i)) :
       DepthOf[a] < DepthOf[c]

(* What a tag comes to for a row, given what each content does that is     *)
(* nested in its own, and whether its key is missed among the dynamic      *)
(* content.  A tag that means nothing comes to nothing; where an           *)
(* alternative comes to nothing there is no value, neither is there where  *)
(* a transform refuses, nor for a call that does not compile.              *)
TagText(key, p, gone, below) ==
  IF key \in DOMAIN FieldOf THEN << p[FieldOf[key]] >>
  ELSE IF key \in DOMAIN Dc /\ ~gone
    THEN LET alternatives == Dc[key].alternatives
             wanted == {s \in DOMAIN alternatives : s = p[Dc[key].field]}
             strings == below[IF wanted = {} THEN Dc[key].def
                              ELSE alternatives[CHOOSE s \in wanted : TRUE]]
         IN  IF strings = << >> THEN << NoValue >> ELSE strings
  ELSE IF key \in DtKeys THEN << Exec[key][p] >>
  ELSE IF key \in CallKeys THEN << NoValue >>
  ELSE << >>

(* The i-th segment of a content; `missed' are the tags, by their content  *)
(* and place, whose dynamic content is not found.                          *)
Piece(c, i, p, missed, below) ==
  IF i \in TagsIn(c) THEN TagText(KeyAt(c, i), p, << c, i >> \in missed, below)
  ELSE << SegmentsOf[c][i].str >>

ContentText(c, p, missed, below) ==
  FlattenSeq([i \in DOMAIN SegmentsOf[c] |-> Piece(c, i, p, missed, below)])

(* The strings each content comes to for a row, with all that is nested in *)
(* it.                                                                     *)
Renderings(p, missed) ==
  LET rendering[c \in Contents] == ContentText(c, p, missed, rendering)
  IN  rendering

(* What a reader makes of a string: of one that fits a word, and whose     *)
(* fourth byte is above 127, the one that has that byte's top bit cleared. *)
Seen(s) == IF s \in Tiny THEN TinyText(TinyCode[s]) ELSE s
SeenAll(strings) == [i \in DOMAIN strings |-> Seen(strings[i])]

(* Dynamic content that is first met in an alternative may be missed there *)
(* since its key is gone by then, but nothing else may go wrong with it.   *)
Missable(b) ==
  LET known == {KeyAt(b, i) : i \in TagsIn(b)}
  IN  UNION {{c} \X {i \in DcTagsIn(c) : KeyAt(c, i) \notin known} : c \in Contents \ Bodies}

(* What a row may render to: once, and with what may be missed missing.    *)
RenderingsOf == [b \in Bodies |-> [p \in Rows |-> SeenAll(Renderings(p, {})[b])]]
MayRender ==
  [b \in Bodies |-> [p \in Rows |->
     {Renderings(p, missed)[b] : missed \in SUBSET Missable(b)}]]
RenderOf == RenderingsOf[content]

(* Rows that come to something, and rows that may come to nothing.         *)
WithoutValue(strings) == \E i \in DOMAIN strings : strings[i] = NoValue
RendersTo ==
  [b \in Bodies |-> [p \in Rows |->
     {SeenAll(r) : r \in {t \in MayRender[b][p] : ~WithoutValue(t)}}]]
Doomed(p) == \E r \in MayRender[content][p] : WithoutValue(r)

(* The store the file amounts to: the rows that touched nothing behind     *)
(* their `results'.                                                        *)
StoredRows ==
  LET clean == {i \in DOMAIN answers : ~answers[i].overrun} IN
  [h \in {answers[i].offset : i \in clean} |->
     LET i == CHOOSE j \in clean : answers[j].offset = h
     IN  [row |-> answers[i].row, text |-> RowText(Sections, h \div 4)]]

Store == INSTANCE FrfStore WITH store <- StoredRows

(* The maker implements the store: an offset is never given out twice, the *)
(* row under it is the rendering of the row asked for (but for what may be *)
(* missed), and no later row changes it, not even one that writes behind   *)
(* its `results'.                                                          *)
ImplementsStore == Store!Spec

(* The body has a call that does not compile. *)
Uncompilable ==
  \E i \in TagsIn(content) : KeyAt(content, i) \in CallKeys \ Meaningful

(* Every call of the maker returns, but for a row that comes to nothing    *)
(* somewhere, or has a call that does not compile: that one ends the       *)
(* program, as a body with such a call does at once.  No other row does,   *)
(* unless it stores behind its `results'.                                  *)
AddReturns ==
  pc \in {"row", "precompile"} ~>
    \/ pc = "idle"
    \/ pc = "crashed" /\ (overrun \/ Doomed(p13n))
    \/ pc = "exited" /\ IF compiling = content THEN Uncompilable ELSE Doomed(p13n)
=============================================================================
