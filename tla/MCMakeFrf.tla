----------------------------- MODULE MCMakeFrf -----------------------------
(* Small personalization files, with lines that are short of a field or    *)
(* have too many, last lines without a newline, and a row at 4 GiB.        *)
EXTENDS MakeFrf

MCTexts == {"", "ann", "an", "bob", "bo", "glad", "gla", "old"}
MCCut == [s \in MCTexts |->
            CASE s = "ann" -> "an" [] s = "bob" -> "bo" [] s = "glad" -> "gla" [] OTHER -> ""]
MCLine(fields) == [fields |-> fields, newline |-> TRUE]
MCLastLine(fields) == [fields |-> fields, newline |-> FALSE]
MCInputs ==
  {<< MCLine(<< "ann", "glad" >>), MCLine(<< "bob", "old" >>), MCLine(<< "ann", "", "bob" >>),
      MCLine(<< "bob" >>) >>,
   << MCLine(<< "ann", "bob", "", "glad" >>) >>,
   << MCLine(<< "bob", "glad" >>), MCLastLine(<< "ann", "glad" >>) >>,
   << MCLastLine(<< "bob", "" >>) >>}
MCVectorWords == [s \in MCTexts |-> IF s = "ann" THEN 3 ELSE 2]
MCOptions == {[argc |-> 5, make_cdb |-> 0], [argc |-> 8, make_cdb |-> 0],
              [argc |-> 4, make_cdb |-> NoCdb]}
LastFieldOptions == {[argc |-> 5, make_cdb |-> 1]}
=============================================================================
