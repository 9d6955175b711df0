----------------------------- MODULE MCTemplate -----------------------------
(* Content files for TLC.  Keys, contents and strings are TLA+ strings,    *)
(* the lengths of the latter their own.                                    *)
EXTENDS FrfTemplate, TLC

MCHalf == 1048576
MCStrings == {"Hello ", "is glad", "and", "!", "ann", "barbara", "glad", "sad", "ANN!"}
MCLenOf == [s \in MCStrings |-> Len(s)]
MCTinyCode == "and" :> 0 @@ "!" :> 1 @@ "ann" :> 2 @@ "glad" :> 3 @@ "sad" :> 4 @@ "ANN!" :> 5
MCRows == {[name |-> n, mood |-> m] : n \in {"ann", "barbara"}, m \in {"glad", "sad"}}

(* Six content files.  The first is nested two deep, and all of its tags  *)
(* find room in `results':                                                 *)
(*   body   Hello %%name%%%%mood%%!%%nick%%%%bogus%%%%mood%%%%why%%        *)
(*   mood   glad: is glad%%why%%%%shout(name)%%     else: %%nick%%         *)
(*   why    ann: and%%loud%%                         else: !               *)
(* The alternatives of the second are the first to have some of its        *)
(* dynamic content:                                                        *)
(*   freed  Hello %%name%%%%fmood%%                                        *)
(*   fmood  glad: is glad%%why%%%%nick%%        else: %%name%%%%why%%!     *)
(* The third ends some rows for good, for an alternative without cells and *)
(* for a transform that refuses:                                           *)
(*   crash  %%name%%%%cmood%%%%cwhy%%                                      *)
(*   cmood  glad: %%bogus%%                     else: Hello %%name%%       *)
(*   cwhy   ann: %%refuse(name)%%               else: !                    *)
(* The fourth makes tags known in mid-row for which there is no slot:      *)
(*   spill  %%smood%%%%name%%%%t3%%%%swhy%%     (four tags, four slots)    *)
(*   smood  glad: %%t5%%%%t4%%                  else: Hello                *)
(*   swhy   ann: %%t7%%and                      else: !                    *)
(* The fifth ends some rows by a call that does not compile, and has       *)
(* dynamic content whose key is one that does; the last ends at once:      *)
(*   calls  %%xmood%%                                                      *)
(*   xmood  glad: %%odd(name)%%          else: %%late(name)%%!             *)
(*   late(name)  ann: and                else: !                           *)
(*   odd    Hello %%odd(name)%%                                            *)
MCBodies == {"body", "freed", "crash", "spill", "calls", "odd"}
MCSegmentsOf ==
  [body   |-> << Text("Hello "), Tag("name"), Tag("mood"), Text("!"), Tag("nick"),
                 Tag("bogus"), Tag("mood"), Tag("why") >>,
   glad   |-> << Text("is glad"), Tag("why"), Tag("shout(name)") >>,
   plain  |-> << Tag("nick") >>,
   ann    |-> << Text("and"), Tag("loud") >>,
   else   |-> << Text("!") >>,
   freed  |-> << Text("Hello "), Tag("name"), Tag("fmood") >>,
   fglad  |-> << Text("is glad"), Tag("why"), Tag("nick") >>,
   fplain |-> << Tag("name"), Tag("why"), Text("!") >>,
   crash  |-> << Tag("name"), Tag("cmood"), Tag("cwhy") >>,
   cglad  |-> << Tag("bogus") >>,
   cplain |-> << Text("Hello "), Tag("name") >>,
   cann   |-> << Tag("refuse(name)") >>,
   spill  |-> << Tag("smood"), Tag("name"), Tag("t3"), Tag("swhy") >>,
   sglad  |-> << Tag("t5"), Tag("t4") >>,
   splain |-> << Text("Hello ") >>,
   sann   |-> << Tag("t7"), Text("and") >>,
   calls  |-> << Tag("xmood") >>,
   xglad  |-> << Tag("odd(name)") >>,
   xplain |-> << Tag("late(name)"), Text("!") >>,
   xann   |-> << Text("and") >>,
   odd    |-> << Text("Hello "), Tag("odd(name)") >>]
MCContents == DOMAIN MCSegmentsOf
MCMacroOf == [nick |-> "name"]
MCFieldOf == [name |-> "name", t3 |-> "mood", t4 |-> "name", t5 |-> "name", t7 |-> "mood"]
MCDtKeys == {"shout(name)", "refuse(name)", "late(name)"}
MCCallKeys == MCDtKeys \cup {"odd(name)"}
Choice(field, value, alternative, def) ==
  [field |-> field, alternatives |-> value :> alternative, def |-> def]
MCDc == [mood  |-> Choice("mood", "glad", "glad", "plain"),
         why   |-> Choice("name", "ann", "ann", "else"),
         fmood |-> Choice("mood", "glad", "fglad", "fplain"),
         cmood |-> Choice("mood", "glad", "cglad", "cplain"),
         cwhy  |-> Choice("name", "ann", "cann", "else"),
         smood |-> Choice("mood", "glad", "sglad", "splain"),
         swhy  |-> Choice("name", "ann", "sann", "else"),
         xmood |-> Choice("mood", "glad", "xglad", "xplain")]
        @@ "late(name)" :> Choice("name", "ann", "xann", "else")
MCKeys == DOMAIN MCFieldOf \cup DOMAIN MCDc \cup MCCallKeys \cup {"nick", "loud", "bogus"}
MCTagCb == [k \in MCKeys |-> IF k = "loud" THEN "shout(name)" ELSE k]
MCShout(p) == IF p.name = "ann" THEN "ANN!" ELSE "barbara"
MCExec == [k \in MCDtKeys |-> [p \in MCRows |->
             IF k = "refuse(name)" THEN "NULL" ELSE MCShout(p)]]
MCDepthOf == [c \in MCContents |->
               IF c \in {"body", "freed", "calls"} THEN 2
               ELSE IF c \in {"glad", "fglad", "fplain", "xplain", "crash", "spill"} THEN 1
               ELSE 0]
=============================================================================
