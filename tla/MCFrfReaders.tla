---------------------------- MODULE MCFrfReaders ----------------------------
(* The programs that read, on the file of one content file:                *)
(*   body   Hello %%mood%%%%why%%                                          *)
(*   mood   glad: gladl%%shout(name)%%%%nick%%%%nick%%     else: sadly     *)
(*   why    ann: %%loud%%                                  else: sadl!!    *)
(* The ints of this world are so narrow that its later rows are beyond     *)
(* 2 GiB, and the vectors of its larger files begin beyond 4 GiB; "sadly"  *)
(* begins like "sadl", "Hello " lies at an address that ends in the bytes  *)
(* of "ANN!", and one row has too many pieces.                             *)
EXTENDS FrfReaders, TLC

MCStrings == {"Hello ", "gladl", "sadly", "ann", "bob", "ANN!", "sadl", "!"}
MCLenOf == [s \in MCStrings |-> Len(s)]
MCFirstFour ==
  "ann" :> 1 @@ "bob" :> 2 @@ "ANN!" :> 64 @@ "sadl" :> 3 @@ "!" :> 4
  @@ "gladl" :> 5 @@ "sadly" :> 3
MCTinyCode ==
  "ann" :> 0 @@ "bob" :> 1 @@ "ANN!" :> 2 @@ "sadl" :> 3 @@ "!" :> 4
MCSegmentsOf ==
  [body  |-> << Text("Hello "), Tag("mood"), Tag("why") >>,
   glad  |-> << Text("gladl"), Tag("shout(name)"), Tag("nick"), Tag("nick") >>,
   plain |-> << Text("sadly") >>,
   ann   |-> << Tag("loud") >>,
   else  |-> << Text("sadl"), Text("!"), Text("!") >>]
MCContents == DOMAIN MCSegmentsOf
MCMacroOf == [nick |-> "name"]
MCFieldOf == [name |-> "name"]
MCDc ==
  [mood |-> [field |-> "mood", alternatives |-> [glad |-> "glad"], def |-> "plain"],
   why  |-> [field |-> "name", alternatives |-> [ann |-> "ann"], def |-> "else"]]
MCDtKeys == {"shout(name)"}
MCCallKeys == MCDtKeys
MCKeys == {"name", "nick", "mood", "why", "shout(name)", "loud"}
MCTagCb == [k \in MCKeys |-> IF k = "loud" THEN "shout(name)" ELSE k]
Row(n, m) == [name |-> n, mood |-> m]
MCRows == {Row("ann", "glad"), Row("ann", "sad"), Row("bob", "sad")}
MCExec == [k \in MCDtKeys |-> [p \in MCRows |-> IF p.name = "ann" THEN "ANN!" ELSE "bob"]]
MCDepthOf == [c \in MCContents |-> IF c = "body" THEN 1 ELSE 0]
=============================================================================
