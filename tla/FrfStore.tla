------------------------------ MODULE FrfStore ------------------------------
(***************************************************************************)
(* What making an frf file promises: a store that keeps the rendering of   *)
(* every row it was given under a handle of its own, for good.             *)
(***************************************************************************)
CONSTANTS
  Rows,      (* The personalization rows.                                  *)
  Bodies,    (* The content files there are.                               *)
  RendersTo  (* What each row may render to, for each of them.             *)

VARIABLES
  store,     (* The rows, by handle.                                       *)
  content    (* The content file it is of.                                 *)

Init == store = [h \in {} |-> h] /\ content \in Bodies

(* The store chooses the handle: any one that is not in use. *)
Add(p) ==
  /\ UNCHANGED content
  /\ \E h \in DOMAIN store' \ DOMAIN store, text \in RendersTo[content][p] :
       store' = [x \in DOMAIN store \cup {h} |->
                   IF x = h THEN [row |-> p, text |-> text] ELSE store[x]]

Next == \E p \in Rows : Add(p)

Spec == Init /\ [][Next]_<< store, content >>
=============================================================================
