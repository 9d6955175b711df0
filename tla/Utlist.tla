------------------------------- MODULE Utlist -------------------------------
(***************************************************************************)
(* The doubly linked lists of utlist.h, as the maker, the arenas and the   *)
(* transforms use them: cells are appended, and taken out again in a       *)
(* DL_FOREACH_SAFE that frees each as it goes.                             *)
(*                                                                         *)
(* The prev of the head is the tail, the next of the tail is NULL.  A cell *)
(* that is freed may hold anything: Garbage stands for it.                 *)
(***************************************************************************)
EXTENDS Integers, Sequences, FiniteSets

CONSTANTS
  Elements,   (* The cells.                                                *)
  NULL,
  Garbage     (* What a freed cell holds.                                  *)

ASSUME UtlistAssumption ==
  /\ IsFiniteSet(Elements)
  /\ NULL \notin Elements /\ Garbage \notin Elements /\ NULL # Garbage

VARIABLES
  list,     (* The head, and the next and prev of every cell.              *)
  order,    (* The cells in the list, in the order they were appended.     *)
  el, tmp,  (* The cursors of a DL_FOREACH_SAFE, NULL outside of one,      *)
  started,  (* the cells that were in the list when it began,              *)
  visited   (* and the ones it has come to.                                *)

vars == << list, order, el, tmp, started, visited >>

Cells == [Elements -> Elements \cup {NULL, Garbage}]

Init ==
  /\ list = [head |-> NULL, next |-> [e \in Elements |-> Garbage],
             prev |-> [e \in Elements |-> Garbage]]
  /\ order = << >>
  /\ el = NULL /\ tmp = NULL /\ started = << >> /\ visited = << >>

-----------------------------------------------------------------------------
(* Where an append to a list that has cells leaves them. *)
NextAppended(l, e) == [l.next EXCEPT ![l.prev[l.head]] = e, ![e] = NULL]
PrevAppended(l, e) == [l.prev EXCEPT ![e] = l.prev[l.head], ![l.head] = e]

(* DL_APPEND *)
Appended(l, e) ==
  IF l.head # NULL
  THEN [head |-> l.head, next |-> NextAppended(l, e), prev |-> PrevAppended(l, e)]
  ELSE [head |-> e, next |-> [l.next EXCEPT ![e] = NULL], prev |-> [l.prev EXCEPT ![e] = e]]

(* DL_DELETE of the head, when there are other cells. *)
HeadDeleted(l, e) ==
  [l EXCEPT !.head = l.next[e], !.prev[l.next[e]] = l.prev[e]]

(* A fault for the checks to find: the head keeps a deleted tail. *)
TailKept(l, e) == l.prev

(* DL_DELETE of another cell, which the next one learns of, or the head. *)
PrevDeleted(l, e) ==
  [l.prev EXCEPT ![IF l.next[e] # NULL THEN l.next[e] ELSE l.head] = l.prev[e]]

(* A fault for the checks to find: the list is cut where a cell is taken   *)
(* out.                                                                    *)
DeletedCut(l, e) ==
  IF l.prev[e] = e THEN [l EXCEPT !.head = NULL]
  ELSE IF e = l.head THEN HeadDeleted(l, e)
  ELSE [l EXCEPT !.next[l.prev[e]] = NULL, !.prev = PrevDeleted(l, e)]

(* DL_DELETE *)
Deleted(l, e) ==
  IF l.prev[e] = e THEN [l EXCEPT !.head = NULL]
  ELSE IF e = l.head THEN HeadDeleted(l, e)
  ELSE [l EXCEPT !.next[l.prev[e]] = l.next[e], !.prev = PrevDeleted(l, e)]

(* free *)
Freed(l, e) == [l EXCEPT !.next[e] = Garbage, !.prev[e] = Garbage]

-----------------------------------------------------------------------------
Listed(e) == \E k \in DOMAIN order : order[k] = e

(* What is left of a list of distinct cells without one of them. *)
Without(s, e) ==
  LET at == CHOOSE k \in DOMAIN s : s[k] = e
  IN  [k \in 1 .. Len(s) - 1 |-> IF k < at THEN s[k] ELSE s[k + 1]]

Add(e) ==
  /\ el = NULL /\ ~Listed(e)
  /\ list' = Appended(list, e)
  /\ order' = Append(order, e)
  /\ UNCHANGED << el, tmp, started, visited >>

Delete(e) ==
  /\ el = NULL /\ Listed(e)
  /\ list' = Freed(Deleted(list, e), e)
  /\ order' = Without(order, e)
  /\ UNCHANGED << el, tmp, started, visited >>

(* DL_FOREACH_SAFE reads what follows a cell before the body has it. *)
ForEachSafe ==
  /\ el = NULL /\ list.head # NULL
  /\ el' = list.head /\ tmp' = list.next[list.head]
  /\ started' = order /\ visited' = << list.head >>
  /\ UNCHANGED << list, order >>

(* A fault for the checks to find: what follows is read from the cell that *)
(* was freed.                                                              *)
FromTheCell(l) == l.next[el]

Following(l) == tmp

(* The body: in the destroy loops the cell is taken out and freed, in the  *)
(* loops over content and arguments it stays.  Then the loop goes on.      *)
Body(l) ==
  LET next == Following(l)
  IN  /\ list' = l
      /\ el' = next
      /\ tmp' = IF next \in Elements THEN l.next[next] ELSE NULL
      /\ visited' = IF next \in Elements THEN Append(visited, next) ELSE visited
      /\ UNCHANGED started

Look == el \in Elements /\ Body(list) /\ UNCHANGED order

Free ==
  /\ el \in Elements
  /\ Body(Freed(Deleted(list, el), el))
  /\ order' = Without(order, el)

Next ==
  \/ \E e \in Elements : Add(e) \/ Delete(e)
  \/ ForEachSafe \/ Look \/ Free

Spec == Init /\ [][Next]_vars

-----------------------------------------------------------------------------
(* The links spell the list: from the head on by next to NULL, and back by *)
(* prev, with the tail behind the head.                                    *)
Linked ==
  IF order = << >> THEN list.head = NULL
  ELSE /\ list.head = order[1]
       /\ list.prev[order[1]] = order[Len(order)]
       /\ list.next[order[Len(order)]] = NULL
       /\ \A k \in 1 .. Len(order) - 1 :
            /\ list.next[order[k]] = order[k + 1]
            /\ list.prev[order[k + 1]] = order[k]

(* A loop comes to every cell that was there when it began, once and in    *)
(* order, whichever of them it frees on its way.                           *)
VisitsAll == el \notin Elements => visited = started

(* The cells that next leads to from the head on. *)
Reached[k \in 1 .. Cardinality(Elements) + 1] ==
  IF k = 1 THEN list.head
  ELSE IF Reached[k - 1] \in Elements THEN list.next[Reached[k - 1]] ELSE NULL

Chain ==
  [k \in 1 .. Cardinality({j \in DOMAIN Reached : Reached[j] \in Elements}) |-> Reached[k]]

(* What next leads to behaves as the sequence the list stands for.         *)
Contents == INSTANCE Sequence WITH seq <- Chain
IsSequence == Contents!Spec
=============================================================================
