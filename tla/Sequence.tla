------------------------------ MODULE Sequence ------------------------------
(***************************************************************************)
(* What the lists of the project are for: elements in the order they were  *)
(* added, which are looked at one after the other and may be taken out.    *)
(***************************************************************************)
EXTENDS SequencesExt

CONSTANTS Elements

VARIABLE seq

Init == seq = << >>

Add == \E e \in Elements : ~Contains(seq, e) /\ seq' = Append(seq, e)

TakeOut == \E k \in DOMAIN seq : seq' = RemoveAt(seq, k)

Next == Add \/ TakeOut

Spec == Init /\ [][Next]_seq
=============================================================================
