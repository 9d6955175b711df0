---------------------------- MODULE UtlistProofs ----------------------------
(***************************************************************************)
(* The lists of utlist.h spell a sequence of cells, a loop that frees as   *)
(* it goes comes to every one of them, and what next leads to behaves as   *)
(* the abstract sequence does, for every finite set of cells.              *)
(***************************************************************************)
EXTENDS Utlist, FiniteSetTheorems, SequenceTheorems, WellFoundedInduction, TLAPS

(* The head and the links of all cells. *)
Links == [head : Elements \cup {NULL}, next : Cells, prev : Cells]

(* No cell is in the list twice. *)
Distinct(s) == \A i, j \in 1 .. Len(s) : s[i] = s[j] => i = j

(* Linked, of any list. *)
Spells(l, s) ==
  IF s = << >> THEN l.head = NULL
  ELSE /\ l.head = s[1]
       /\ l.prev[s[1]] = s[Len(s)]
       /\ l.next[s[Len(s)]] = NULL
       /\ \A k \in 1 .. Len(s) - 1 : l.next[s[k]] = s[k + 1] /\ l.prev[s[k + 1]] = s[k]

(* The cells of a list lie in Elements. *)
LEMMA CellsOf ==
  ASSUME NEW s \in Seq(Elements)
  PROVE  /\ Len(s) \in Nat
         /\ s = << >> <=> Len(s) = 0
         /\ \A i \in 1 .. Len(s) : s[i] \in Elements
  BY EmptySeq, LenProperties, ElementOfSeq

(* DL_APPEND puts a new cell behind the others. *)
LEMMA AppendedSpells ==
  ASSUME NEW l \in Links, NEW s \in Seq(Elements), NEW e \in Elements,
         Distinct(s), Spells(l, s), \A i \in 1 .. Len(s) : s[i] # e
  PROVE  /\ Appended(l, e) \in Links
         /\ Append(s, e) \in Seq(Elements) /\ Distinct(Append(s, e))
         /\ Spells(Appended(l, e), Append(s, e))
<1> DEFINE t == Append(s, e)
           m == Appended(l, e)
<1>1. /\ Len(s) \in Nat /\ (s = << >> <=> Len(s) = 0)
      /\ \A i \in 1 .. Len(s) : s[i] \in Elements
  BY CellsOf
<1>2. /\ t \in Seq(Elements) /\ t # << >> /\ Len(t) = Len(s) + 1
      /\ \A i \in 1 .. Len(s) : t[i] = s[i]
      /\ t[Len(s) + 1] = e
  BY AppendProperties
<1>3. l = [head |-> l.head, next |-> l.next, prev |-> l.prev]
      /\ l.head \in Elements \cup {NULL} /\ l.next \in Cells /\ l.prev \in Cells
  BY DEF Links
<1> HIDE DEF t
<1>4. Distinct(t)
  BY <1>1, <1>2 DEF Distinct
<1>5. CASE s = << >>
  <2>1. m = [head |-> e, next |-> [l.next EXCEPT ![e] = NULL], prev |-> [l.prev EXCEPT ![e] = e]]
    BY <1>5 DEF Appended, Spells
  <2>2. m \in Links
    BY <1>3, <2>1 DEF Links, Cells
  <2>3. Spells(m, t)
    BY <1>1, <1>2, <1>3, <1>5, <2>1 DEF Spells, Cells
  <2>. QED
    BY <1>2, <1>4, <2>2, <2>3 DEF t
<1>6. CASE s # << >>
  <2>1. /\ l.head = s[1] /\ l.prev[s[1]] = s[Len(s)] /\ s[1] \in Elements
        /\ s[Len(s)] \in Elements /\ s[1] # e /\ s[Len(s)] # e /\ s[1] # NULL
    BY <1>1, <1>6, UtlistAssumption DEF Spells
  <2>2. m = [head |-> s[1], next |-> [l.next EXCEPT ![s[Len(s)]] = e, ![e] = NULL],
             prev |-> [l.prev EXCEPT ![e] = s[Len(s)], ![s[1]] = e]]
    BY <2>1 DEF Appended, NextAppended, PrevAppended
  <2>3. m \in Links
    BY <1>3, <2>1, <2>2 DEF Links, Cells
  <2>4. m.head = t[1] /\ m.prev[t[1]] = t[Len(t)] /\ m.next[t[Len(t)]] = NULL
    BY <1>1, <1>2, <1>3, <1>6, <2>1, <2>2 DEF Cells
  <2>5. ASSUME NEW k \in 1 .. Len(t) - 1
        PROVE  m.next[t[k]] = t[k + 1] /\ m.prev[t[k + 1]] = t[k]
    <3>1. k \in 1 .. Len(s) /\ t[k] = s[k] /\ s[k] \in Elements /\ s[k] # e
      BY <1>1, <1>2
    <3>2. CASE k = Len(s)
      BY <1>2, <1>3, <2>1, <2>2, <3>1, <3>2 DEF Cells
    <3>3. CASE k # Len(s)
      <4>1. k \in 1 .. Len(s) - 1 /\ k + 1 \in 1 .. Len(s) /\ 1 \in 1 .. Len(s)
            /\ Len(s) \in 1 .. Len(s) /\ k + 1 # 1
        BY <1>1, <3>1, <3>3
      <4>2. l.next[s[k]] = s[k + 1] /\ l.prev[s[k + 1]] = s[k]
        BY <1>6, <4>1 DEF Spells
      <4>3. s[k] # s[Len(s)] /\ s[k + 1] # s[1] /\ s[k + 1] # e /\ t[k + 1] = s[k + 1]
            /\ s[k + 1] \in Elements
        BY <1>1, <1>2, <3>1, <3>3, <4>1 DEF Distinct
      <4>. QED
        BY <1>3, <2>1, <2>2, <3>1, <4>2, <4>3 DEF Cells
    <3>. QED
      BY <3>2, <3>3
  <2>6. Spells(m, t)
    BY <1>2, <2>4, <2>5 DEF Spells
  <2>. QED
    BY <1>2, <1>4, <2>3, <2>6 DEF t
<1>. QED
  BY <1>5, <1>6

(* A list without the cell at one of its places. *)
LEMMA WithoutIs ==
  ASSUME NEW s \in Seq(Elements), Distinct(s), NEW p \in 1 .. Len(s)
  PROVE  /\ Without(s, s[p]) \in Seq(Elements)
         /\ Len(Without(s, s[p])) = Len(s) - 1
         /\ \A k \in 1 .. Len(s) - 1 :
              Without(s, s[p])[k] = IF k < p THEN s[k] ELSE s[k + 1]
         /\ Distinct(Without(s, s[p]))
<1> DEFINE w == [k \in 1 .. Len(s) - 1 |-> IF k < p THEN s[k] ELSE s[k + 1]]
<1>1. Len(s) \in Nat /\ DOMAIN s = 1 .. Len(s) /\ \A i \in 1 .. Len(s) : s[i] \in Elements
  BY CellsOf, LenProperties
<1>2. (CHOOSE k \in DOMAIN s : s[k] = s[p]) = p
  BY <1>1 DEF Distinct
<1>3. Without(s, s[p]) = w
  BY <1>2 DEF Without
<1>4. Len(s) - 1 \in Nat
  BY <1>1
<1>5. \A k \in 1 .. Len(s) - 1 : w[k] \in Elements
  BY <1>1
<1>6. w \in Seq(Elements) /\ Len(w) = Len(s) - 1
  BY <1>4, <1>5, IsASeq, LenProperties
<1>7. \A k \in 1 .. Len(s) - 1 : w[k] = IF k < p THEN s[k] ELSE s[k + 1]
  OBVIOUS
<1> HIDE DEF w
<1>8. Distinct(w)
  <2> SUFFICES ASSUME NEW i \in 1 .. Len(w), NEW j \in 1 .. Len(w), w[i] = w[j] PROVE i = j
    BY DEF Distinct
  <2> DEFINE place(k) == IF k < p THEN k ELSE k + 1
  <2>1. \A k \in 1 .. Len(w) : place(k) \in 1 .. Len(s) /\ w[k] = s[place(k)]
    BY <1>1, <1>6, <1>7
  <2>2. place(i) = place(j)
    BY <2>1 DEF Distinct
  <2>. QED
    BY <1>6, <2>2
<1>. QED
  BY <1>3, <1>6, <1>7, <1>8

(* What a free leaves of the links. *)
LEMMA FreedIs ==
  ASSUME NEW l \in Links, NEW e \in Elements
  PROVE  /\ Freed(l, e) \in Links
         /\ Freed(l, e).head = l.head
         /\ Freed(l, e).next = [l.next EXCEPT ![e] = Garbage]
         /\ Freed(l, e).prev = [l.prev EXCEPT ![e] = Garbage]
  BY DEF Freed, Links, Cells

(* DL_DELETE and the free that follows leave a list of the other cells. *)
LEMMA DeletedSpells ==
  ASSUME NEW l \in Links, NEW s \in Seq(Elements), Distinct(s), Spells(l, s),
         NEW p \in 1 .. Len(s)
  PROVE  /\ Freed(Deleted(l, s[p]), s[p]) \in Links
         /\ Spells(Freed(Deleted(l, s[p]), s[p]), Without(s, s[p]))
<1> DEFINE e == s[p]
           w == Without(s, e)
           d == Deleted(l, e)
           m == Freed(d, e)
           n == Len(s)
<1>1. /\ n \in Nat \ {0} /\ p \in 1 .. n /\ s # << >>
      /\ \A i \in 1 .. n : s[i] \in Elements /\ s[i] # NULL
      /\ \A i, j \in 1 .. n : s[i] = s[j] => i = j
  BY CellsOf, UtlistAssumption DEF Distinct
<1>2. /\ w \in Seq(Elements) /\ Len(w) = n - 1
      /\ \A k \in 1 .. n - 1 : w[k] = IF k < p THEN s[k] ELSE s[k + 1]
  BY WithoutIs
<1>3. /\ l.head = s[1] /\ l.prev[s[1]] = s[n] /\ l.next[s[n]] = NULL
      /\ \A k \in 1 .. n - 1 : l.next[s[k]] = s[k + 1] /\ l.prev[s[k + 1]] = s[k]
  BY <1>1 DEF Spells
<1>4. l = [head |-> l.head, next |-> l.next, prev |-> l.prev]
      /\ l.head \in Elements \cup {NULL} /\ l.next \in Cells /\ l.prev \in Cells
  BY DEF Links
<1>5. w = << >> <=> n = 1
  <2>1. w = << >> <=> Len(w) = 0
    BY <1>2, CellsOf
  <2>. QED
    BY <1>1, <1>2, <2>1
<1>6. e \in Elements /\ 1 \in 1 .. n /\ n \in 1 .. n
  BY <1>1
<1> HIDE DEF w, e, d, m
<1>7. CASE n = 1
  <2>1. l.prev[e] = e
    BY <1>1, <1>3, <1>7 DEF e
  <2>2. d = [head |-> NULL, next |-> l.next, prev |-> l.prev]
    BY <1>4, <2>1 DEF Deleted, d
  <2>3. d \in Links
    BY <1>4, <2>2 DEF Links
  <2>4. m \in Links /\ m.head = NULL
    BY <1>6, <2>2, <2>3, FreedIs DEF m
  <2>5. Spells(m, w)
    BY <1>5, <1>7, <2>4 DEF Spells
  <2>. QED
    BY <2>4, <2>5 DEF w, e, m, d
<1>8. CASE n # 1 /\ p = 1
  <2>1. e = s[1] /\ l.prev[e] = s[n] /\ s[n] # e /\ l.next[e] = s[2] /\ 2 \in 1 .. n
        /\ s[2] \in Elements /\ s[2] # e
    <3>1. 1 \in 1 .. n - 1 /\ 2 \in 1 .. n
      <4>1. n \in Nat /\ n > 1
        BY <1>1, <1>8
      <4>. QED
        BY <4>1
    <3>2. e = s[1]
      BY <1>8 DEF e
    <3>. QED
      BY <1>1, <1>3, <1>6, <1>8, <3>1, <3>2
  <2>2. d = [head |-> s[2], next |-> l.next, prev |-> [l.prev EXCEPT ![s[2]] = s[n]]]
    BY <1>3, <1>4, <2>1 DEF Deleted, HeadDeleted, d
  <2>3. d \in Links
    BY <1>1, <1>4, <2>1, <2>2 DEF Links, Cells
  <2>4. /\ m \in Links /\ m.head = s[2]
        /\ m.next = [l.next EXCEPT ![e] = Garbage]
        /\ m.prev = [[l.prev EXCEPT ![s[2]] = s[n]] EXCEPT ![e] = Garbage]
    BY <1>6, <2>2, <2>3, FreedIs DEF m
  <2>5. \A k \in 1 .. n - 1 : w[k] = s[k + 1] /\ k + 1 \in 1 .. n
    BY <1>1, <1>2, <1>8
  <2>6. w[1] = s[2] /\ w[Len(w)] = s[n]
    <3>1. 1 \in 1 .. n - 1 /\ n - 1 \in 1 .. n - 1 /\ n - 1 + 1 = n /\ Len(w) = n - 1
      BY <1>1, <1>2, <1>8
    <3>. QED
      BY <2>5, <3>1
  <2>7. m.head = w[1] /\ m.prev[w[1]] = w[Len(w)] /\ m.next[w[Len(w)]] = NULL
    BY <1>1, <1>3, <1>4, <1>6, <2>1, <2>4, <2>6 DEF Cells
  <2>8. ASSUME NEW k \in 1 .. Len(w) - 1
        PROVE  m.next[w[k]] = w[k + 1] /\ m.prev[w[k + 1]] = w[k]
    <3>1. k \in 1 .. n - 1 /\ k + 1 \in 1 .. n - 1 /\ k + 1 \in 1 .. n /\ k + 2 \in 1 .. n
          /\ k + 1 + 1 = k + 2 /\ k + 2 # 2 /\ k + 1 # 1 /\ k + 2 # 1
      BY <1>1, <1>2
    <3>2. w[k] = s[k + 1] /\ w[k + 1] = s[k + 2]
      BY <2>5, <3>1
    <3>3. l.next[s[k + 1]] = s[k + 2] /\ l.prev[s[k + 2]] = s[k + 1]
      BY <1>3, <3>1
    <3>4. s[k + 1] # e /\ s[k + 2] # e /\ s[k + 2] # s[2]
      BY <1>1, <1>6, <2>1, <3>1
    <3>. QED
      BY <1>1, <1>4, <2>1, <2>4, <3>1, <3>2, <3>3, <3>4 DEF Cells
  <2>9. Spells(m, w)
    BY <1>5, <1>8, <2>7, <2>8 DEF Spells
  <2>. QED
    BY <2>4, <2>9 DEF w, e, m, d
<1>9. CASE p # 1
  <2>1. /\ p - 1 \in 1 .. n - 1 /\ p - 1 + 1 = p /\ p - 1 \in 1 .. n /\ p - 1 # p
    BY <1>1, <1>9
  <2>2. l.prev[e] = s[p - 1] /\ s[p - 1] # e /\ l.next[s[p - 1]] = e /\ s[1] # e
        /\ s[p - 1] \in Elements
    BY <1>1, <1>3, <1>6, <1>9, <2>1 DEF e
  <2> DEFINE after == IF p = n THEN s[1] ELSE s[p + 1]
             rest == IF p = n THEN NULL ELSE s[p + 1]
  <2>3. l.next[e] = rest /\ after \in Elements /\ after # e
        /\ (IF l.next[e] # NULL THEN l.next[e] ELSE l.head) = after
        /\ rest \in Elements \cup {NULL}
    <3>1. CASE p = n
      BY <1>1, <1>3, <1>6, <2>2, <3>1 DEF e
    <3>2. CASE p # n
      <4>1. p \in 1 .. n - 1 /\ p + 1 \in 1 .. n /\ p + 1 # p
        BY <1>1, <3>2
      <4>. QED
        BY <1>1, <1>3, <3>2, <4>1 DEF e
    <3>. QED
      BY <3>1, <3>2
  <2> HIDE DEF after, rest
  <2>4. d = [head |-> s[1], next |-> [l.next EXCEPT ![s[p - 1]] = rest],
             prev |-> [l.prev EXCEPT ![after] = s[p - 1]]]
    <3>1. PrevDeleted(l, e) = [l.prev EXCEPT ![after] = s[p - 1]]
      BY <2>2, <2>3 DEF PrevDeleted
    <3>2. d = [l EXCEPT !.next[s[p - 1]] = rest, !.prev = PrevDeleted(l, e)]
      BY <1>3, <2>2, <2>3 DEF Deleted, d
    <3>. QED
      BY <1>3, <1>4, <3>1, <3>2
  <2>5. d \in Links
    BY <1>1, <1>4, <1>6, <2>2, <2>3, <2>4 DEF Links, Cells
  <2>6. /\ m \in Links /\ m.head = s[1]
        /\ m.next = [[l.next EXCEPT ![s[p - 1]] = rest] EXCEPT ![e] = Garbage]
        /\ m.prev = [[l.prev EXCEPT ![after] = s[p - 1]] EXCEPT ![e] = Garbage]
    BY <1>6, <2>4, <2>5, FreedIs DEF m
  <2>7. \A x \in Elements :
          x # e => /\ m.next[x] = IF x = s[p - 1] THEN rest ELSE l.next[x]
                   /\ m.prev[x] = IF x = after THEN s[p - 1] ELSE l.prev[x]
    BY <1>4, <1>6, <2>2, <2>3, <2>6 DEF Cells
  <2>8. n # 1 /\ w[1] = s[1]
    <3>1. n # 1 /\ 1 \in 1 .. n - 1 /\ 1 < p
      BY <1>1, <1>9
    <3>. QED
      BY <1>2, <3>1
  <2>9. w[Len(w)] = IF p = n THEN s[n - 1] ELSE s[n]
    <3>1. n - 1 \in 1 .. n - 1 /\ Len(w) = n - 1 /\ n - 1 + 1 = n /\ (n - 1 < p <=> p = n)
      BY <1>1, <1>2, <2>8
    <3>. QED
      BY <1>2, <3>1
  <2>10. m.head = w[1] /\ m.prev[w[1]] = w[Len(w)] /\ m.next[w[Len(w)]] = NULL
    <3>1. m.head = w[1]
      BY <2>6, <2>8
    <3>2. CASE p = n
      <4>1. after = s[1] /\ rest = NULL /\ w[Len(w)] = s[p - 1]
        BY <2>9, <3>2 DEF after, rest
      <4>. QED
        BY <1>1, <1>6, <2>2, <2>7, <2>8, <3>1, <4>1
    <3>3. CASE p # n
      <4>1. after = s[p + 1] /\ w[Len(w)] = s[n] /\ s[n] # e /\ s[n] # s[p - 1]
            /\ s[1] # after /\ p + 1 \in 1 .. n
        BY <1>1, <1>6, <1>9, <2>1, <2>9, <3>3 DEF after, e
      <4>. QED
        BY <1>1, <1>3, <1>6, <2>2, <2>7, <2>8, <3>1, <4>1
    <3>. QED
      BY <3>2, <3>3
  <2>11. ASSUME NEW k \in 1 .. Len(w) - 1
         PROVE  m.next[w[k]] = w[k + 1] /\ m.prev[w[k + 1]] = w[k]
    <3>1. k \in Nat /\ k \in 1 .. n - 2 /\ k \in 1 .. n - 1 /\ k + 1 \in 1 .. n - 1
          /\ k \in 1 .. n /\ k + 1 \in 1 .. n /\ k + 2 \in 1 .. n /\ k + 1 + 1 = k + 2
      BY <1>1, <1>2
    <3>2. w[k] = (IF k < p THEN s[k] ELSE s[k + 1])
          /\ w[k + 1] = (IF k + 1 < p THEN s[k + 1] ELSE s[k + 2])
      BY <1>2, <3>1
    <3>3. /\ l.next[s[k]] = s[k + 1] /\ l.prev[s[k + 1]] = s[k]
          /\ l.next[s[k + 1]] = s[k + 2] /\ l.prev[s[k + 2]] = s[k + 1]
      BY <1>3, <3>1
    <3>4. /\ s[k] \in Elements /\ s[k + 1] \in Elements /\ s[k + 2] \in Elements
          /\ (k # p => s[k] # e) /\ (k + 1 # p => s[k + 1] # e) /\ (k + 2 # p => s[k + 2] # e)
          /\ (k # p - 1 => s[k] # s[p - 1]) /\ (k + 1 # p - 1 => s[k + 1] # s[p - 1])
      BY <1>1, <2>1, <3>1 DEF e
    <3>5. /\ after = (IF p = n THEN s[1] ELSE s[p + 1])
          /\ (p = n => k + 1 < p /\ s[k + 1] # s[1])
          /\ (p # n /\ k + 1 # p + 1 => s[k + 1] # s[p + 1])
          /\ (p # n /\ k + 2 # p + 1 => s[k + 2] # s[p + 1])
      BY <1>1, <3>1 DEF after
    <3>6. CASE k + 1 < p
      BY <1>1, <2>7, <3>1, <3>2, <3>3, <3>4, <3>5, <3>6
    <3>7. CASE k + 1 = p
      <4>1. p # n /\ rest = s[p + 1] /\ after = s[p + 1] /\ k = p - 1 /\ k < p /\ k + 2 = p + 1
        BY <1>1, <3>1, <3>7, <3>5 DEF rest
      <4>. QED
        BY <2>7, <3>2, <3>3, <3>4, <3>7, <4>1
    <3>8. CASE k + 1 > p
      <4>1. p # n /\ ~(k < p) /\ ~(k + 1 < p) /\ k + 1 # p /\ k + 2 # p /\ k + 2 # p + 1
            /\ k + 1 # p - 1
        BY <1>1, <3>1, <3>8
      <4>. QED
        BY <2>7, <3>2, <3>3, <3>4, <3>5, <4>1
    <3>. QED
      BY <1>1, <3>1, <3>6, <3>7, <3>8
  <2>12. Spells(m, w)
    BY <1>5, <2>8, <2>10, <2>11 DEF Spells
  <2>. QED
    BY <2>6, <2>12 DEF w, e, m, d
<1>. QED
  BY <1>7, <1>8, <1>9

-----------------------------------------------------------------------------
(* A loop is at a cell of the list s, knows the next one, and what it has  *)
(* come to before is what it began with but for the cells still ahead.     *)
LoopAt(begun, s, p, cell, next, met) ==
  /\ p \in 1 .. Len(s)
  /\ cell = s[p]
  /\ next = IF p = Len(s) THEN NULL ELSE s[p + 1]
  /\ Len(begun) = Len(met) + (Len(s) - p)
  /\ \A i \in 1 .. Len(met) : met[i] = begun[i]
  /\ \A j \in 1 .. Len(s) - p : s[p + j] = begun[Len(met) + j]

LoopOver(begun, s, cell, next, met) ==
  /\ begun \in Seq(Elements) /\ met \in Seq(Elements)
  /\ \/ cell = NULL /\ met = begun
     \/ \E p \in Nat : LoopAt(begun, s, p, cell, next, met)

ListInv ==
  /\ list \in Links /\ order \in Seq(Elements) /\ Distinct(order)
  /\ Spells(list, order)
  /\ LoopOver(started, order, el, tmp, visited)

(* What follows a cell of a list. *)
LEMMA FollowingCell ==
  ASSUME NEW l, NEW s \in Seq(Elements), Spells(l, s), NEW p \in 1 .. Len(s)
  PROVE  l.next[s[p]] = IF p = Len(s) THEN NULL ELSE s[p + 1]
<1>1. Len(s) \in Nat /\ s # << >>
  BY CellsOf
<1>2. CASE p = Len(s)
  BY <1>1, <1>2 DEF Spells
<1>3. CASE p # Len(s)
  <2>1. p \in 1 .. Len(s) - 1
    BY <1>1, <1>3
  <2>. QED
    BY <1>1, <1>3, <2>1 DEF Spells
<1>. QED
  BY <1>2, <1>3

(* The loop goes on to the cell that was next when the body began, which   *)
(* is at the place q of the list w the body leaves.                        *)
LEMMA BodyGoesOn ==
  ASSUME NEW l \in Links, NEW w \in Seq(Elements), Spells(l, w),
         order \in Seq(Elements), started \in Seq(Elements), visited \in Seq(Elements),
         NEW p \in Nat, LoopAt(started, order, p, el, tmp, visited),
         NEW q \in Nat \ {0}, Len(w) + p + 1 = Len(order) + q,
         \A j \in Nat : q + j <= Len(w) => w[q + j] = order[p + 1 + j],
         Body(l)
  PROVE  LoopOver(started', w, el', tmp', visited')
<1>1. /\ Len(w) \in Nat /\ Len(order) \in Nat /\ Len(visited) \in Nat /\ Len(started) \in Nat
      /\ p \in 1 .. Len(order) /\ tmp = IF p = Len(order) THEN NULL ELSE order[p + 1]
      /\ Len(started) = Len(visited) + (Len(order) - p)
      /\ \A i \in 1 .. Len(visited) : visited[i] = started[i]
      /\ \A j \in 1 .. Len(order) - p : order[p + j] = started[Len(visited) + j]
      /\ \A i \in 1 .. Len(w) : w[i] \in Elements
  BY CellsOf, LenProperties DEF LoopAt
<1>2. el' = tmp /\ started' = started
  BY DEF Body, Following
<1>3. CASE p = Len(order)
  <2>1. el' = NULL /\ visited' = visited
    BY <1>1, <1>2, <1>3, UtlistAssumption DEF Body, Following
  <2>2. visited = started
    BY <1>1, <1>3, SeqEqual
  <2>. QED
    BY <1>2, <2>1, <2>2 DEF LoopOver
<1>4. CASE p # Len(order)
  <2>1. q \in 1 .. Len(w) /\ q + 0 <= Len(w) /\ q + 0 = q /\ p + 1 + 0 = p + 1
        /\ 1 \in 1 .. Len(order) - p
    BY <1>1, <1>4
  <2>2. tmp = w[q] /\ w[q] \in Elements
    BY <1>1, <1>4, <2>1
  <2>3. /\ visited' = Append(visited, w[q])
        /\ tmp' = IF q = Len(w) THEN NULL ELSE w[q + 1]
    BY <2>1, <2>2, FollowingCell DEF Body, Following
  <2>4. /\ Len(visited') = Len(visited) + 1 /\ visited' \in Seq(Elements)
        /\ \A i \in 1 .. Len(visited) : visited'[i] = visited[i]
        /\ visited'[Len(visited) + 1] = w[q]
    BY <2>2, <2>3, AppendProperties
  <2>5. PICK n \in Nat : n = Len(visited)
    BY <1>1
  <2>6. w[q] = started[n + 1]
    BY <1>1, <1>4, <2>1, <2>2, <2>5
  <2>7. ASSUME NEW i \in 1 .. n + 1 PROVE visited'[i] = started[i]
    <3>1. CASE i = n + 1
      BY <2>4, <2>5, <2>6, <3>1
    <3>2. CASE i # n + 1
      <4>1. n \in Nat /\ i \in 1 .. n + 1
        BY <2>5, <2>7
      <4>2. i \in 1 .. n
        BY <3>2, <4>1
      <4>. QED
        BY <1>1, <2>4, <2>5, <4>2
    <3>. QED
      BY <3>1, <3>2
  <2>8. \A j \in 1 .. Len(w) - q : w[q + j] = started[n + 1 + j]
    <3> TAKE j \in 1 .. Len(w) - q
    <3>1. j \in Nat /\ q + j <= Len(w) /\ j + 1 \in 1 .. Len(order) - p
          /\ p + 1 + j = p + (j + 1) /\ n + (j + 1) = n + 1 + j
      BY <1>1, <1>4, <2>1
    <3>2. w[q + j] = order[p + (j + 1)]
      BY <3>1
    <3>3. order[p + (j + 1)] = started[n + (j + 1)]
      BY <1>1, <2>5, <3>1
    <3>. QED
      BY <3>1, <3>2, <3>3
  <2>9. Len(started) = (n + 1) + (Len(w) - q)
    <3>1. PICK a, b \in Nat : a = Len(w) /\ b = Len(order)
      BY <1>1
    <3>2. Len(started) = n + (b - p) /\ a + p + 1 = b + q
      BY <1>1, <2>5, <3>1
    <3>3. n + (b - p) = (n + 1) + (a - q)
      BY <3>2
    <3>. QED
      BY <3>1, <3>2, <3>3
  <2>10. LoopAt(started', w, q, el', tmp', visited')
    BY <1>2, <2>1, <2>2, <2>3, <2>4, <2>5, <2>7, <2>8, <2>9 DEF LoopAt
  <2>. QED
    BY <1>2, <2>4, <2>10 DEF LoopOver
<1>. QED
  BY <1>3, <1>4

(* There is no list at first. *)
LEMMA ListInit == Init => ListInv
<1> SUFFICES ASSUME Init PROVE ListInv
  OBVIOUS
<1>1. list \in Links
  BY DEF Init, Links, Cells
<1>2. order \in Seq(Elements) /\ Distinct(order) /\ Spells(list, order)
  BY DEF Init, Distinct, Spells
<1>3. LoopOver(started, order, el, tmp, visited)
  BY DEF Init, LoopOver
<1>. QED
  BY <1>1, <1>2, <1>3 DEF ListInv

(* Outside of a loop it has come to all cells it began with. *)
LEMMA OutsideLoop ==
  ASSUME ListInv, el \notin Elements
  PROVE  /\ el = NULL /\ visited = started
         /\ \A s : LoopOver(started, s, el, tmp, visited)
<1>1. \A p \in 1 .. Len(order) : order[p] \in Elements
  BY CellsOf DEF ListInv
<1>2. \A p \in Nat : ~LoopAt(started, order, p, el, tmp, visited)
  BY <1>1 DEF LoopAt
<1>. QED
  BY <1>2 DEF ListInv, LoopOver

(* Inside of one, it is at a cell of the list. *)
LEMMA InsideLoop ==
  ASSUME ListInv, el \in Elements
  PROVE  /\ started \in Seq(Elements) /\ visited \in Seq(Elements)
         /\ \E p \in 1 .. Len(order) :
              el = order[p] /\ LoopAt(started, order, p, el, tmp, visited)
  BY UtlistAssumption DEF ListInv, LoopOver, LoopAt

(* A cell is listed when it has a place. *)
LEMMA ListedIs ==
  ASSUME order \in Seq(Elements), NEW e
  PROVE  Listed(e) <=> \E p \in 1 .. Len(order) : order[p] = e
  BY LenProperties DEF Listed

LEMMA AddKeepsList ==
  ASSUME ListInv, NEW e \in Elements, Add(e)
  PROVE  ListInv'
<1>1. el \notin Elements
  BY UtlistAssumption DEF Add
<1>2. \A i \in 1 .. Len(order) : order[i] # e
  BY ListedIs DEF Add, ListInv
<1>3. /\ list' \in Links /\ order' \in Seq(Elements) /\ Distinct(order')
      /\ Spells(list', order')
  BY <1>2, AppendedSpells DEF Add, ListInv
<1>4. LoopOver(started', order', el', tmp', visited')
  BY <1>1, OutsideLoop DEF Add
<1>. QED
  BY <1>3, <1>4 DEF ListInv

LEMMA DeleteKeepsList ==
  ASSUME ListInv, NEW e \in Elements, Delete(e)
  PROVE  ListInv'
<1>1. el \notin Elements
  BY UtlistAssumption DEF Delete
<1>2. PICK p \in 1 .. Len(order) : order[p] = e
  BY ListedIs DEF Delete, ListInv
<1>3. /\ list' \in Links /\ order' \in Seq(Elements) /\ Distinct(order')
      /\ Spells(list', order')
  BY <1>2, DeletedSpells, WithoutIs DEF Delete, ListInv
<1>4. LoopOver(started', order', el', tmp', visited')
  BY <1>1, OutsideLoop DEF Delete
<1>. QED
  BY <1>3, <1>4 DEF ListInv

LEMMA LoopBegins ==
  ASSUME ListInv, ForEachSafe
  PROVE  ListInv'
<1>1. order # << >> /\ list.head = order[1] /\ Spells(list, order) /\ order \in Seq(Elements)
  BY DEF ForEachSafe, ListInv, Spells
<1>2. Len(order) \in Nat \ {0} /\ order[1] \in Elements /\ 1 \in 1 .. Len(order)
  BY <1>1, CellsOf
<1>3. /\ el' = order[1] /\ started' = order /\ visited' = << order[1] >> /\ order' = order
      /\ tmp' = IF 1 = Len(order) THEN NULL ELSE order[1 + 1]
      /\ list' = list
  BY <1>1, <1>2, FollowingCell DEF ForEachSafe
<1>4. visited' \in Seq(Elements) /\ Len(visited') = 1 /\ visited'[1] = order[1]
  BY <1>2, <1>3
<1>5. LoopAt(started', order', 1, el', tmp', visited')
  BY <1>2, <1>3, <1>4 DEF LoopAt
<1>6. LoopOver(started', order', el', tmp', visited')
  BY <1>1, <1>3, <1>4, <1>5 DEF LoopOver
<1>. QED
  BY <1>3, <1>6 DEF ListInv

LEMMA LookKeepsList ==
  ASSUME ListInv, Look
  PROVE  ListInv'
<1>1. /\ list \in Links /\ order \in Seq(Elements) /\ Spells(list, order)
      /\ started \in Seq(Elements) /\ visited \in Seq(Elements)
  BY InsideLoop DEF Look, ListInv
<1>2. PICK p \in 1 .. Len(order) : LoopAt(started, order, p, el, tmp, visited)
  BY InsideLoop DEF Look
<1>3. p \in Nat /\ Len(order) \in Nat
  BY <1>1, LenProperties
<1>4. p + 1 \in Nat \ {0} /\ Len(order) + p + 1 = Len(order) + (p + 1)
  BY <1>3
<1>5. Body(list) /\ order' = order /\ list' = list
  BY DEF Look, Body
<1>6. LoopOver(started', order, el', tmp', visited')
  BY <1>1, <1>2, <1>3, <1>4, <1>5, BodyGoesOn
<1>. QED
  BY <1>5, <1>6 DEF ListInv

LEMMA FreeKeepsList ==
  ASSUME ListInv, Free
  PROVE  ListInv'
<1>1. /\ list \in Links /\ order \in Seq(Elements) /\ Spells(list, order) /\ Distinct(order)
      /\ started \in Seq(Elements) /\ visited \in Seq(Elements)
  BY InsideLoop DEF Free, ListInv
<1>2. PICK p \in 1 .. Len(order) : el = order[p] /\ LoopAt(started, order, p, el, tmp, visited)
  BY InsideLoop DEF Free
<1> DEFINE l == Freed(Deleted(list, el), el)
           w == Without(order, el)
<1>3. /\ l \in Links /\ Spells(l, w)
      /\ w \in Seq(Elements) /\ Len(w) = Len(order) - 1 /\ Distinct(w)
      /\ \A k \in 1 .. Len(order) - 1 : w[k] = IF k < p THEN order[k] ELSE order[k + 1]
  BY <1>1, <1>2, DeletedSpells, WithoutIs
<1>4. p \in Nat \ {0} /\ Len(order) \in Nat
  BY <1>1, LenProperties
<1>5. Body(l) /\ order' = w /\ list' = l
  BY DEF Free, Body
<1> HIDE DEF l, w
<1>6. Len(w) + p + 1 = Len(order) + p
  BY <1>3, <1>4
<1>7. ASSUME NEW j \in Nat, p + j <= Len(w) PROVE w[p + j] = order[p + 1 + j]
  <2>1. p + j \in 1 .. Len(order) - 1 /\ ~(p + j < p) /\ p + j + 1 = p + 1 + j
    BY <1>3, <1>4, <1>7
  <2>. QED
    BY <1>3, <2>1
<1>8. LoopOver(started', w, el', tmp', visited')
  BY <1>1, <1>2, <1>3, <1>4, <1>5, <1>6, <1>7, BodyGoesOn
<1>. QED
  BY <1>3, <1>5, <1>8 DEF ListInv

(* Every step keeps the list. *)
LEMMA ListInvInductive == ListInv /\ [Next]_vars => ListInv'
<1> SUFFICES ASSUME ListInv, [Next]_vars PROVE ListInv'
  OBVIOUS
<1>1. CASE UNCHANGED vars
  BY <1>1 DEF vars, ListInv
<1>2. CASE Next
  BY <1>2, AddKeepsList, DeleteKeepsList, LoopBegins, LookKeepsList, FreeKeepsList DEF Next
<1>. QED
  BY <1>1, <1>2

(* The links spell the list whatever is appended and freed: what DL_APPEND *)
(* and DL_DELETE do to the neighbours is right for the head, for the tail, *)
(* for the only cell and for any other.                                    *)
THEOREM LinkedHolds == Spec => []Linked
<1>1. ListInv => Linked
  BY DEF ListInv, Spells, Linked
<1>. QED
  BY <1>1, ListInit, ListInvInductive, PTL DEF Spec

(* The destroy loops and the loops over content come to every cell that    *)
(* was in the list, once and in order, though cells are freed on the way.  *)
THEOREM VisitsAllHolds == Spec => []VisitsAll
<1>1. ListInv => VisitsAll
  BY OutsideLoop DEF VisitsAll
<1>. QED
  BY <1>1, ListInit, ListInvInductive, PTL DEF Spec

-----------------------------------------------------------------------------
(* A set of numbers that is not empty has a least one: among the intervals *)
(* from zero to each of them, one is contained in no other.                *)
LEMMA LeastNumber ==
  ASSUME NEW T, T \subseteq Nat, T # {}
  PROVE  \E x \in T : \A y \in T : x <= y
<1> DEFINE R == StrictSubsetOrdering(Nat)
           F == FiniteSubsetsOf(Nat)
           I == {0 .. k : k \in T}
<1>1. IsWellFoundedOn(R, F)
  BY FS_StrictSubsetOrderingWellFounded
<1>2. \A k \in T : IsFiniteSet(0 .. k) /\ 0 .. k \subseteq Nat
  BY FS_Interval
<1>3. I \subseteq F /\ I # {}
  BY <1>2 DEF FiniteSubsetsOf
<1>4. \A x, y \in T : y < x => << 0 .. y, 0 .. x >> \in R
  <2> SUFFICES ASSUME NEW x \in T, NEW y \in T, y < x PROVE << 0 .. y, 0 .. x >> \in R
    OBVIOUS
  <2>1. 0 .. y \subseteq 0 .. x /\ x \in 0 .. x /\ x \notin 0 .. y /\ 0 .. x \subseteq Nat
    OBVIOUS
  <2>. QED
    BY <2>1 DEF StrictSubsetOrdering
<1> HIDE DEF R, F
<1>5. \E i \in I : \A j \in I : ~(<< j, i >> \in R)
  BY <1>1, <1>3, WFMin
<1>6. PICK x \in T : \A y \in T : ~(<< 0 .. y, 0 .. x >> \in R)
  BY <1>5
<1>7. \A y \in T : x \in Nat /\ y \in Nat /\ ~(y < x)
  BY <1>4, <1>6
<1>. QED
  BY <1>6, <1>7

(* Induction over the numbers, for a set of them. *)
LEMMA AllNumbers ==
  ASSUME NEW S, 0 \in S, \A n \in S \cap Nat : n + 1 \in S
  PROVE  Nat \subseteq S
<1> DEFINE T == Nat \ S
<1> SUFFICES ASSUME T # {} PROVE FALSE
  OBVIOUS
<1>1. PICK x \in T : \A y \in T : x <= y
  BY LeastNumber
<1>2. x # 0 /\ x - 1 \in Nat /\ ~(x <= x - 1)
  BY <1>1
<1>3. x - 1 \in S
  BY <1>1, <1>2
<1>4. (x - 1) + 1 \in S
  BY <1>2, <1>3
<1>. QED
  BY <1>2, <1>4

(* How many places there are up to one. *)
LEMMA PlacesUpTo ==
  ASSUME NEW n \in Nat
  PROVE  IsFiniteSet(1 .. n) /\ Cardinality(1 .. n) = n
  BY FS_Interval

(* A list without cells twice has no more of them than there are. *)
LEMMA ListBounded ==
  ASSUME NEW s \in Seq(Elements), Distinct(s)
  PROVE  Cardinality(Elements) \in Nat /\ Len(s) <= Cardinality(Elements)
<1>1. Len(s) \in Nat /\ \A i \in 1 .. Len(s) : s[i] \in Elements
  BY CellsOf
<1> DEFINE f == [i \in 1 .. Len(s) |-> s[i]]
<1>2. f \in Injection(1 .. Len(s), Elements)
  BY <1>1 DEF Distinct, Injection, IsInjective
<1>3. IsFiniteSet(Elements)
  BY UtlistAssumption
<1>4. Cardinality(1 .. Len(s)) <= Cardinality(Elements)
  BY <1>2, <1>3, FS_Injection
<1>5. Cardinality(1 .. Len(s)) = Len(s)
  BY <1>1, PlacesUpTo
<1>. QED
  BY <1>3, <1>4, <1>5, FS_CardinalityType

(* What next leads to from the head on are the cells of the list, and no   *)
(* cell behind them.                                                       *)
LEMMA ReachedIs ==
  ASSUME ListInv
  PROVE  Reached = [k \in 1 .. Cardinality(Elements) + 1 |->
                      IF k <= Len(order) THEN order[k] ELSE NULL]
<1> DEFINE D == 1 .. Cardinality(Elements) + 1
           g == [k \in D |-> IF k <= Len(order) THEN order[k] ELSE NULL]
           at(f, k) == IF k = 1 THEN list.head
                       ELSE IF f[k - 1] \in Elements THEN list.next[f[k - 1]] ELSE NULL
<1>1. /\ order \in Seq(Elements) /\ Spells(list, order) /\ Distinct(order)
      /\ Len(order) \in Nat /\ (order = << >> <=> Len(order) = 0)
      /\ \A i \in 1 .. Len(order) : order[i] \in Elements
  BY CellsOf DEF ListInv
<1>2. Cardinality(Elements) \in Nat /\ Len(order) <= Cardinality(Elements)
  BY <1>1, ListBounded
<1>3. ASSUME NEW k \in D PROVE g[k] = at(g, k)
  <2>1. k \in Nat /\ g[k] = IF k <= Len(order) THEN order[k] ELSE NULL
    BY <1>2
  <2>2. CASE k = 1
    BY <1>1, <2>1, <2>2 DEF Spells
  <2>3. CASE k # 1
    <3>1. k - 1 \in D /\ k - 1 \in Nat \ {0} /\ k - 1 + 1 = k
          /\ g[k - 1] = IF k - 1 <= Len(order) THEN order[k - 1] ELSE NULL
      BY <1>2, <2>1, <2>3
    <3>2. CASE k - 1 <= Len(order)
      <4>1. k - 1 \in 1 .. Len(order)
        BY <1>1, <3>1, <3>2
      <4>2. list.next[order[k - 1]] = IF k - 1 = Len(order) THEN NULL ELSE order[k]
        BY <1>1, <3>1, <4>1, FollowingCell
      <4>3. k - 1 = Len(order) <=> ~(k <= Len(order))
        BY <1>1, <2>1, <3>2
      <4>4. g[k - 1] \in Elements /\ g[k - 1] = order[k - 1]
        BY <1>1, <3>1, <3>2, <4>1
      <4>. QED
        BY <2>1, <2>3, <4>2, <4>3, <4>4
    <3>3. CASE ~(k - 1 <= Len(order))
      <4>1. ~(k <= Len(order)) /\ g[k - 1] \notin Elements
        BY <1>1, <2>1, <3>1, <3>3, UtlistAssumption
      <4>. QED
        BY <2>1, <2>3, <4>1
    <3>. QED
      BY <3>2, <3>3
  <2>. QED
    BY <2>2, <2>3
<1>4. g = [k \in D |-> at(g, k)]
  BY <1>3
<1>5. Reached = CHOOSE f : f = [k \in D |-> at(f, k)]
  BY DEF Reached
<1>6. Reached = [k \in D |-> at(Reached, k)]
  BY <1>4, <1>5
<1> DEFINE same == {n \in Nat : n + 1 \in D => Reached[n + 1] = g[n + 1]}
<1>7. 0 \in same
  <2>1. 1 \in D
    BY <1>2
  <2>2. Reached[1] = list.head /\ g[1] = list.head
    BY <1>3, <1>6, <2>1
  <2>. QED
    BY <2>2
<1>8. ASSUME NEW n \in same \cap Nat PROVE n + 1 \in same
  <2> SUFFICES ASSUME n + 1 + 1 \in D PROVE Reached[n + 1 + 1] = g[n + 1 + 1]
    OBVIOUS
  <2>1. n + 1 \in D /\ n + 1 + 1 # 1 /\ n + 1 + 1 - 1 = n + 1
    BY <1>2
  <2>2. Reached[n + 1] = g[n + 1]
    BY <1>8, <2>1
  <2>3. Reached[n + 1 + 1] = at(Reached, n + 1 + 1) /\ g[n + 1 + 1] = at(g, n + 1 + 1)
    BY <1>3, <1>6
  <2>. QED
    BY <2>1, <2>2, <2>3
<1> HIDE DEF same
<1>9. Nat \subseteq same
  BY <1>7, <1>8, AllNumbers
<1>10. ASSUME NEW k \in D PROVE Reached[k] = g[k]
  <2>1. k - 1 \in Nat /\ k - 1 + 1 = k
    BY <1>2
  <2>. QED
    BY <1>9, <2>1 DEF same
<1>. QED
  BY <1>4, <1>6, <1>10

(* The chain is the list. *)
LEMMA ChainIsOrder == ListInv => Chain = order
<1> SUFFICES ASSUME ListInv PROVE Chain = order
  OBVIOUS
<1>1. /\ order \in Seq(Elements) /\ Distinct(order) /\ Len(order) \in Nat
      /\ \A i \in 1 .. Len(order) : order[i] \in Elements
      /\ order = [i \in 1 .. Len(order) |-> order[i]]
  BY CellsOf, LenProperties DEF ListInv
<1>2. Cardinality(Elements) \in Nat /\ Len(order) <= Cardinality(Elements)
  BY <1>1, ListBounded
<1>3. /\ DOMAIN Reached = 1 .. Cardinality(Elements) + 1
      /\ \A k \in 1 .. Cardinality(Elements) + 1 :
           Reached[k] = IF k <= Len(order) THEN order[k] ELSE NULL
  BY ReachedIs
<1>4. {j \in DOMAIN Reached : Reached[j] \in Elements} = 1 .. Len(order)
  BY <1>1, <1>2, <1>3, UtlistAssumption
<1>5. Cardinality(1 .. Len(order)) = Len(order)
  BY <1>1, PlacesUpTo
<1>6. \A k \in 1 .. Len(order) : Reached[k] = order[k]
  BY <1>1, <1>2, <1>3
<1>. QED
  BY <1>1, <1>4, <1>5, <1>6 DEF Chain

(* A list without a cell is the sequence with its place taken out. *)
LEMMA WithoutIsTakenOut ==
  ASSUME NEW s \in Seq(Elements), Distinct(s), NEW p \in 1 .. Len(s)
  PROVE  Without(s, s[p]) = Contents!RemoveAt(s, p)
<1> DEFINE w == Without(s, s[p])
           a == SubSeq(s, 1, p - 1)
           b == SubSeq(s, p + 1, Len(s))
<1>1. /\ Len(s) \in Nat /\ p \in Nat /\ p >= 1 /\ p <= Len(s)
      /\ \A i \in 1 .. Len(s) : s[i] \in Elements
  BY CellsOf
<1>2. /\ w \in Seq(Elements) /\ Len(w) = Len(s) - 1
      /\ \A k \in 1 .. Len(s) - 1 : w[k] = IF k < p THEN s[k] ELSE s[k + 1]
  BY WithoutIs
<1>3. a \in Seq(Elements) /\ Len(a) = p - 1 /\ \A i \in 1 .. p - 1 : a[i] = s[i]
  <2>1. /\ 1 \in Int /\ p - 1 \in Int /\ \A i \in 1 .. p - 1 : s[i] \in Elements
    BY <1>1
  <2>2. /\ a \in Seq(Elements)
        /\ Len(a) = IF 1 <= p - 1 THEN p - 1 - 1 + 1 ELSE 0
        /\ \A i \in 1 .. p - 1 - 1 + 1 : a[i] = s[1 + i - 1]
    BY <2>1, SubSeqProperties
  <2>3. p - 1 - 1 + 1 = p - 1 /\ \A i \in 1 .. p - 1 : 1 + i - 1 = i
    BY <1>1
  <2>. QED
    BY <1>1, <2>2, <2>3
<1>4. b \in Seq(Elements) /\ Len(b) = Len(s) - p /\ \A i \in 1 .. Len(s) - p : b[i] = s[p + i]
  <2>1. /\ p + 1 \in Int /\ Len(s) \in Int /\ \A i \in p + 1 .. Len(s) : s[i] \in Elements
    BY <1>1
  <2>2. /\ b \in Seq(Elements)
        /\ Len(b) = IF p + 1 <= Len(s) THEN Len(s) - (p + 1) + 1 ELSE 0
        /\ \A i \in 1 .. Len(s) - (p + 1) + 1 : b[i] = s[p + 1 + i - 1]
    BY <2>1, SubSeqProperties
  <2>3. Len(s) - (p + 1) + 1 = Len(s) - p /\ \A i \in 1 .. Len(s) - p : p + 1 + i - 1 = p + i
    BY <1>1
  <2>4. Len(b) = Len(s) - p
    BY <1>1, <2>2
  <2>5. \A i \in 1 .. Len(s) - p : b[i] = s[p + i]
    BY <2>2, <2>3
  <2>. QED
    BY <2>2, <2>4, <2>5
<1> HIDE DEF a, b, w
<1>5. /\ a \o b \in Seq(Elements) /\ Len(a \o b) = Len(a) + Len(b)
      /\ \A i \in 1 .. Len(a) + Len(b) :
           (a \o b)[i] = IF i <= Len(a) THEN a[i] ELSE b[i - Len(a)]
  BY <1>3, <1>4, ConcatProperties
<1>6. Len(a \o b) = Len(w)
  BY <1>1, <1>2, <1>3, <1>4, <1>5
<1>7. ASSUME NEW i \in 1 .. Len(w) PROVE w[i] = (a \o b)[i]
  <2>1. i \in 1 .. Len(s) - 1 /\ i \in 1 .. Len(a) + Len(b)
    BY <1>2, <1>5, <1>6
  <2>2. CASE i < p
    <3>1. i \in 1 .. p - 1 /\ i <= Len(a)
      BY <1>1, <1>3, <2>1, <2>2
    <3>. QED
      BY <1>2, <1>3, <1>5, <2>1, <2>2, <3>1
  <2>3. CASE ~(i < p)
    <3>1. ~(i <= Len(a)) /\ i - Len(a) \in 1 .. Len(s) - p /\ p + (i - Len(a)) = i + 1
      BY <1>1, <1>3, <2>1, <2>3
    <3>. QED
      BY <1>2, <1>4, <1>5, <2>1, <2>3, <3>1
  <2>. QED
    BY <2>2, <2>3
<1>8. w = a \o b
  BY <1>2, <1>5, <1>6, <1>7, SeqEqual
<1>. QED
  BY <1>8 DEF a, b, w, Contents!RemoveAt

(* There is nothing in the sequence at first. *)
LEMMA SequenceInit == Init /\ Chain = order => Contents!Init
  BY DEF Init, Contents!Init

(* A step on the list is one on the sequence, or none. *)
LEMMA SequenceStep ==
  ASSUME ListInv, Chain = order, Chain' = order', [Next]_vars
  PROVE  [Contents!Next]_Chain
<1>1. order \in Seq(Elements) /\ Distinct(order) /\ DOMAIN order = 1 .. Len(order)
  BY LenProperties DEF ListInv
<1>2. ASSUME NEW e \in Elements, Add(e) PROVE Contents!Add
  <2>1. ~Contents!Contains(Chain, e)
    BY <1>2, ListedIs, <1>1 DEF Add, Contents!Contains
  <2>. QED
    BY <1>2, <2>1 DEF Add, Contents!Add
<1>3. ASSUME NEW e \in Elements, Delete(e) PROVE Contents!TakeOut
  <2>1. PICK p \in 1 .. Len(order) : order[p] = e
    BY <1>1, <1>3, ListedIs DEF Delete
  <2>2. order' = Contents!RemoveAt(order, p)
    BY <1>1, <1>3, <2>1, WithoutIsTakenOut DEF Delete
  <2>. QED
    BY <1>1, <2>2 DEF Contents!TakeOut
<1>4. ASSUME Free PROVE Contents!TakeOut
  <2>1. PICK p \in 1 .. Len(order) : order[p] = el
    BY <1>4, InsideLoop DEF Free
  <2>2. order' = Contents!RemoveAt(order, p)
    BY <1>1, <1>4, <2>1, WithoutIsTakenOut DEF Free
  <2>. QED
    BY <1>1, <2>2 DEF Contents!TakeOut
<1>5. ASSUME ForEachSafe \/ Look \/ UNCHANGED vars PROVE UNCHANGED Chain
  BY <1>5 DEF ForEachSafe, Look, vars
<1>. QED
  BY <1>2, <1>3, <1>4, <1>5 DEF Next, Contents!Next

(* What a loop from the head on by next meets behaves as the sequence of   *)
(* the cells that were appended and not taken out: the list implements it. *)
THEOREM IsSequenceHolds == Spec => IsSequence
<1>1. Init => Contents!Init
  BY ListInit, ChainIsOrder, SequenceInit
<1>2. ListInv /\ ListInv' /\ [Next]_vars => [Contents!Next]_Chain
  <2>1. ListInv' => (Chain = order)'
    BY ChainIsOrder, PTL
  <2>. QED
    BY <2>1, ChainIsOrder, SequenceStep
<1>. QED
  BY <1>1, <1>2, ListInit, ListInvInductive, PTL DEF Spec, IsSequence, Contents!Spec
=============================================================================
