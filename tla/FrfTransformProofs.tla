------------------------- MODULE FrfTransformProofs -------------------------
(***************************************************************************)
(* The transforms, for every text, every set of fields and every row: what *)
(* the parser compiles is the grammar's language, its tree is the text, a  *)
(* call comes to what its tree stands for, and what is destroyed is what   *)
(* was allocated.                                                          *)
(***************************************************************************)
EXTENDS FrfTransform, FiniteSetTheorems, SequenceTheorems, WellFoundedInduction, TLAPS

(* What the parser's stack and the heap may have on them. *)
Syms == {"IDENT", "STRING", "LEFT_PAREN", "RIGHT_PAREN", "COMMA", "expression", "func", "list"}

(* An entry of the stack: a symbol and its value, *)
Entries == [sym : Syms, val : Nat \cup Seq(Nat)]

(* and a node of the heap. *)
Nodes ==
  [kind : {"str"}, str : Seq(Nat)]
  \cup [kind : {"exp"}, type : {"STRING", "P13N", "FUNC"}, val : Nat]
  \cup [kind : {"func"}, name : Nat, args : Seq(Nat)]
  \cup [kind : {"p13n"}, name : Nat, offset : Range(FieldOf)]
  \cup [kind : {"arg"}, exp : Nat]

(* A pointer to a node of that kind. *)
Is(p, kind) == p \in DOMAIN heap /\ heap[p].kind = kind

(* A node leads to nodes of the kinds it should, which were allocated      *)
(* before it, but for the field of an expression, which follows it.        *)
NodeOK(p) ==
  LET node == heap[p]
  IN  /\ node.kind = "exp" =>
           /\ node.type = "STRING" => node.val < p /\ Is(node.val, "str")
           /\ node.type = "FUNC" => node.val < p /\ Is(node.val, "func")
           /\ node.type = "P13N" => node.val = p + 1 /\ Is(p + 1, "p13n")
      /\ node.kind = "func" =>
           /\ node.name < p /\ Is(node.name, "str")
           /\ \A k \in DOMAIN node.args : node.args[k] < p /\ Is(node.args[k], "arg")
      /\ node.kind = "p13n" => node.name < p - 1 /\ Is(node.name, "str")
      /\ node.kind = "arg" => node.exp < p /\ Is(node.exp, "exp")

(* An entry of the stack has what its symbol says. *)
EntryOK(k) ==
  LET entry == stack[k]
  IN  /\ entry.sym \in {"IDENT", "STRING"} => Is(entry.val, "str")
      /\ entry.sym = "expression" => Is(entry.val, "exp")
      /\ entry.sym = "func" => Is(entry.val, "func")
      /\ entry.sym = "list" =>
           entry.val \in Seq(Nat) /\ \A m \in DOMAIN entry.val : Is(entry.val[m], "arg")

(* Everything on the heap is a node that leads where it should, *)
HeapOK == heap \in Seq(Nodes) /\ \A p \in DOMAIN heap : NodeOK(p)

(* everything on the stack has what its symbol says, *)
StackOK == stack \in Seq(Entries) /\ \A k \in DOMAIN stack : EntryOK(k)

(* and no more is read than there is. *)
TextOK == text \in Seq(Tokens) /\ read \in 0 .. Len(text)

-----------------------------------------------------------------------------
(* What it means that the stack ends in some symbols. *)
At(k, sym) == stack[k].sym = sym

(* The stack ends in some symbols if its topmost entries have them. *)
LEMMA HandleMeans ==
  ASSUME stack \in Seq(Entries), NEW syms \in Seq(Syms)
  PROVE  Handle(syms) <=>
           /\ Len(syms) <= Len(stack)
           /\ \A k \in 1 .. Len(syms) : stack[Len(stack) - Len(syms) + k].sym = syms[k]
<1>1. PICK n \in Nat : n = Len(stack) /\ DOMAIN stack = 1 .. n
  BY LenProperties
<1>2. PICK m \in Nat : m = Len(syms) /\ DOMAIN syms = 1 .. m
  BY LenProperties
<1>3. PICK s : s = Symbols
  OBVIOUS
<1>4. s \in Seq(Syms) /\ Len(s) = n /\ \A k \in 1 .. n : s[k] = stack[k].sym
  <2>1. s = [k \in 1 .. n |-> stack[k].sym]
    BY <1>1, <1>3 DEF Symbols
  <2>2. \A k \in 1 .. n : stack[k] \in Entries
    BY <1>1
  <2>3. \A k \in 1 .. n : stack[k].sym \in Syms
    BY <2>2 DEF Entries
  <2>. QED
    BY <2>1, <2>3
<1>5. PICK a : a = Reverse(syms)
  OBVIOUS
<1>6. PICK c : c = Reverse(s)
  OBVIOUS
<1>7. a = [k \in 1 .. m |-> syms[m - k + 1]] /\ c = [k \in 1 .. n |-> s[n - k + 1]]
  BY <1>2, <1>4, <1>5, <1>6 DEF Reverse
<1>8. a \in Seq(Syms) /\ Len(a) = m /\ c \in Seq(Syms) /\ Len(c) = n
  <2>1. \A k \in 1 .. m : syms[m - k + 1] \in Syms
    <3>1. \A k \in 1 .. m : m - k + 1 \in 1 .. m
      OBVIOUS
    <3>. QED
      BY <1>2, <3>1
  <2>2. \A k \in 1 .. n : s[n - k + 1] \in Syms
    <3>1. \A k \in 1 .. n : n - k + 1 \in 1 .. n
      OBVIOUS
    <3>2. \A k \in 1 .. n : s[k] \in Syms
      BY <1>4
    <3>. QED
      BY <3>1, <3>2
  <2>3. a \in [1 .. m -> Syms] /\ c \in [1 .. n -> Syms]
    BY <1>7, <2>1, <2>2
  <2>. QED
    BY <2>3
<1>9. Handle(syms) <=> m <= n /\ SubSeq(a, 1, m) = SubSeq(c, 1, m)
  BY <1>3, <1>5, <1>6, <1>8 DEF Handle, IsSuffix, IsPrefix
<1>10. m <= n => /\ SubSeq(a, 1, m) = [k \in 1 .. m |-> a[k]]
                 /\ SubSeq(c, 1, m) = [k \in 1 .. m |-> c[k]]
  BY <1>8
<1>11. m <= n => (SubSeq(a, 1, m) = SubSeq(c, 1, m) <=> \A k \in 1 .. m : a[k] = c[k])
  BY <1>10
<1>12. ASSUME m <= n
       PROVE  (\A k \in 1 .. m : a[k] = c[k]) <=> \A k \in 1 .. m : stack[n - m + k].sym = syms[k]
  <2>1. \A k \in 1 .. m : a[k] = syms[m - k + 1] /\ c[k] = s[n - k + 1]
    BY <1>7, <1>12
  <2>2. \A k \in 1 .. m : n - k + 1 \in 1 .. n
    BY <1>12
  <2>3. \A k \in 1 .. m : c[k] = stack[n - k + 1].sym
    BY <1>4, <2>1, <2>2
  <2>4. ASSUME \A k \in 1 .. m : a[k] = c[k], NEW k \in 1 .. m
        PROVE  stack[n - m + k].sym = syms[k]
    <3>1. m - k + 1 \in 1 .. m /\ m - (m - k + 1) + 1 = k /\ n - (m - k + 1) + 1 = n - m + k
      OBVIOUS
    <3>. QED
      BY <2>1, <2>3, <2>4, <3>1
  <2>5. ASSUME \A k \in 1 .. m : stack[n - m + k].sym = syms[k], NEW k \in 1 .. m
        PROVE  a[k] = c[k]
    <3>1. m - k + 1 \in 1 .. m /\ n - m + (m - k + 1) = n - k + 1
      OBVIOUS
    <3>. QED
      BY <2>1, <2>3, <2>5, <3>1
  <2>. QED
    BY <2>4, <2>5
<1>. QED
  BY <1>1, <1>2, <1>9, <1>11, <1>12

(* So for the right sides of the productions. *)
LEMMA Handles ==
  ASSUME stack \in Seq(Entries)
  PROVE  LET n == Len(stack)
         IN  /\ \A a \in Syms : Handle(<< a >>) <=> n >= 1 /\ At(n, a)
             /\ Handle(<< "LEFT_PAREN", "expression" >>) <=>
                  n >= 2 /\ At(n - 1, "LEFT_PAREN") /\ At(n, "expression")
             /\ Handle(<< "list", "COMMA", "expression" >>) <=>
                  n >= 3 /\ At(n - 2, "list") /\ At(n - 1, "COMMA") /\ At(n, "expression")
             /\ Handle(<< "IDENT", "LEFT_PAREN", "list", "RIGHT_PAREN" >>) <=>
                  /\ n >= 4 /\ At(n - 3, "IDENT") /\ At(n - 2, "LEFT_PAREN")
                  /\ At(n - 1, "list") /\ At(n, "RIGHT_PAREN")
<1>1. PICK n \in Nat : n = Len(stack)
  OBVIOUS
<1>2. ASSUME NEW a \in Syms
      PROVE  Handle(<< a >>) <=> n >= 1 /\ stack[n].sym = a
  <2>1. << a >> \in Seq(Syms) /\ Len(<< a >>) = 1 /\ << a >>[1] = a
    OBVIOUS
  <2>2. Handle(<< a >>) <=> 1 <= n /\ \A k \in 1 .. 1 : stack[n - 1 + k].sym = << a >>[k]
    BY <1>1, <2>1, HandleMeans
  <2>3. 1 .. 1 = {1} /\ n - 1 + 1 = n
    BY <1>1
  <2>. QED
    BY <2>1, <2>2, <2>3
<1>3. ASSUME NEW a \in Syms, NEW b \in Syms
      PROVE  Handle(<< a, b >>) <=> n >= 2 /\ stack[n - 1].sym = a /\ stack[n].sym = b
  <2> DEFINE s == << a, b >>
  <2>1. s \in Seq(Syms) /\ Len(s) = 2 /\ s[1] = a /\ s[2] = b
    OBVIOUS
  <2> HIDE DEF s
  <2>2. Handle(s) <=> 2 <= n /\ \A k \in 1 .. 2 : stack[n - 2 + k].sym = s[k]
    BY <1>1, <2>1, HandleMeans
  <2>3. 1 .. 2 = {1, 2} /\ n - 2 + 1 = n - 1 /\ n - 2 + 2 = n
    BY <1>1
  <2>4. Handle(s) <=> n >= 2 /\ stack[n - 1].sym = a /\ stack[n].sym = b
    BY <2>1, <2>2, <2>3
  <2>. QED
    BY <2>4 DEF s
<1>4. ASSUME NEW a \in Syms, NEW b \in Syms, NEW c \in Syms
      PROVE  Handle(<< a, b, c >>) <=>
               n >= 3 /\ stack[n - 2].sym = a /\ stack[n - 1].sym = b /\ stack[n].sym = c
  <2> DEFINE s == << a, b, c >>
  <2>1. s \in Seq(Syms) /\ Len(s) = 3 /\ s[1] = a /\ s[2] = b /\ s[3] = c
    OBVIOUS
  <2> HIDE DEF s
  <2>2. Handle(s) <=> 3 <= n /\ \A k \in 1 .. 3 : stack[n - 3 + k].sym = s[k]
    BY <1>1, <2>1, HandleMeans
  <2>3. 1 .. 3 = {1, 2, 3} /\ n - 3 + 1 = n - 2 /\ n - 3 + 2 = n - 1 /\ n - 3 + 3 = n
    BY <1>1
  <2>4. Handle(s) <=>
          n >= 3 /\ stack[n - 2].sym = a /\ stack[n - 1].sym = b /\ stack[n].sym = c
    BY <2>1, <2>2, <2>3
  <2>. QED
    BY <2>4 DEF s
<1>5. ASSUME NEW a \in Syms, NEW b \in Syms, NEW c \in Syms, NEW d \in Syms
      PROVE  Handle(<< a, b, c, d >>) <=>
               /\ n >= 4 /\ stack[n - 3].sym = a /\ stack[n - 2].sym = b
               /\ stack[n - 1].sym = c /\ stack[n].sym = d
  <2> DEFINE s == << a, b, c, d >>
  <2>1. s \in Seq(Syms) /\ Len(s) = 4 /\ s[1] = a /\ s[2] = b /\ s[3] = c /\ s[4] = d
    OBVIOUS
  <2> HIDE DEF s
  <2>2. Handle(s) <=> 4 <= n /\ \A k \in 1 .. 4 : stack[n - 4 + k].sym = s[k]
    BY <1>1, <2>1, HandleMeans
  <2>3. /\ 1 .. 4 = {1, 2, 3, 4}
        /\ n - 4 + 1 = n - 3 /\ n - 4 + 2 = n - 2 /\ n - 4 + 3 = n - 1 /\ n - 4 + 4 = n
    BY <1>1
  <2>4. Handle(s) <=>
          /\ n >= 4 /\ stack[n - 3].sym = a /\ stack[n - 2].sym = b
          /\ stack[n - 1].sym = c /\ stack[n].sym = d
    BY <2>1, <2>2, <2>3
  <2>. QED
    BY <2>4 DEF s
<1>6. /\ "IDENT" \in Syms /\ "LEFT_PAREN" \in Syms /\ "list" \in Syms /\ "RIGHT_PAREN" \in Syms
      /\ "COMMA" \in Syms /\ "expression" \in Syms
  BY DEF Syms
<1>7. Handle(<< "LEFT_PAREN", "expression" >>) <=>
        n >= 2 /\ stack[n - 1].sym = "LEFT_PAREN" /\ stack[n].sym = "expression"
  BY <1>3, <1>6
<1>8. Handle(<< "list", "COMMA", "expression" >>) <=>
        /\ n >= 3 /\ stack[n - 2].sym = "list" /\ stack[n - 1].sym = "COMMA"
        /\ stack[n].sym = "expression"
  BY <1>4, <1>6
<1>9. Handle(<< "IDENT", "LEFT_PAREN", "list", "RIGHT_PAREN" >>) <=>
        /\ n >= 4 /\ stack[n - 3].sym = "IDENT" /\ stack[n - 2].sym = "LEFT_PAREN"
        /\ stack[n - 1].sym = "list" /\ stack[n].sym = "RIGHT_PAREN"
  BY <1>5, <1>6
<1>. QED
  BY <1>1, <1>2, <1>7, <1>8, <1>9 DEF At

-----------------------------------------------------------------------------
(* What the parser's steps do: they allocate behind what there is, and put *)
(* an entry in the place of some of the topmost ones.                      *)
Allocates(n) ==
  /\ heap' \in Seq(Nodes) /\ Len(heap') = Len(heap) + n
  /\ \A p \in 1 .. Len(heap) : heap'[p] = heap[p]

(* An entry with that symbol and value in the place of the n topmost ones. *)
Pushes(n, sym, val) ==
  /\ n <= Len(stack)
  /\ stack' \in Seq(Entries) /\ Len(stack') = Len(stack) - n + 1
  /\ \A k \in 1 .. Len(stack) - n : stack'[k] = stack[k]
  /\ stack'[Len(stack) - n + 1] = Symbol(sym, val)

(* A name or a string is copied and shifted. *)
ShiftsName ==
  /\ Shiftable /\ text[read + 1].type \in {"IDENT", "STRING"}
  /\ Allocates(1) /\ heap'[NewPtr] = Name(text[read + 1].str)
  /\ Pushes(0, text[read + 1].type, NewPtr)

(* A parenthesis or a comma is shifted. *)
ShiftsMark ==
  /\ Shiftable /\ text[read + 1].type \in {"LEFT_PAREN", "RIGHT_PAREN", "COMMA"}
  /\ UNCHANGED heap /\ Pushes(0, text[read + 1].type, 0)

(* A name or a string becomes an expression. *)
MakesString ==
  /\ (At(Len(stack), "IDENT") /\ Ahead # "LEFT_PAREN") \/ At(Len(stack), "STRING")
  /\ Allocates(1) /\ heap'[NewPtr] = Exp("STRING", Top.val)
  /\ Pushes(1, "expression", NewPtr)

(* A name becomes the expression of the field it stands for. *)
MakesField ==
  /\ At(Len(stack), "IDENT") /\ Ahead # "LEFT_PAREN" /\ heap[Top.val].str \in DOMAIN FieldOf
  /\ Allocates(2) /\ heap'[NewPtr] = Exp("P13N", NewPtr + 1)
  /\ heap'[NewPtr + 1] = P13n(Top.val, FieldOf[heap[Top.val].str])
  /\ Pushes(1, "expression", NewPtr)

(* A call becomes an expression. *)
MakesFunc ==
  /\ At(Len(stack), "func")
  /\ Allocates(1) /\ heap'[NewPtr] = Exp("FUNC", Top.val)
  /\ Pushes(1, "expression", NewPtr)

(* An expression becomes a list of one argument. *)
MakesFirst ==
  /\ Len(stack) >= 2 /\ At(Len(stack) - 1, "LEFT_PAREN") /\ At(Len(stack), "expression")
  /\ Allocates(1) /\ heap'[NewPtr] = Arg(Top.val)
  /\ Pushes(1, "list", << NewPtr >>)

(* An expression is put behind the arguments of a list. *)
MakesNext ==
  /\ At(Len(stack) - 2, "list") /\ At(Len(stack) - 1, "COMMA") /\ At(Len(stack), "expression")
  /\ Allocates(1) /\ heap'[NewPtr] = Arg(Top.val)
  /\ Pushes(3, "list", Append(Below(2), NewPtr))

(* A name the library knows and a list become a call. *)
MakesCall ==
  /\ At(Len(stack) - 3, "IDENT") /\ At(Len(stack) - 2, "LEFT_PAREN")
  /\ At(Len(stack) - 1, "list") /\ At(Len(stack), "RIGHT_PAREN")
  /\ heap[Below(3)].str \in Transforms
  /\ Allocates(1) /\ heap'[NewPtr] = Func(Below(3), Below(1))
  /\ Pushes(4, "func", NewPtr)

(* calloc puts one node behind the others. *)
LEMMA OneIsAllocated ==
  ASSUME heap \in Seq(Nodes), NEW node \in Nodes, heap' = Calloc(node)
  PROVE  Allocates(1) /\ heap'[NewPtr] = node
  BY DEF Allocates, Calloc, NewPtr

(* A reduction pops some entries for one. *)
LEMMA OneIsPushed ==
  ASSUME stack \in Seq(Entries), NEW sym \in Syms, NEW val \in Nat \cup Seq(Nat),
         NEW n \in Nat, n <= Len(stack), stack' = Append(Popped(n), Symbol(sym, val))
  PROVE  Pushes(n, sym, val)
<1>1. PICK e : e = Symbol(sym, val)
  OBVIOUS
<1>2. e \in Entries
  BY <1>1 DEF Symbol, Entries
<1>3. PICK s : s = Popped(n)
  OBVIOUS
<1>4. PICK len \in Nat : len = Len(stack)
  OBVIOUS
<1>5. s \in Seq(Entries) /\ Len(s) = len - n /\ \A k \in 1 .. len - n : s[k] = stack[k]
  BY <1>3, <1>4 DEF Popped
<1>6. PICK s2 : s2 = Append(s, e)
  OBVIOUS
<1>7. /\ s2 \in Seq(Entries) /\ Len(s2) = len - n + 1 /\ s2[len - n + 1] = e
      /\ \A k \in 1 .. len - n : s2[k] = s[k]
  <2>1. len - n \in Nat
    BY <1>4
  <2>. QED
    BY <1>2, <1>5, <1>6, <2>1
<1>. QED
  BY <1>1, <1>3, <1>4, <1>5, <1>6, <1>7 DEF Pushes

(* The lexer's token is shifted, with a copy of it if it is a name or a    *)
(* string.                                                                 *)
LEMMA ShiftDoes ==
  ASSUME HeapOK, StackOK, TextOK, Shift
  PROVE  /\ read < Len(text) /\ read' = read + 1
         /\ ShiftsName \/ ShiftsMark
<1>1. PICK token : token = text[read + 1]
  OBVIOUS
<1>2. read < Len(text) /\ token \in Tokens
  <2>1. Ahead # "$end"
    BY DEF Shift, Shiftable
  <2>. QED
    BY <1>1, <2>1 DEF Ahead, TextOK
<1>3. heap \in Seq(Nodes) /\ Len(heap) \in Nat /\ stack \in Seq(Entries) /\ Len(stack) \in Nat
  BY LenProperties DEF HeapOK, StackOK
<1>4. CASE token.type \in {"IDENT", "STRING"}
  <2>1. token.str \in Seq(Nat)
    BY <1>2, <1>4 DEF Tokens, Token
  <2>2. heap' = Calloc(Name(token.str)) /\ stack' = Append(stack, Symbol(token.type, NewPtr))
    BY <1>1, <1>4 DEF Shift
  <2>3. Name(token.str) \in Nodes
    BY <2>1 DEF Name, Nodes
  <2>4. Popped(0) = stack
    BY <1>3 DEF Popped
  <2>5. NewPtr \in Nat /\ token.type \in Syms
    BY <1>3, <1>4 DEF NewPtr, Syms
  <2>6. Pushes(0, token.type, NewPtr)
    BY <1>3, <2>2, <2>4, <2>5, OneIsPushed
  <2>7. Allocates(1) /\ heap'[NewPtr] = Name(token.str)
    BY <1>3, <2>2, <2>3, OneIsAllocated
  <2>. QED
    BY <1>1, <1>2, <1>4, <2>6, <2>7 DEF ShiftsName, Shift, TextOK
<1>5. CASE token.type \notin {"IDENT", "STRING"}
  <2>1. token.type \in {"LEFT_PAREN", "RIGHT_PAREN", "COMMA"}
    BY <1>2, <1>5 DEF Tokens, Token
  <2>2. UNCHANGED heap /\ stack' = Append(stack, Symbol(token.type, 0))
    BY <1>1, <1>5 DEF Shift
  <2>3. Popped(0) = stack
    BY <1>3 DEF Popped
  <2>4. token.type \in Syms
    BY <2>1 DEF Syms
  <2>5. Pushes(0, token.type, 0)
    <3>1. stack' = Append(Popped(0), Symbol(token.type, 0)) /\ 0 <= Len(stack)
      BY <1>3, <2>2, <2>3
    <3>2. 0 \in Nat /\ 0 \in Nat \cup Seq(Nat)
      OBVIOUS
    <3>. QED
      BY <1>3, <2>4, <3>1, <3>2, OneIsPushed
  <2>. QED
    BY <1>1, <1>2, <2>1, <2>2, <2>5 DEF ShiftsMark, Shift, TextOK
<1>. QED
  BY <1>4, <1>5

(* The topmost entry, and those below it. *)
LEMMA TopIs ==
  ASSUME StackOK, stack # << >>
  PROVE  /\ Len(stack) \in Nat \ {0} /\ Len(stack) \in DOMAIN stack
         /\ Top = stack[Len(stack)] /\ EntryOK(Len(stack))
<1>1. Len(stack) \in Nat \ {0} /\ DOMAIN stack = 1 .. Len(stack)
  BY LenProperties, EmptySeq DEF StackOK
<1>. QED
  BY <1>1 DEF StackOK, Top, Last

(* A name is made a string or a field. *)
LEMMA ReduceIdentDoes ==
  ASSUME HeapOK, StackOK, ReduceIdent
  PROVE  UNCHANGED read /\ (MakesString \/ MakesField)
<1>1. stack \in Seq(Entries) /\ heap \in Seq(Nodes)
  BY DEF StackOK, HeapOK
<1>2. Len(stack) >= 1 /\ At(Len(stack), "IDENT")
  BY <1>1, Handles DEF ReduceIdent, At, Syms
<1>3. stack # << >>
  BY <1>2
<1>4. Is(Top.val, "str") /\ Top = stack[Len(stack)]
  BY <1>2, <1>3, TopIs DEF EntryOK, At
<1>5. NewPtr \in Nat /\ Top.val \in Nat
  BY <1>1, <1>4 DEF NewPtr, Is
<1>6. UNCHANGED read /\ Ahead # "LEFT_PAREN" /\ stack' = Append(Popped(1), Symbol("expression", NewPtr))
  BY DEF ReduceIdent, Reduce
<1>7. Pushes(1, "expression", NewPtr)
  BY <1>1, <1>2, <1>5, <1>6, OneIsPushed DEF Syms
<1>8. PICK str : str = heap[Top.val].str
  OBVIOUS
<1>9. CASE str \in DOMAIN FieldOf
  <2> DEFINE node == Exp("P13N", NewPtr + 1)
             field == P13n(Top.val, FieldOf[str])
  <2>1. heap' = Calloc(node) \o << field >>
    BY <1>8, <1>9 DEF ReduceIdent
  <2>2. node \in Nodes /\ field \in Nodes
    <3>1. FieldOf[str] \in Range(FieldOf)
      BY <1>9 DEF Range
    <3>. QED
      BY <1>5, <3>1 DEF Nodes, Exp, P13n
  <2> HIDE DEF node, field
  <2>3. heap' \in Seq(Nodes) /\ Len(heap') = Len(heap) + 2
    BY <1>1, <2>1, <2>2 DEF Calloc
  <2>4. /\ \A p \in 1 .. Len(heap) : heap'[p] = heap[p]
        /\ heap'[Len(heap) + 1] = node /\ heap'[Len(heap) + 2] = field
    BY <1>1, <2>1, <2>2 DEF Calloc
  <2>5. NewPtr = Len(heap) + 1 /\ NewPtr + 1 = Len(heap) + 2
    BY <1>1 DEF NewPtr
  <2>6. MakesField
    BY <1>2, <1>6, <1>7, <1>8, <1>9, <2>3, <2>4, <2>5 DEF MakesField, Allocates, node, field
  <2>. QED
    BY <1>6, <2>6
<1>10. CASE str \notin DOMAIN FieldOf
  <2>1. heap' = Calloc(Exp("STRING", Top.val)) /\ Exp("STRING", Top.val) \in Nodes
    BY <1>5, <1>8, <1>10 DEF ReduceIdent, Exp, Nodes
  <2>. QED
    BY <1>1, <1>2, <1>6, <1>7, <2>1, OneIsAllocated DEF MakesString
<1>. QED
  BY <1>9, <1>10

(* A string is made an expression. *)
LEMMA ReduceStringDoes ==
  ASSUME HeapOK, StackOK, ReduceString
  PROVE  UNCHANGED read /\ MakesString
<1>1. stack \in Seq(Entries) /\ heap \in Seq(Nodes)
  BY DEF StackOK, HeapOK
<1>2. Len(stack) >= 1 /\ At(Len(stack), "STRING")
  BY <1>1, Handles DEF ReduceString, At, Syms
<1>3. stack # << >>
  BY <1>2
<1>4. Is(Top.val, "str")
  BY <1>2, <1>3, TopIs DEF EntryOK, At
<1>5. NewPtr \in Nat /\ Top.val \in Nat
  BY <1>1, <1>4 DEF NewPtr, Is
<1>6. UNCHANGED read /\ stack' = Append(Popped(1), Symbol("expression", NewPtr))
  BY DEF ReduceString, Reduce
<1>7. Pushes(1, "expression", NewPtr)
  BY <1>1, <1>2, <1>5, <1>6, OneIsPushed DEF Syms
<1>8. heap' = Calloc(Exp("STRING", Top.val)) /\ Exp("STRING", Top.val) \in Nodes
  BY <1>5 DEF ReduceString, Exp, Nodes
<1>. QED
  BY <1>1, <1>2, <1>6, <1>7, <1>8, OneIsAllocated DEF MakesString

(* A call is made an expression. *)
LEMMA ReduceFuncDoes ==
  ASSUME HeapOK, StackOK, ReduceFunc
  PROVE  UNCHANGED read /\ MakesFunc
<1>1. stack \in Seq(Entries) /\ heap \in Seq(Nodes)
  BY DEF StackOK, HeapOK
<1>2. Len(stack) >= 1 /\ At(Len(stack), "func")
  BY <1>1, Handles DEF ReduceFunc, At, Syms
<1>3. stack # << >>
  BY <1>2
<1>4. Is(Top.val, "func")
  BY <1>2, <1>3, TopIs DEF EntryOK, At
<1>5. NewPtr \in Nat /\ Top.val \in Nat
  BY <1>1, <1>4 DEF NewPtr, Is
<1>6. UNCHANGED read /\ stack' = Append(Popped(1), Symbol("expression", NewPtr))
  BY DEF ReduceFunc, Reduce
<1>7. Pushes(1, "expression", NewPtr)
  BY <1>1, <1>2, <1>5, <1>6, OneIsPushed DEF Syms
<1>8. heap' = Calloc(Exp("FUNC", Top.val)) /\ Exp("FUNC", Top.val) \in Nodes
  BY <1>5 DEF ReduceFunc, Exp, Nodes
<1>. QED
  BY <1>1, <1>2, <1>6, <1>7, <1>8, OneIsAllocated DEF MakesFunc

(* An expression behind a parenthesis is made a list. *)
LEMMA ReduceFirstDoes ==
  ASSUME HeapOK, StackOK, ReduceFirst
  PROVE  UNCHANGED read /\ MakesFirst
<1>1. stack \in Seq(Entries) /\ heap \in Seq(Nodes)
  BY DEF StackOK, HeapOK
<1>2. Len(stack) >= 2 /\ At(Len(stack) - 1, "LEFT_PAREN") /\ At(Len(stack), "expression")
  BY <1>1, Handles DEF ReduceFirst, At, Syms
<1>3. stack # << >>
  BY <1>2
<1>4. Is(Top.val, "exp")
  BY <1>2, <1>3, TopIs DEF EntryOK, At
<1>5. NewPtr \in Nat /\ Top.val \in Nat /\ << NewPtr >> \in Seq(Nat)
  BY <1>1, <1>4 DEF NewPtr, Is
<1>6. UNCHANGED read /\ stack' = Append(Popped(1), Symbol("list", << NewPtr >>))
  BY DEF ReduceFirst, Reduce
<1>7. Pushes(1, "list", << NewPtr >>)
  <2>1. 1 <= Len(stack) /\ "list" \in Syms
    BY <1>2 DEF Syms
  <2>. QED
    BY <1>1, <1>5, <1>6, <2>1, OneIsPushed
<1>8. heap' = Calloc(Arg(Top.val)) /\ Arg(Top.val) \in Nodes
  BY <1>5 DEF ReduceFirst, Arg, Nodes
<1>. QED
  BY <1>1, <1>2, <1>6, <1>7, <1>8, OneIsAllocated DEF MakesFirst

(* An expression behind a comma is put in the list before it. *)
LEMMA ReduceNextDoes ==
  ASSUME HeapOK, StackOK, ReduceNext
  PROVE  UNCHANGED read /\ MakesNext
<1>1. stack \in Seq(Entries) /\ heap \in Seq(Nodes)
  BY DEF StackOK, HeapOK
<1>2. /\ Len(stack) >= 3 /\ At(Len(stack) - 2, "list") /\ At(Len(stack) - 1, "COMMA")
      /\ At(Len(stack), "expression")
  BY <1>1, Handles DEF ReduceNext, At, Syms
<1>3. stack # << >> /\ Len(stack) - 2 \in DOMAIN stack
  BY <1>1, <1>2
<1>4. Is(Top.val, "exp")
  BY <1>2, <1>3, TopIs DEF EntryOK, At
<1>5. NewPtr \in Nat /\ Top.val \in Nat
  BY <1>1, <1>4 DEF NewPtr, Is
<1>6. Below(2) \in Seq(Nat)
  BY <1>2, <1>3 DEF StackOK, EntryOK, At, Below
<1>7. Append(Below(2), NewPtr) \in Seq(Nat)
  BY <1>5, <1>6
<1>8. UNCHANGED read /\ stack' = Append(Popped(3), Symbol("list", Append(Below(2), NewPtr)))
  BY DEF ReduceNext, Reduce, Appended
<1>9. Pushes(3, "list", Append(Below(2), NewPtr))
  <2>1. 3 <= Len(stack) /\ "list" \in Syms
    BY <1>2 DEF Syms
  <2>. QED
    BY <1>1, <1>7, <1>8, <2>1, OneIsPushed
<1>10. heap' = Calloc(Arg(Top.val)) /\ Arg(Top.val) \in Nodes
  BY <1>5 DEF ReduceNext, Arg, Nodes
<1>. QED
  BY <1>1, <1>2, <1>8, <1>9, <1>10, OneIsAllocated DEF MakesNext

(* What is between a name and a right parenthesis is made a call. *)
LEMMA ReduceCallDoes ==
  ASSUME HeapOK, StackOK, ReduceCall
  PROVE  UNCHANGED read /\ MakesCall
<1>1. stack \in Seq(Entries) /\ heap \in Seq(Nodes)
  BY DEF StackOK, HeapOK
<1>2. /\ Len(stack) >= 4 /\ At(Len(stack) - 3, "IDENT") /\ At(Len(stack) - 2, "LEFT_PAREN")
      /\ At(Len(stack) - 1, "list") /\ At(Len(stack), "RIGHT_PAREN")
  BY <1>1, Handles DEF ReduceCall, At, Syms
<1>3. Len(stack) - 3 \in DOMAIN stack /\ Len(stack) - 1 \in DOMAIN stack
  BY <1>1, <1>2
<1>4. Is(Below(3), "str") /\ Below(1) \in Seq(Nat)
  BY <1>2, <1>3 DEF StackOK, EntryOK, At, Below
<1>5. NewPtr \in Nat /\ Below(3) \in Nat
  BY <1>1, <1>4 DEF NewPtr, Is
<1>6. UNCHANGED read /\ stack' = Append(Popped(4), Symbol("func", NewPtr))
  BY DEF ReduceCall, Reduce
<1>7. Pushes(4, "func", NewPtr)
  <2>1. 4 <= Len(stack) /\ "func" \in Syms
    BY <1>2 DEF Syms
  <2>. QED
    BY <1>1, <1>5, <1>6, <2>1, OneIsPushed
<1>8. heap' = Calloc(Func(Below(3), Below(1))) /\ Func(Below(3), Below(1)) \in Nodes
  BY <1>4, <1>5 DEF ReduceCall, Func, Nodes
<1>. QED
  BY <1>1, <1>2, <1>6, <1>7, <1>8, OneIsAllocated DEF MakesCall, ReduceCall, Known

-----------------------------------------------------------------------------
(* Nodes that are there stay as they are when others are allocated. *)
LEMMA NodesStay ==
  ASSUME HeapOK, NEW n \in Nat, Allocates(n)
  PROVE  /\ Len(heap) \in Nat /\ DOMAIN heap = 1 .. Len(heap)
         /\ Len(heap') = Len(heap) + n /\ DOMAIN heap' = 1 .. Len(heap) + n
         /\ \A p \in DOMAIN heap : heap'[p] = heap[p] /\ NodeOK(p)'
         /\ \A p, kind : Is(p, kind) => Is(p, kind)'
<1>1. /\ Len(heap) \in Nat /\ DOMAIN heap = 1 .. Len(heap)
      /\ Len(heap') = Len(heap) + n /\ DOMAIN heap' = 1 .. Len(heap) + n
  BY LenProperties DEF HeapOK, Allocates
<1>2. \A p \in DOMAIN heap : p \in DOMAIN heap' /\ heap'[p] = heap[p]
  BY <1>1 DEF Allocates
<1>3. \A p, kind : Is(p, kind) => Is(p, kind)'
  BY <1>2 DEF Is
<1>4. ASSUME NEW p \in DOMAIN heap PROVE NodeOK(p)'
  <2>1. NodeOK(p) /\ heap'[p] = heap[p]
    BY <1>2 DEF HeapOK
  <2>. QED
    BY <1>3, <2>1 DEF NodeOK
<1>. QED
  BY <1>1, <1>2, <1>3, <1>4

(* So do the entries of the stack. *)
LEMMA EntriesStay ==
  ASSUME HeapOK, StackOK, NEW n \in Nat, Allocates(n) \/ UNCHANGED heap,
         NEW m \in Nat, NEW sym, NEW val, Pushes(m, sym, val)
  PROVE  /\ Len(stack) \in Nat /\ DOMAIN stack = 1 .. Len(stack)
         /\ DOMAIN stack' = 1 .. Len(stack) - m + 1
         /\ \A k \in 1 .. Len(stack) - m : stack'[k] = stack[k] /\ EntryOK(k)'
         /\ stack'[Len(stack) - m + 1] = Symbol(sym, val)
<1>1. /\ Len(stack) \in Nat /\ DOMAIN stack = 1 .. Len(stack)
      /\ DOMAIN stack' = 1 .. Len(stack) - m + 1
  BY LenProperties DEF StackOK, Pushes
<1>2. \A p, kind : Is(p, kind) => Is(p, kind)'
  BY NodesStay DEF Is
<1>3. ASSUME NEW k \in 1 .. Len(stack) - m PROVE stack'[k] = stack[k] /\ EntryOK(k)'
  <2>1. k \in 1 .. Len(stack) /\ stack'[k] = stack[k]
    BY <1>1 DEF Pushes
  <2>2. EntryOK(k)
    BY <1>1, <2>1 DEF StackOK
  <2>. QED
    BY <1>2, <2>1, <2>2 DEF EntryOK
<1>. QED
  BY <1>1, <1>3 DEF Pushes

(* The types hold if the new entry and the new nodes have theirs. *)
LEMMA TypesStay ==
  ASSUME HeapOK, StackOK, NEW n \in Nat, Allocates(n),
         NEW m \in Nat, NEW sym, NEW val, Pushes(m, sym, val),
         \A p \in Len(heap) + 1 .. Len(heap) + n : NodeOK(p)',
         NEW top, top = Len(stack) - m + 1, EntryOK(top)'
  PROVE  HeapOK' /\ StackOK'
<1>1. HeapOK'
  <2>1. \A p \in DOMAIN heap' : p \in DOMAIN heap \/ p \in Len(heap) + 1 .. Len(heap) + n
    BY NodesStay
  <2>2. \A p \in DOMAIN heap' : NodeOK(p)'
    BY <2>1, NodesStay
  <2>. QED
    BY <2>2 DEF HeapOK, Allocates
<1>2. StackOK'
  <2>1. \A k \in 1 .. Len(stack) - m : EntryOK(k)'
    BY EntriesStay
  <2>2. /\ DOMAIN stack' = 1 .. Len(stack) - m + 1 /\ Len(stack) \in Nat /\ m <= Len(stack)
    BY EntriesStay DEF Pushes
  <2>3. \A k \in DOMAIN stack' : k \in 1 .. Len(stack) - m \/ k = top
    BY <2>2
  <2>4. \A k \in DOMAIN stack' : EntryOK(k)'
    BY <2>1, <2>3
  <2>. QED
    BY <2>4 DEF StackOK, Pushes
<1>. QED
  BY <1>1, <1>2

(* Of an entry below the top, by its symbol. *)
LEMMA BelowIs ==
  ASSUME StackOK, NEW n \in Nat, n < Len(stack)
  PROVE  /\ Len(stack) - n \in DOMAIN stack /\ EntryOK(Len(stack) - n)
         /\ Below(n) = stack[Len(stack) - n].val
         /\ n = 0 => Top = stack[Len(stack)]
<1>1. DOMAIN stack = 1 .. Len(stack) /\ Len(stack) \in Nat
  BY LenProperties DEF StackOK
<1>. QED
  BY <1>1 DEF StackOK, Below, Top, Last

(* The pointer that is next. *)
LEMMA NewPtrIs ==
  ASSUME HeapOK
  PROVE  /\ Len(heap) \in Nat /\ NewPtr = Len(heap) + 1 /\ NewPtr \in Nat \ {0}
         /\ \A p, kind : Is(p, kind) => p \in Nat /\ p < NewPtr
         /\ \A n \in Nat : Allocates(n) => \A p \in 1 .. n : Len(heap) + p \in DOMAIN heap'
  BY LenProperties, NodesStay DEF HeapOK, NewPtr, Is

(* Each step of the parser keeps the types. *)
LEMMA ShiftsNameTypes ==
  ASSUME HeapOK, StackOK, ShiftsName
  PROVE  HeapOK' /\ StackOK'
<1>1. PICK new : new = NewPtr
  OBVIOUS
<1>2. /\ Allocates(1) /\ heap'[new] = Name(text[read + 1].str)
      /\ Pushes(0, text[read + 1].type, new) /\ text[read + 1].type \in {"IDENT", "STRING"}
  BY <1>1 DEF ShiftsName
<1>3. new = Len(heap) + 1 /\ new \in Nat /\ new \in DOMAIN heap'
  BY <1>1, <1>2, NewPtrIs
<1>4. NodeOK(new)' /\ Is(new, "str")'
  BY <1>2, <1>3 DEF NodeOK, Is, Name
<1>5. PICK top : top = Len(stack) + 1
  OBVIOUS
<1>6. stack'[top] = Symbol(text[read + 1].type, new) /\ top = Len(stack) - 0 + 1
  BY <1>2, <1>5, LenProperties DEF Pushes, StackOK
<1>7. EntryOK(top)'
  BY <1>2, <1>4, <1>6 DEF EntryOK, Symbol
<1>8. \A p \in Len(heap) + 1 .. Len(heap) + 1 : NodeOK(p)'
  BY <1>3, <1>4
<1>. QED
  BY <1>2, <1>6, <1>7, <1>8, TypesStay

(* A shifted parenthesis or comma keeps the types, *)
LEMMA ShiftsMarkTypes ==
  ASSUME HeapOK, StackOK, ShiftsMark
  PROVE  HeapOK' /\ StackOK'
<1>1. PICK sym : sym = text[read + 1].type
  OBVIOUS
<1>2. UNCHANGED heap /\ Pushes(0, sym, 0) /\ sym \in {"LEFT_PAREN", "RIGHT_PAREN", "COMMA"}
  BY <1>1 DEF ShiftsMark
<1>3. HeapOK' /\ \A p, kind : Is(p, kind)' <=> Is(p, kind)
  BY <1>2 DEF HeapOK, NodeOK, Is
<1>4. PICK n \in Nat : n = Len(stack)
  BY LenProperties DEF StackOK
<1>5. /\ DOMAIN stack' = 1 .. n + 1 /\ stack'[n + 1] = Symbol(sym, 0)
      /\ \A k \in 1 .. n : EntryOK(k)'
  <2>1. 0 \in Nat /\ n - 0 + 1 = n + 1 /\ 1 .. n - 0 = 1 .. n
    OBVIOUS
  <2>2. /\ DOMAIN stack' = 1 .. n - 0 + 1 /\ stack'[n - 0 + 1] = Symbol(sym, 0)
        /\ \A k \in 1 .. n - 0 : EntryOK(k)'
    BY <1>2, <1>4, <2>1, EntriesStay
  <2>. QED
    BY <2>1, <2>2
<1>6. EntryOK(n + 1)'
  BY <1>2, <1>5 DEF EntryOK, Symbol
<1>. QED
  BY <1>2, <1>3, <1>4, <1>5, <1>6 DEF StackOK, Pushes

(* so does a string that is made an expression, *)
LEMMA MakesStringTypes ==
  ASSUME HeapOK, StackOK, MakesString
  PROVE  HeapOK' /\ StackOK'
<1>1. PICK new : new = NewPtr
  OBVIOUS
<1>2. PICK n : n = Len(stack)
  OBVIOUS
<1>3. PICK v : v = Top.val
  OBVIOUS
<1>4. /\ Allocates(1) /\ heap'[new] = Exp("STRING", v) /\ Pushes(1, "expression", new)
      /\ At(n, "IDENT") \/ At(n, "STRING")
  BY <1>1, <1>2, <1>3 DEF MakesString
<1>5. n \in Nat /\ 1 <= n
  BY <1>2, <1>4, LenProperties DEF StackOK, Pushes
<1>6. Is(v, "str") /\ v < new
  <2>1. Is(v, "str")
    BY <1>2, <1>3, <1>4, <1>5, BelowIs DEF EntryOK, At
  <2>. QED
    BY <1>1, <2>1, NewPtrIs
<1>7. new = Len(heap) + 1 /\ new \in DOMAIN heap' /\ Is(v, "str")'
  BY <1>1, <1>4, <1>6, NewPtrIs, NodesStay
<1>8. NodeOK(new)' /\ Is(new, "exp")'
  BY <1>4, <1>6, <1>7 DEF NodeOK, Is, Exp
<1>9. PICK top : top = Len(stack) - 1 + 1
  OBVIOUS
<1>10. EntryOK(top)'
  BY <1>4, <1>8, <1>9 DEF EntryOK, Symbol, Pushes
<1>11. \A p \in Len(heap) + 1 .. Len(heap) + 1 : NodeOK(p)'
  BY <1>1, <1>7, <1>8, NewPtrIs
<1>. QED
  BY <1>4, <1>9, <1>10, <1>11, TypesStay

(* a call that is, *)
LEMMA MakesFuncTypes ==
  ASSUME HeapOK, StackOK, MakesFunc
  PROVE  HeapOK' /\ StackOK'
<1>1. PICK new : new = NewPtr
  OBVIOUS
<1>2. PICK n : n = Len(stack)
  OBVIOUS
<1>3. PICK v : v = Top.val
  OBVIOUS
<1>4. /\ Allocates(1) /\ heap'[new] = Exp("FUNC", v) /\ Pushes(1, "expression", new)
      /\ At(n, "func")
  BY <1>1, <1>2, <1>3 DEF MakesFunc
<1>5. n \in Nat /\ 1 <= n
  BY <1>2, <1>4, LenProperties DEF StackOK, Pushes
<1>6. Is(v, "func") /\ v < new
  <2>1. Is(v, "func")
    BY <1>2, <1>3, <1>4, <1>5, BelowIs DEF EntryOK, At
  <2>. QED
    BY <1>1, <2>1, NewPtrIs
<1>7. new = Len(heap) + 1 /\ new \in DOMAIN heap' /\ Is(v, "func")'
  BY <1>1, <1>4, <1>6, NewPtrIs, NodesStay
<1>8. NodeOK(new)' /\ Is(new, "exp")'
  BY <1>4, <1>6, <1>7 DEF NodeOK, Is, Exp
<1>9. PICK top : top = Len(stack) - 1 + 1
  OBVIOUS
<1>10. EntryOK(top)'
  BY <1>4, <1>8, <1>9 DEF EntryOK, Symbol, Pushes
<1>11. \A p \in Len(heap) + 1 .. Len(heap) + 1 : NodeOK(p)'
  BY <1>1, <1>7, <1>8, NewPtrIs
<1>. QED
  BY <1>4, <1>9, <1>10, <1>11, TypesStay

(* a name that is a field, *)
LEMMA MakesFieldTypes ==
  ASSUME HeapOK, StackOK, MakesField
  PROVE  HeapOK' /\ StackOK'
<1>1. PICK new : new = NewPtr
  OBVIOUS
<1>2. PICK n : n = Len(stack)
  OBVIOUS
<1>3. PICK v : v = Top.val
  OBVIOUS
<1>4. /\ Allocates(2) /\ heap'[new] = Exp("P13N", new + 1)
      /\ heap'[new + 1] = P13n(v, FieldOf[heap[v].str])
      /\ Pushes(1, "expression", new) /\ At(n, "IDENT")
  BY <1>1, <1>2, <1>3 DEF MakesField
<1>5. n \in Nat /\ 1 <= n
  BY <1>2, <1>4, LenProperties DEF StackOK, Pushes
<1>6. Is(v, "str") /\ v < new /\ new \in Nat
  <2>1. Is(v, "str")
    <3>1. EntryOK(n) /\ v = stack[n].val /\ stack[n].sym = "IDENT"
      BY <1>2, <1>3, <1>4, <1>5, BelowIs DEF At
    <3>. QED
      BY <3>1 DEF EntryOK
  <2>. QED
    BY <1>1, <2>1, NewPtrIs
<1>7. new = Len(heap) + 1 /\ new \in DOMAIN heap' /\ new + 1 \in DOMAIN heap' /\ Is(v, "str")'
  BY <1>1, <1>4, <1>6, NewPtrIs, NodesStay
<1>8. NodeOK(new)' /\ Is(new, "exp")' /\ NodeOK(new + 1)'
  <2>1. Is(new + 1, "p13n")' /\ Is(new, "exp")'
    BY <1>4, <1>7 DEF Is, P13n, Exp
  <2>2. NodeOK(new)'
    BY <1>4, <2>1 DEF NodeOK, Exp
  <2>3. PICK field : field = new + 1
    OBVIOUS
  <2>4. v < field - 1
    BY <1>6, <2>3
  <2>5. heap'[field].kind = "p13n" /\ heap'[field].name = v
    BY <1>4, <2>3 DEF P13n
  <2>6. NodeOK(field)'
    BY <1>7, <2>4, <2>5 DEF NodeOK
  <2>. QED
    BY <2>1, <2>2, <2>3, <2>6
<1>9. PICK top : top = Len(stack) - 1 + 1
  OBVIOUS
<1>10. EntryOK(top)'
  BY <1>4, <1>8, <1>9 DEF EntryOK, Symbol, Pushes
<1>11. \A p \in Len(heap) + 1 .. Len(heap) + 2 : NodeOK(p)'
  <2>1. \A p \in Len(heap) + 1 .. Len(heap) + 2 : p = new \/ p = new + 1
    BY <1>1, <1>7, NewPtrIs
  <2>. QED
    BY <1>8, <2>1
<1>. QED
  BY <1>4, <1>9, <1>10, <1>11, TypesStay

(* the first argument of a list, *)
LEMMA MakesFirstTypes ==
  ASSUME HeapOK, StackOK, MakesFirst
  PROVE  HeapOK' /\ StackOK'
<1>1. PICK new : new = NewPtr
  OBVIOUS
<1>2. PICK n : n = Len(stack)
  OBVIOUS
<1>3. PICK v : v = Top.val
  OBVIOUS
<1>4. /\ Allocates(1) /\ heap'[new] = Arg(v) /\ Pushes(1, "list", << new >>)
      /\ At(n, "expression")
  BY <1>1, <1>2, <1>3 DEF MakesFirst
<1>5. n \in Nat /\ 1 <= n
  BY <1>2, <1>4, LenProperties DEF StackOK, Pushes
<1>6. Is(v, "exp") /\ v < new /\ new \in Nat
  <2>1. Is(v, "exp")
    BY <1>2, <1>3, <1>4, <1>5, BelowIs DEF EntryOK, At
  <2>. QED
    BY <1>1, <2>1, NewPtrIs
<1>7. new = Len(heap) + 1 /\ new \in DOMAIN heap' /\ Is(v, "exp")'
  BY <1>1, <1>4, <1>6, NewPtrIs, NodesStay
<1>8. NodeOK(new)' /\ Is(new, "arg")'
  BY <1>4, <1>6, <1>7 DEF NodeOK, Is, Arg
<1>9. PICK top : top = Len(stack) - 1 + 1
  OBVIOUS
<1>10. EntryOK(top)'
  <2>1. stack'[top] = Symbol("list", << new >>)
    BY <1>4, <1>9 DEF Pushes
  <2>2. << new >> \in Seq(Nat) /\ \A m \in DOMAIN << new >> : << new >>[m] = new
    BY <1>6
  <2>3. stack'[top].sym = "list" /\ stack'[top].val = << new >>
    BY <2>1 DEF Symbol
  <2>. QED
    BY <1>8, <2>2, <2>3 DEF EntryOK
<1>11. \A p \in Len(heap) + 1 .. Len(heap) + 1 : NodeOK(p)'
  BY <1>1, <1>7, <1>8, NewPtrIs
<1>. QED
  BY <1>4, <1>9, <1>10, <1>11, TypesStay

(* the next one, *)
LEMMA MakesNextTypes ==
  ASSUME HeapOK, StackOK, MakesNext
  PROVE  HeapOK' /\ StackOK'
<1>1. PICK new : new = NewPtr
  OBVIOUS
<1>2. PICK n : n = Len(stack)
  OBVIOUS
<1>3. PICK v : v = Top.val
  OBVIOUS
<1>4. PICK args : args = Below(2)
  OBVIOUS
<1>5. /\ Allocates(1) /\ heap'[new] = Arg(v) /\ Pushes(3, "list", Append(args, new))
      /\ At(n, "expression") /\ At(n - 2, "list")
  BY <1>1, <1>2, <1>3, <1>4 DEF MakesNext
<1>6. n \in Nat /\ 3 <= n
  BY <1>2, <1>5, LenProperties DEF StackOK, Pushes
<1>7. Is(v, "exp") /\ v < new /\ new \in Nat
  <2>1. Is(v, "exp")
    BY <1>2, <1>3, <1>5, <1>6, BelowIs DEF EntryOK, At
  <2>. QED
    BY <1>1, <2>1, NewPtrIs
<1>8. args \in Seq(Nat) /\ \A m \in DOMAIN args : Is(args[m], "arg")
  <2>1. EntryOK(n - 2) /\ args = stack[n - 2].val
    BY <1>2, <1>4, <1>6, BelowIs
  <2>. QED
    BY <1>5, <2>1 DEF EntryOK, At
<1>9. new = Len(heap) + 1 /\ new \in DOMAIN heap' /\ Is(v, "exp")'
  BY <1>1, <1>5, <1>7, NewPtrIs, NodesStay
<1>10. NodeOK(new)' /\ Is(new, "arg")'
  BY <1>5, <1>7, <1>9 DEF NodeOK, Is, Arg
<1>11. PICK top : top = Len(stack) - 3 + 1
  OBVIOUS
<1>12. EntryOK(top)'
  <2>1. PICK more : more = Append(args, new)
    OBVIOUS
  <2>2. stack'[top].sym = "list" /\ stack'[top].val = more
    BY <1>5, <1>11, <2>1 DEF Pushes, Symbol
  <2>3. more \in Seq(Nat) /\ \A m \in DOMAIN more : (m \in DOMAIN args /\ more[m] = args[m]) \/ more[m] = new
    BY <1>7, <1>8, <2>1
  <2>4. \A m \in DOMAIN args : Is(args[m], "arg")'
    BY <1>5, <1>8, NodesStay
  <2>. QED
    BY <1>10, <2>2, <2>3, <2>4 DEF EntryOK
<1>13. \A p \in Len(heap) + 1 .. Len(heap) + 1 : NodeOK(p)'
  BY <1>1, <1>9, <1>10, NewPtrIs
<1>. QED
  BY <1>5, <1>11, <1>12, <1>13, TypesStay

(* and a list that is made a call. *)
LEMMA MakesCallTypes ==
  ASSUME HeapOK, StackOK, MakesCall
  PROVE  HeapOK' /\ StackOK'
<1>1. PICK new : new = NewPtr
  OBVIOUS
<1>2. PICK n : n = Len(stack)
  OBVIOUS
<1>3. PICK v : v = Below(3)
  OBVIOUS
<1>4. PICK args : args = Below(1)
  OBVIOUS
<1>5. /\ Allocates(1) /\ heap'[new] = Func(v, args) /\ Pushes(4, "func", new)
      /\ At(n - 3, "IDENT") /\ At(n - 1, "list")
  BY <1>1, <1>2, <1>3, <1>4 DEF MakesCall
<1>6. n \in Nat /\ 4 <= n
  BY <1>2, <1>5, LenProperties DEF StackOK, Pushes
<1>7. Is(v, "str") /\ v < new /\ new \in Nat
  <2>1. EntryOK(n - 3) /\ v = stack[n - 3].val
    BY <1>2, <1>3, <1>6, BelowIs
  <2>2. Is(v, "str")
    BY <1>5, <2>1 DEF EntryOK, At
  <2>. QED
    BY <1>1, <2>2, NewPtrIs
<1>8. args \in Seq(Nat) /\ \A m \in DOMAIN args : Is(args[m], "arg") /\ args[m] < new
  <2>1. EntryOK(n - 1) /\ args = stack[n - 1].val
    BY <1>2, <1>4, <1>6, BelowIs
  <2>2. args \in Seq(Nat) /\ \A m \in DOMAIN args : Is(args[m], "arg")
    BY <1>5, <2>1 DEF EntryOK, At
  <2>. QED
    BY <1>1, <2>2, NewPtrIs
<1>9. /\ new = Len(heap) + 1 /\ new \in DOMAIN heap' /\ Is(v, "str")'
      /\ \A m \in DOMAIN args : Is(args[m], "arg")'
  BY <1>1, <1>5, <1>7, <1>8, NewPtrIs, NodesStay
<1>10. NodeOK(new)' /\ Is(new, "func")'
  <2>1. heap'[new].kind = "func" /\ heap'[new].name = v /\ heap'[new].args = args
    BY <1>5 DEF Func
  <2>. QED
    BY <1>7, <1>8, <1>9, <2>1 DEF NodeOK, Is
<1>11. PICK top : top = Len(stack) - 4 + 1
  OBVIOUS
<1>12. EntryOK(top)'
  BY <1>5, <1>10, <1>11 DEF EntryOK, Symbol, Pushes
<1>13. \A p \in Len(heap) + 1 .. Len(heap) + 1 : NodeOK(p)'
  BY <1>1, <1>9, <1>10, NewPtrIs
<1>. QED
  BY <1>5, <1>11, <1>12, <1>13, TypesStay

-----------------------------------------------------------------------------
(* A step of the parser, and every other one. *)
Parses ==
  \/ (ShiftsName \/ ShiftsMark) /\ read < Len(text) /\ read' = read + 1
  \/ /\ \/ MakesString \/ MakesField \/ MakesFunc \/ MakesFirst \/ MakesNext \/ MakesCall
     /\ UNCHANGED read

(* Every step parses, ends the parsing, or leaves what was parsed alone. *)
LEMMA StepsAre ==
  ASSUME HeapOK, StackOK, TextOK, [Next]_vars
  PROVE  \/ pc = "parse" /\ Parses /\ UNCHANGED << pc, text, root, running >>
         \/ Accept
         \/ Error
         \/ pc # "parse" /\ pc' # "parse" /\ UNCHANGED << text, parsing >>
         \/ UNCHANGED vars
<1>1. CASE Shift
  BY <1>1, ShiftDoes DEF Shift, Parses
<1>2. CASE ReduceIdent
  BY <1>2, ReduceIdentDoes DEF ReduceIdent, Reduce, Parses
<1>3. CASE ReduceString
  BY <1>3, ReduceStringDoes DEF ReduceString, Reduce, Parses
<1>4. CASE ReduceFunc
  BY <1>4, ReduceFuncDoes DEF ReduceFunc, Reduce, Parses
<1>5. CASE ReduceFirst
  BY <1>5, ReduceFirstDoes DEF ReduceFirst, Reduce, Parses
<1>6. CASE ReduceNext
  BY <1>6, ReduceNextDoes DEF ReduceNext, Reduce, Parses
<1>7. CASE ReduceCall
  BY <1>7, ReduceCallDoes DEF ReduceCall, Reduce, Parses
<1>8. CASE ExecLeaf \/ ExecArg \/ ExecStore \/ ExecCall \/ ExecDone \/ Exec
  BY <1>8 DEF ExecLeaf, ExecArg, ExecStore, ExecCall, ExecDone, Exec, running
<1>9. CASE DestroyArg \/ FreeArg \/ FreeExp \/ Destroyed \/ Destroy
  BY <1>9 DEF DestroyArg, FreeArg, FreeExp, Destroyed, Destroy, running
<1>10. CASE Over \/ UNCHANGED vars
  BY <1>10 DEF Over
<1>. QED
  BY <1>1, <1>2, <1>3, <1>4, <1>5, <1>6, <1>7, <1>8, <1>9, <1>10 DEF Next, Step

(* The text, the stack and the heap keep their types. *)
TypesInv == TextOK /\ HeapOK /\ StackOK /\ (root # 0 => Is(root, "exp"))

(* Before anything is read nothing is on the stack or the heap. *)
LEMMA TypesInit == Init => TypesInv
<1> SUFFICES ASSUME Init PROVE TypesInv
  OBVIOUS
<1>1. text \in Seq(Tokens) /\ read = 0 /\ Len(text) \in Nat
  BY TransformAssumption, LenProperties DEF Init
<1>2. heap = << >> /\ stack = << >> /\ root = 0
  BY DEF Init
<1>. QED
  BY <1>1, <1>2 DEF TypesInv, TextOK, HeapOK, StackOK

(* Every step of the program keeps the types. *)
LEMMA TypesStep == TypesInv /\ [Next]_vars => TypesInv'
<1> SUFFICES ASSUME TypesInv, [Next]_vars PROVE TypesInv'
  OBVIOUS
<1>1. TextOK /\ HeapOK /\ StackOK /\ (root # 0 => Is(root, "exp"))
  BY DEF TypesInv
<1>2. CASE Parses /\ UNCHANGED << text, root >>
  <2>1. HeapOK' /\ StackOK'
    BY <1>1, <1>2, ShiftsNameTypes, ShiftsMarkTypes, MakesStringTypes, MakesFieldTypes,
       MakesFuncTypes, MakesFirstTypes, MakesNextTypes, MakesCallTypes DEF Parses
  <2>2. TextOK'
    BY <1>1, <1>2, LenProperties DEF TextOK, Parses
  <2>3. (\E n \in Nat : Allocates(n)) \/ UNCHANGED heap
    BY <1>2 DEF Parses, ShiftsName, ShiftsMark, MakesString, MakesField, MakesFunc,
                MakesFirst, MakesNext, MakesCall
  <2>4. \A p : Is(p, "exp") => Is(p, "exp")'
    BY <1>1, <2>3, NodesStay DEF Is
  <2>5. root' # 0 => Is(root, "exp")'
    BY <1>1, <1>2, <2>4 DEF Is
  <2>. QED
    BY <1>2, <2>1, <2>2, <2>5 DEF TypesInv
<1>3. CASE Accept
  <2>1. UNCHANGED << text, read, stack, heap >>
    BY <1>3 DEF Accept
  <2>2. TextOK' /\ HeapOK' /\ StackOK'
    BY <1>1, <2>1 DEF TextOK, HeapOK, StackOK, NodeOK, EntryOK, Is
  <2>3. root' = 0 \/ (Symbols = << "expression" >> /\ root' = Top.val)
    BY <1>3 DEF Accept
  <2>4. ASSUME Symbols = << "expression" >>, root' = Top.val PROVE Is(root', "exp")
    <3>1. DOMAIN stack = DOMAIN Symbols /\ Len(Symbols) = 1 /\ Symbols[1] = "expression"
      BY <2>4 DEF Symbols
    <3>2. Len(stack) = 1 /\ stack[1].sym = "expression"
      BY <1>1, <3>1, LenProperties DEF StackOK, Symbols
    <3>. QED
      BY <1>1, <2>4, <3>2, BelowIs DEF EntryOK
  <2>. QED
    BY <2>1, <2>2, <2>3, <2>4 DEF TypesInv, Is
<1>4. CASE UNCHANGED << text, parsing >>
  BY <1>1, <1>4 DEF TypesInv, parsing, TextOK, HeapOK, StackOK, NodeOK, EntryOK, Is
<1>5. Error \/ UNCHANGED vars => UNCHANGED << text, parsing >>
  BY DEF Error, vars, parsing
<1>. QED
  BY <1>1, <1>2, <1>3, <1>4, <1>5, StepsAre

-----------------------------------------------------------------------------
(* What an entry of the stack holds. *)
Held(k) ==
  IF stack[k].sym = "list" THEN Range(stack[k].val)
  ELSE IF stack[k].sym \in {"IDENT", "STRING", "expression", "func"} THEN {stack[k].val}
  ELSE {}

(* Whatever is allocated has one owner: a node that leads to it, or an     *)
(* entry of the stack, whose places count down from -1.                    *)
Owned(o) ==
  /\ \A q \in DOMAIN heap : \A p \in Pointers(q) : p \in DOMAIN heap /\ o[p] = q
  /\ \A k \in DOMAIN stack : \A p \in Held(k) : p \in DOMAIN heap /\ o[p] = -k
  /\ \A p \in DOMAIN heap :
       \/ o[p] \in DOMAIN heap /\ p \in Pointers(o[p])
       \/ \E k \in DOMAIN stack : o[p] = -k /\ p \in Held(k)

(* No argument is in a list twice. *)
Once ==
  /\ \A q \in DOMAIN heap : heap[q].kind = "func" => IsInjective(heap[q].args)
  /\ \A k \in DOMAIN stack : stack[k].sym = "list" => IsInjective(stack[k].val)

(* When the parser pushes an entry, what was popped and what is new gets   *)
(* an owner, f, among the entry and the new nodes.                         *)
LEMMA Reowned ==
  ASSUME HeapOK, StackOK, NEW o, Owned(o), NEW n \in Nat, Allocates(n),
         NEW m \in Nat, NEW sym, NEW val, Pushes(m, sym, val),
         NEW top, top = Len(stack) - m + 1, NEW f, NEW new, new = Len(heap) + 1 .. Len(heap) + n,
         \A k \in DOMAIN stack : k >= top => Held(k) \subseteq DOMAIN f,
         new \subseteq DOMAIN f,
         \A p \in DOMAIN f : p \in new \/ \E k \in DOMAIN stack : k >= top /\ p \in Held(k),
         \A p \in DOMAIN f : \/ f[p] = -top /\ p \in Held(top)'
                             \/ f[p] \in new /\ p \in Pointers(f[p])',
         \A p \in Held(top)' : p \in DOMAIN f /\ f[p] = -top,
         \A q \in new : \A p \in Pointers(q)' : p \in DOMAIN f /\ f[p] = q
  PROVE  \E w : Owned(w)'
<1>1. /\ Len(heap) \in Nat /\ DOMAIN heap = 1 .. Len(heap) /\ DOMAIN heap' = 1 .. Len(heap) + n
      /\ \A p \in DOMAIN heap : heap'[p] = heap[p]
  BY NodesStay
<1>2. /\ Len(stack) \in Nat /\ DOMAIN stack = 1 .. Len(stack) /\ m <= Len(stack)
      /\ DOMAIN stack' = 1 .. Len(stack) - m + 1
      /\ \A k \in 1 .. Len(stack) - m : stack'[k] = stack[k]
  BY EntriesStay DEF Pushes
<1>3. top \in Nat \ {0} /\ DOMAIN stack' = 1 .. top
  BY <1>2
<1>4. PICK w : w = [p \in DOMAIN heap' |-> IF p \in DOMAIN f THEN f[p] ELSE o[p]]
  OBVIOUS
<1>5. \A p \in DOMAIN heap' : p \in DOMAIN heap \/ p \in new
  BY <1>1
<1>6. ASSUME NEW q \in DOMAIN heap PROVE q \in DOMAIN heap' /\ Pointers(q)' = Pointers(q)
  <2>1. q \in DOMAIN heap' /\ heap'[q] = heap[q]
    BY <1>1
  <2>. QED
    BY <2>1 DEF Pointers
<1>7. ASSUME NEW k \in DOMAIN stack', k # top
      PROVE  k \in DOMAIN stack /\ k < top /\ Held(k)' = Held(k)
  <2>1. k \in DOMAIN stack /\ k < top /\ stack'[k] = stack[k]
    BY <1>2, <1>3, <1>7
  <2>. QED
    BY <2>1 DEF Held
<1>8. \A p \in DOMAIN heap : p \notin new
  BY <1>1
<1>9. ASSUME NEW q \in DOMAIN heap, NEW p \in Pointers(q)
      PROVE  p \in DOMAIN heap' /\ w[p] = q
  <2>1. p \in DOMAIN heap /\ o[p] = q /\ q \in Nat
    BY <1>1 DEF Owned
  <2>2. p \notin DOMAIN f
    <3>1. \A k \in DOMAIN stack : p \in Held(k) => o[p] = -k
      BY DEF Owned
    <3>2. \A k \in DOMAIN stack : q # -k
      BY <1>1, <1>2
    <3>. QED
      BY <1>8, <2>1, <3>1, <3>2
  <2>. QED
    BY <1>4, <1>6, <2>1, <2>2, <1>1
<1>10. ASSUME NEW k \in DOMAIN stack, k < top, NEW p \in Held(k)
       PROVE  p \in DOMAIN heap' /\ w[p] = -k
  <2>1. p \in DOMAIN heap /\ o[p] = -k
    BY DEF Owned
  <2>2. p \notin DOMAIN f
    <3>1. \A j \in DOMAIN stack : p \in Held(j) => o[p] = -j
      BY DEF Owned
    <3>2. \A j \in DOMAIN stack : j >= top => -k # -j
      BY <1>2, <1>3, <1>10
    <3>. QED
      BY <1>8, <2>1, <3>1, <3>2
  <2>. QED
    BY <1>1, <1>4, <2>1, <2>2
<1>11. \A p \in DOMAIN f : p \in DOMAIN heap' /\ w[p] = f[p]
  <2>1. \A k \in DOMAIN stack : Held(k) \subseteq DOMAIN heap
    BY DEF Owned
  <2>. QED
    BY <1>1, <1>4, <2>1
<1>12. \A q \in DOMAIN heap' : \A p \in Pointers(q)' : p \in DOMAIN heap' /\ w[p] = q
  BY <1>5, <1>6, <1>9, <1>11
<1>13. \A k \in DOMAIN stack' : \A p \in Held(k)' : p \in DOMAIN heap' /\ w[p] = -k
  BY <1>7, <1>10, <1>11
<1>14. ASSUME NEW p \in DOMAIN heap'
       PROVE  \/ w[p] \in DOMAIN heap' /\ p \in Pointers(w[p])'
              \/ \E k \in DOMAIN stack' : w[p] = -k /\ p \in Held(k)'
  <2>1. CASE p \in DOMAIN f
    <3>1. \A q \in new : q \in DOMAIN heap'
      BY <1>1
    <3>2. top \in DOMAIN stack'
      BY <1>3
    <3>. QED
      BY <1>11, <2>1, <3>1, <3>2
  <2>2. CASE p \notin DOMAIN f
    <3>1. p \in DOMAIN heap /\ w[p] = o[p]
      BY <1>4, <1>5, <2>2
    <3>2. CASE o[p] \in DOMAIN heap /\ p \in Pointers(o[p])
      BY <1>6, <3>1, <3>2
    <3>3. CASE \E k \in DOMAIN stack : o[p] = -k /\ p \in Held(k)
      <4>1. PICK k \in DOMAIN stack : o[p] = -k /\ p \in Held(k)
        BY <3>3
      <4>2. ~(k >= top)
        BY <2>2, <4>1
      <4>3. k < top /\ k \in DOMAIN stack' /\ k # top
        BY <1>2, <1>3, <4>2
      <4>4. Held(k)' = Held(k)
        BY <1>7, <4>3
      <4>. QED
        BY <3>1, <4>1, <4>3, <4>4
    <3>. QED
      BY <3>1, <3>2, <3>3 DEF Owned
  <2>. QED
    BY <2>1, <2>2
<1>15. Owned(w)'
  BY <1>12, <1>13, <1>14 DEF Owned
<1>. QED
  BY <1>15

(* The topmost entry and the next pointer, as numbers. *)
LEMMA Numbers ==
  ASSUME HeapOK, StackOK, NEW n \in Nat, NEW sym, NEW val, Pushes(n, sym, val)
  PROVE  \E top \in Nat \ {0} : \E new \in Nat \ {0} :
           /\ new = Len(heap) + 1 /\ new = NewPtr /\ DOMAIN heap = 1 .. new - 1
           /\ top = Len(stack) - n + 1 /\ DOMAIN stack = 1 .. top + n - 1
           /\ Len(stack) = top + n - 1 /\ Len(heap) = new - 1
           /\ Len(heap) + 1 .. Len(heap) + 1 = {new} /\ Len(heap) + 1 .. Len(heap) + 2 = {new, new + 1}
<1>1. PICK h \in Nat : h = Len(heap) /\ DOMAIN heap = 1 .. h
  BY LenProperties DEF HeapOK
<1>2. PICK s \in Nat : s = Len(stack) /\ DOMAIN stack = 1 .. s /\ n <= s
  BY LenProperties DEF StackOK, Pushes
<1>3. s - n + 1 \in Nat \ {0} /\ s - n + 1 + n - 1 = s
  BY <1>2
<1>4. h + 1 \in Nat \ {0} /\ h + 1 - 1 = h /\ h + 1 .. h + 1 = {h + 1} /\ h + 1 .. h + 2 = {h + 1, h + 1 + 1}
  BY <1>1
<1>. QED
  BY <1>1, <1>2, <1>3, <1>4 DEF NewPtr

(* What the topmost entry had goes to a node, which the new entry has. *)
LEMMA Rehung ==
  ASSUME HeapOK, StackOK, NEW o, Owned(o), Allocates(1), NEW new, new = NewPtr,
         NEW sym, NEW val, Pushes(1, sym, val), NEW top, top = Len(stack), NEW v,
         Held(top) = {v}, Pointers(new)' = {v}, Held(top)' = {new}
  PROVE  \E w : Owned(w)'
<1>1. /\ new \in Nat \ {0} /\ top \in Nat \ {0} /\ top = Len(stack) - 1 + 1
      /\ DOMAIN heap = 1 .. new - 1 /\ DOMAIN stack = 1 .. top
      /\ Len(heap) + 1 .. Len(heap) + 1 = {new}
  BY Numbers DEF Allocates
<1>2. v \in DOMAIN heap /\ v # new
  BY <1>1 DEF Owned
<1>3. PICK f : f = [p \in {v, new} |-> IF p = v THEN new ELSE -top]
  OBVIOUS
<1>4. DOMAIN f = {v, new} /\ f[v] = new /\ f[new] = -top
  BY <1>2, <1>3
<1>5. PICK news : news = Len(heap) + 1 .. Len(heap) + 1
  OBVIOUS
<1>6. \A k \in DOMAIN stack : k >= top <=> k = top
  BY <1>1
<1>7. top \in DOMAIN stack /\ news = {new}
  BY <1>1, <1>5
<1>8. \A k \in DOMAIN stack : k >= top => Held(k) \subseteq DOMAIN f
  BY <1>4, <1>6
<1>9. \A p \in DOMAIN f : p \in news \/ \E k \in DOMAIN stack : k >= top /\ p \in Held(k)
  BY <1>4, <1>6, <1>7
<1>10. \A p \in DOMAIN f : \/ f[p] = -top /\ p \in Held(top)'
                           \/ f[p] \in news /\ p \in Pointers(f[p])'
  BY <1>4, <1>7
<1>11. \A p \in Held(top)' : p \in DOMAIN f /\ f[p] = -top
  BY <1>4
<1>12. \A q \in news : \A p \in Pointers(q)' : p \in DOMAIN f /\ f[p] = q
  BY <1>4, <1>7
<1>. QED
  BY <1>1, <1>4, <1>5, <1>7, <1>8, <1>9, <1>10, <1>11, <1>12, Reowned

(* A name or a string is the entry's. *)
LEMMA ShiftsNameOwns ==
  ASSUME HeapOK, StackOK, NEW o, Owned(o), ShiftsName
  PROVE  \E w : Owned(w)'
<1>1. PICK sym : sym = text[read + 1].type
  OBVIOUS
<1>2. PICK new : new = NewPtr
  OBVIOUS
<1>3. /\ Allocates(1) /\ heap'[new] = Name(text[read + 1].str) /\ Pushes(0, sym, new)
      /\ sym \in {"IDENT", "STRING"}
  BY <1>1, <1>2 DEF ShiftsName
<1>4. PICK top : top = Len(stack) - 0 + 1
  OBVIOUS
<1>5. /\ new \in Nat \ {0} /\ top \in Nat \ {0} /\ DOMAIN stack = 1 .. top - 1
      /\ DOMAIN heap = 1 .. new - 1 /\ Len(heap) + 1 .. Len(heap) + 1 = {new}
  BY <1>2, <1>3, <1>4, Numbers
<1>6. stack'[top].sym = sym /\ stack'[top].val = new /\ sym # "list"
  BY <1>3, <1>4 DEF Pushes, Symbol
<1>7. Held(top)' = {new}
  BY <1>3, <1>6 DEF Held
<1>8. Pointers(new)' = {}
  BY <1>3 DEF Pointers, Name
<1>9. PICK f : f = [p \in {new} |-> -top]
  OBVIOUS
<1>10. PICK news : news = Len(heap) + 1 .. Len(heap) + 1
  OBVIOUS
<1>11. news = {new} /\ DOMAIN f = {new} /\ f[new] = -top
  BY <1>5, <1>9, <1>10
<1>12. \A k \in DOMAIN stack : ~(k >= top)
  BY <1>5
<1>. QED
  BY <1>3, <1>4, <1>7, <1>8, <1>10, <1>11, <1>12, Reowned

(* Marks have nothing. *)
LEMMA ShiftsMarkOwns ==
  ASSUME HeapOK, StackOK, NEW o, Owned(o), ShiftsMark
  PROVE  \E w : Owned(w)'
<1>1. PICK sym : sym = text[read + 1].type
  OBVIOUS
<1>2. UNCHANGED heap /\ Pushes(0, sym, 0) /\ sym \in {"LEFT_PAREN", "RIGHT_PAREN", "COMMA"}
  BY <1>1 DEF ShiftsMark
<1>3. Allocates(0)
  BY <1>2, LenProperties DEF Allocates, HeapOK
<1>4. PICK top : top = Len(stack) - 0 + 1
  OBVIOUS
<1>5. top \in Nat \ {0} /\ DOMAIN stack = 1 .. top - 1 /\ Len(heap) + 1 .. Len(heap) + 0 = {}
  <2>1. top \in Nat \ {0} /\ DOMAIN stack = 1 .. top - 1 /\ Len(heap) \in Nat
    BY <1>2, <1>4, Numbers, LenProperties DEF HeapOK
  <2>. QED
    BY <2>1
<1>6. stack'[top].sym = sym
  BY <1>2, <1>4 DEF Pushes, Symbol
<1>7. Held(top)' = {}
  BY <1>2, <1>6 DEF Held
<1>8. PICK f : f = [p \in {} |-> 0]
  OBVIOUS
<1>9. PICK news : news = Len(heap) + 1 .. Len(heap) + 0
  OBVIOUS
<1>10. news = {} /\ DOMAIN f = {}
  BY <1>5, <1>8, <1>9
<1>11. \A k \in DOMAIN stack : ~(k >= top)
  BY <1>5
<1>. QED
  BY <1>2, <1>3, <1>4, <1>7, <1>9, <1>10, <1>11, Reowned

(* An expression, or the cell of an argument, is made of the topmost entry. *)
LEMMA MakesOneOwns ==
  ASSUME HeapOK, StackOK, NEW o, Owned(o), MakesString \/ MakesFunc \/ MakesFirst
  PROVE  \E w : Owned(w)'
<1>1. PICK new : new = NewPtr
  OBVIOUS
<1>2. PICK top : top = Len(stack)
  OBVIOUS
<1>3. PICK v : v = Top.val
  OBVIOUS
<1>4. PICK sym, val : /\ Allocates(1) /\ Pushes(1, sym, val)
                      /\ \/ sym = "expression" /\ val = new
                         \/ sym = "list" /\ val = << new >>
                      /\ heap'[new] \in {Exp("STRING", v), Exp("FUNC", v), Arg(v)}
                      /\ stack[top].sym \in {"IDENT", "STRING", "func", "expression"}
  <2>1. CASE MakesString
    BY <1>1, <1>2, <1>3, <2>1 DEF MakesString, At
  <2>2. CASE MakesFunc
    BY <1>1, <1>2, <1>3, <2>2 DEF MakesFunc, At
  <2>3. CASE MakesFirst
    BY <1>1, <1>2, <1>3, <2>3 DEF MakesFirst, At
  <2>. QED
    BY <2>1, <2>2, <2>3
<1>5. top \in Nat \ {0} /\ top = Len(stack) - 1 + 1 /\ Top = stack[top]
  <2>1. top \in Nat \ {0} /\ top = Len(stack) - 1 + 1
    BY <1>2, <1>4, Numbers
  <2>. QED
    BY <1>2, <2>1, BelowIs
<1>6. Held(top) = {v}
  BY <1>3, <1>4, <1>5 DEF Held
<1>7. Pointers(new)' = {v}
  BY <1>4 DEF Pointers, Exp, Arg
<1>8. stack'[top] = Symbol(sym, val)
  BY <1>4, <1>5 DEF Pushes
<1>9. Held(top)' = {new}
  <2>1. CASE sym = "expression" /\ val = new
    BY <1>8, <2>1 DEF Held, Symbol
  <2>2. CASE sym = "list" /\ val = << new >>
    <3>1. Range(<< new >>) = {new}
      BY DEF Range
    <3>2. stack'[top].sym = "list" /\ stack'[top].val = << new >>
      BY <1>8, <2>2 DEF Symbol
    <3>. QED
      BY <3>1, <3>2 DEF Held
  <2>. QED
    BY <1>4, <2>1, <2>2
<1>. QED
  BY <1>1, <1>2, <1>4, <1>6, <1>7, <1>9, Rehung

(* The field of a name: the expression leads to it, and it to the name. *)
LEMMA MakesFieldOwns ==
  ASSUME HeapOK, StackOK, NEW o, Owned(o), MakesField
  PROVE  \E w : Owned(w)'
<1>1. PICK new : new = NewPtr
  OBVIOUS
<1>2. PICK top : top = Len(stack)
  OBVIOUS
<1>3. PICK v : v = Top.val
  OBVIOUS
<1>4. /\ Allocates(2) /\ heap'[new] = Exp("P13N", new + 1)
      /\ heap'[new + 1] = P13n(v, FieldOf[heap[v].str])
      /\ Pushes(1, "expression", new) /\ stack[top].sym = "IDENT"
  BY <1>1, <1>2, <1>3 DEF MakesField, At
<1>5. /\ top \in Nat \ {0} /\ top = Len(stack) - 1 + 1 /\ new \in Nat \ {0}
      /\ DOMAIN heap = 1 .. new - 1 /\ DOMAIN stack = 1 .. top
      /\ Len(heap) + 1 .. Len(heap) + 2 = {new, new + 1}
  BY <1>1, <1>2, <1>4, Numbers
<1>6. Held(top) = {v}
  <2>1. Top = stack[top]
    BY <1>2, <1>5, BelowIs
  <2>. QED
    BY <1>3, <1>4, <2>1 DEF Held
<1>7. Pointers(new)' = {new + 1} /\ Pointers(new + 1)' = {v}
  <2>1. Pointers(new)' = {new + 1}
    BY <1>4 DEF Pointers, Exp
  <2>2. PICK field : field = new + 1
    OBVIOUS
  <2>3. Pointers(field)' = {v}
    BY <1>4, <2>2 DEF Pointers, P13n
  <2>. QED
    BY <2>1, <2>2, <2>3
<1>8. stack'[top] = Symbol("expression", new)
  BY <1>4, <1>5 DEF Pushes
<1>9. Held(top)' = {new}
  BY <1>8 DEF Held, Symbol
<1>10. v \in DOMAIN heap /\ v # new /\ v # new + 1 /\ new # new + 1
  <2>1. v \in DOMAIN heap
    BY <1>5, <1>6 DEF Owned
  <2>. QED
    BY <1>5, <2>1
<1>11. PICK f : f = [p \in {v, new, new + 1} |->
                      IF p = v THEN new + 1 ELSE IF p = new THEN -top ELSE new]
  OBVIOUS
<1>12. DOMAIN f = {v, new, new + 1} /\ f[v] = new + 1 /\ f[new] = -top /\ f[new + 1] = new
  BY <1>10, <1>11
<1>13. PICK news : news = Len(heap) + 1 .. Len(heap) + 2
  OBVIOUS
<1>14. \A k \in DOMAIN stack : k >= top <=> k = top
  BY <1>5
<1>15. top \in DOMAIN stack /\ news = {new, new + 1}
  BY <1>5, <1>13
<1>16. \A k \in DOMAIN stack : k >= top => Held(k) \subseteq DOMAIN f
  BY <1>6, <1>12, <1>14
<1>17. \A p \in DOMAIN f : p \in news \/ \E k \in DOMAIN stack : k >= top /\ p \in Held(k)
  BY <1>6, <1>12, <1>14, <1>15
<1>18. \A p \in DOMAIN f : \/ f[p] = -top /\ p \in Held(top)'
                           \/ f[p] \in news /\ p \in Pointers(f[p])'
  BY <1>7, <1>9, <1>12, <1>15
<1>19. \A p \in Held(top)' : p \in DOMAIN f /\ f[p] = -top
  BY <1>9, <1>12
<1>20. \A q \in news : \A p \in Pointers(q)' : p \in DOMAIN f /\ f[p] = q
  BY <1>7, <1>12, <1>15
<1>21. news \subseteq DOMAIN f
  BY <1>12, <1>15
<1>22. 2 \in Nat /\ 1 \in Nat /\ Allocates(2) /\ Pushes(1, "expression", new)
  BY <1>4
<1>23. top = Len(stack) - 1 + 1
  BY <1>5
<1>. QED
  BY <1>13, <1>16, <1>17, <1>18, <1>19, <1>20, <1>21, <1>22, <1>23, Reowned, SMTT(60)

(* What a sequence has when one more is appended. *)
LEMMA RangeOfAppended ==
  ASSUME NEW S, NEW s \in Seq(S), NEW x \in S
  PROVE  /\ Range(Append(s, x)) = Range(s) \cup {x}
         /\ IsInjective(s) /\ x \notin Range(s) => IsInjective(Append(s, x))
<1>1. PICK n \in Nat : n = Len(s) /\ DOMAIN s = 1 .. n
  BY LenProperties
<1>2. PICK t : t = Append(s, x)
  OBVIOUS
<1>3. DOMAIN t = 1 .. n + 1 /\ t[n + 1] = x /\ \A k \in 1 .. n : t[k] = s[k]
  BY <1>1, <1>2
<1>4. \A k \in 1 .. n + 1 : k \in 1 .. n \/ k = n + 1
  BY <1>1
<1>5. n + 1 \in 1 .. n + 1 /\ \A k \in 1 .. n : k \in 1 .. n + 1
  BY <1>1
<1>6. Range(t) = Range(s) \cup {x}
  BY <1>1, <1>3, <1>4, <1>5 DEF Range
<1>7. IsInjective(s) /\ x \notin Range(s) => IsInjective(t)
  BY <1>1, <1>3, <1>4 DEF IsInjective, Range
<1>. QED
  BY <1>2, <1>6, <1>7

(* A cell leads to the expression; the list has its cells and that one. *)
LEMMA MakesNextOwns ==
  ASSUME HeapOK, StackOK, NEW o, Owned(o), MakesNext
  PROVE  \E w : Owned(w)'
<1>1. PICK new : new = NewPtr
  OBVIOUS
<1>2. PICK v : v = Top.val
  OBVIOUS
<1>3. PICK args : args = Below(2)
  OBVIOUS
<1>4. PICK top : top = Len(stack) - 3 + 1
  OBVIOUS
<1>5. /\ Allocates(1) /\ heap'[new] = Arg(v) /\ Pushes(3, "list", Append(args, new))
      /\ At(Len(stack) - 2, "list") /\ At(Len(stack) - 1, "COMMA") /\ At(Len(stack), "expression")
  BY <1>1, <1>2, <1>3 DEF MakesNext
<1>6. /\ top \in Nat \ {0} /\ new \in Nat \ {0} /\ DOMAIN stack = 1 .. top + 2
      /\ DOMAIN heap = 1 .. new - 1 /\ Len(stack) = top + 2
      /\ Len(heap) + 1 .. Len(heap) + 1 = {new}
  <2>1. /\ top \in Nat \ {0} /\ new \in Nat \ {0} /\ DOMAIN stack = 1 .. top + 3 - 1
        /\ DOMAIN heap = 1 .. new - 1 /\ Len(stack) = top + 3 - 1
        /\ Len(heap) + 1 .. Len(heap) + 1 = {new}
    BY <1>1, <1>4, <1>5, Numbers
  <2>2. top + 3 - 1 = top + 2
    BY <2>1
  <2>. QED
    BY <2>1, <2>2
<1>7. /\ stack[top].sym = "list" /\ stack[top + 1].sym = "COMMA"
      /\ stack[top + 2].sym = "expression"
  <2>1. Len(stack) - 2 = top /\ Len(stack) - 1 = top + 1
    BY <1>6
  <2>. QED
    BY <1>5, <1>6, <2>1 DEF At
<1>8. v = stack[top + 2].val /\ args = stack[top].val /\ args \in Seq(Nat)
  <2>1. Len(stack) - 2 = top /\ 2 < Len(stack) /\ 0 < Len(stack)
    BY <1>6
  <2>2. args = stack[top].val /\ EntryOK(top) /\ Top = stack[top + 2]
    BY <1>3, <1>6, <2>1, BelowIs
  <2>. QED
    BY <1>2, <1>7, <2>2 DEF EntryOK
<1>9. Held(top) = Range(args) /\ Held(top + 1) = {} /\ Held(top + 2) = {v}
  BY <1>7, <1>8 DEF Held
<1>10. /\ v \in DOMAIN heap /\ o[v] = -(top + 2) /\ Range(args) \subseteq DOMAIN heap
       /\ \A p \in Range(args) : o[p] = -top
  <2>1. top \in DOMAIN stack /\ top + 2 \in DOMAIN stack
    BY <1>6
  <2>. QED
    BY <1>9, <2>1 DEF Owned
<1>11. v \notin Range(args) /\ v # new /\ new \notin Range(args)
  <2>1. -top # -(top + 2)
    BY <1>6
  <2>2. new \notin DOMAIN heap
    BY <1>6
  <2>. QED
    BY <1>10, <2>1, <2>2
<1>12. PICK more : more = Append(args, new)
  OBVIOUS
<1>13. stack'[top].sym = "list" /\ stack'[top].val = more
  BY <1>4, <1>5, <1>12 DEF Pushes, Symbol
<1>14. Range(more) = Range(args) \cup {new}
  BY <1>6, <1>8, <1>12, RangeOfAppended
<1>15. Held(top)' = Range(args) \cup {new}
  BY <1>13, <1>14 DEF Held
<1>16. Pointers(new)' = {v}
  BY <1>5 DEF Pointers, Arg
<1>17. PICK f : f = [p \in Range(args) \cup {v, new} |-> IF p = v THEN new ELSE -top]
  OBVIOUS
<1>18. DOMAIN f = Range(args) \cup {v, new} /\ f[v] = new /\ \A p \in Range(args) \cup {new} : f[p] = -top
  BY <1>11, <1>17
<1>19. PICK news : news = Len(heap) + 1 .. Len(heap) + 1
  OBVIOUS
<1>20. news = {new}
  BY <1>6, <1>19
<1>21. \A k \in DOMAIN stack : k >= top <=> k = top \/ k = top + 1 \/ k = top + 2
  BY <1>6
<1>22. \A k \in DOMAIN stack : k >= top => Held(k) \subseteq DOMAIN f
  BY <1>9, <1>18, <1>21
<1>23. \A p \in DOMAIN f : p \in news \/ \E k \in DOMAIN stack : k >= top /\ p \in Held(k)
  <2>1. top \in DOMAIN stack /\ top >= top /\ top + 2 \in DOMAIN stack /\ top + 2 >= top
    BY <1>6
  <2>. QED
    BY <1>9, <1>18, <1>20, <2>1
<1>24. \A p \in DOMAIN f : \/ f[p] = -top /\ p \in Held(top)'
                           \/ f[p] \in news /\ p \in Pointers(f[p])'
  BY <1>15, <1>16, <1>18, <1>20
<1>25. \A p \in Held(top)' : p \in DOMAIN f /\ f[p] = -top
  BY <1>15, <1>18
<1>26. \A q \in news : \A p \in Pointers(q)' : p \in DOMAIN f /\ f[p] = q
  BY <1>16, <1>18, <1>20
<1>27. news \subseteq DOMAIN f
  BY <1>18, <1>20
<1>. QED
  BY <1>4, <1>5, <1>19, <1>22, <1>23, <1>24, <1>25, <1>26, <1>27, Reowned

(* A call leads to its name and to the cells of its arguments. *)
LEMMA MakesCallOwns ==
  ASSUME HeapOK, StackOK, NEW o, Owned(o), MakesCall
  PROVE  \E w : Owned(w)'
<1>1. PICK new : new = NewPtr
  OBVIOUS
<1>2. PICK v : v = Below(3)
  OBVIOUS
<1>3. PICK args : args = Below(1)
  OBVIOUS
<1>4. PICK top : top = Len(stack) - 4 + 1
  OBVIOUS
<1>5. /\ Allocates(1) /\ heap'[new] = Func(v, args) /\ Pushes(4, "func", new)
      /\ At(Len(stack) - 3, "IDENT") /\ At(Len(stack) - 2, "LEFT_PAREN")
      /\ At(Len(stack) - 1, "list") /\ At(Len(stack), "RIGHT_PAREN")
  BY <1>1, <1>2, <1>3 DEF MakesCall
<1>6. /\ top \in Nat \ {0} /\ new \in Nat \ {0} /\ DOMAIN stack = 1 .. top + 3
      /\ DOMAIN heap = 1 .. new - 1 /\ Len(stack) = top + 3
      /\ Len(heap) + 1 .. Len(heap) + 1 = {new}
  <2>1. /\ top \in Nat \ {0} /\ new \in Nat \ {0} /\ DOMAIN stack = 1 .. top + 4 - 1
        /\ DOMAIN heap = 1 .. new - 1 /\ Len(stack) = top + 4 - 1
        /\ Len(heap) + 1 .. Len(heap) + 1 = {new}
    BY <1>1, <1>4, <1>5, Numbers
  <2>2. top + 4 - 1 = top + 3
    BY <2>1
  <2>. QED
    BY <2>1, <2>2
<1>7. /\ Len(stack) - 3 = top /\ Len(stack) - 2 = top + 1 /\ Len(stack) - 1 = top + 2
      /\ 3 < Len(stack) /\ 1 < Len(stack)
  BY <1>6
<1>8. /\ stack[top].sym = "IDENT" /\ stack[top + 1].sym = "LEFT_PAREN"
      /\ stack[top + 2].sym = "list" /\ stack[top + 3].sym = "RIGHT_PAREN"
  BY <1>5, <1>6, <1>7 DEF At
<1>9. v = stack[top].val /\ args = stack[top + 2].val
  BY <1>2, <1>3, <1>7, BelowIs
<1>10. /\ Held(top) = {v} /\ Held(top + 1) = {} /\ Held(top + 2) = Range(args)
       /\ Held(top + 3) = {}
  BY <1>8, <1>9 DEF Held
<1>11. v \in DOMAIN heap /\ Range(args) \subseteq DOMAIN heap /\ new \notin DOMAIN heap
  <2>1. top \in DOMAIN stack /\ top + 2 \in DOMAIN stack /\ new \notin DOMAIN heap
    BY <1>6
  <2>. QED
    BY <1>10, <2>1 DEF Owned
<1>12. stack'[top].sym = "func" /\ stack'[top].val = new
  BY <1>4, <1>5 DEF Pushes, Symbol
<1>13. Held(top)' = {new}
  BY <1>12 DEF Held
<1>14. Pointers(new)' = {v} \cup Range(args)
  BY <1>5 DEF Pointers, Func
<1>15. PICK f : f = [p \in {v, new} \cup Range(args) |-> IF p = new THEN -top ELSE new]
  OBVIOUS
<1>16. DOMAIN f = {v, new} \cup Range(args) /\ f[new] = -top /\ \A p \in {v} \cup Range(args) : f[p] = new
  BY <1>11, <1>15
<1>17. PICK news : news = Len(heap) + 1 .. Len(heap) + 1
  OBVIOUS
<1>18. news = {new}
  BY <1>6, <1>17
<1>19. \A k \in DOMAIN stack : k >= top <=> k = top \/ k = top + 1 \/ k = top + 2 \/ k = top + 3
  BY <1>6
<1>20. \A k \in DOMAIN stack : k >= top => Held(k) \subseteq DOMAIN f
  BY <1>10, <1>16, <1>19
<1>21. \A p \in DOMAIN f : p \in news \/ \E k \in DOMAIN stack : k >= top /\ p \in Held(k)
  <2>1. top \in DOMAIN stack /\ top >= top /\ top + 2 \in DOMAIN stack /\ top + 2 >= top
    BY <1>6
  <2>. QED
    BY <1>10, <1>16, <1>18, <2>1
<1>22. \A p \in DOMAIN f : \/ f[p] = -top /\ p \in Held(top)'
                           \/ f[p] \in news /\ p \in Pointers(f[p])'
  BY <1>13, <1>14, <1>16, <1>18
<1>23. \A p \in Held(top)' : p \in DOMAIN f /\ f[p] = -top
  BY <1>13, <1>16
<1>24. \A q \in news : \A p \in Pointers(q)' : p \in DOMAIN f /\ f[p] = q
  BY <1>14, <1>16, <1>18
<1>25. news \subseteq DOMAIN f
  BY <1>16, <1>18
<1>. QED
  BY <1>4, <1>5, <1>17, <1>20, <1>21, <1>22, <1>23, <1>24, <1>25, Reowned

(* A list and a call have the arguments that were there, and new ones. *)
LEMMA OnceStays ==
  ASSUME HeapOK, StackOK, NEW o, Owned(o), Once, Parses
  PROVE  Once'
<1>1. ASSUME NEW n \in Nat, Allocates(n), NEW m \in Nat, NEW sym, NEW val, Pushes(m, sym, val),
             NEW top, top = Len(stack) - m + 1, sym = "list" => IsInjective(val),
             \A q \in Len(heap) + 1 .. Len(heap) + n :
               heap'[q].kind = "func" => IsInjective(heap'[q].args)
      PROVE  Once'
  <2>1. /\ DOMAIN heap' = 1 .. Len(heap) + n /\ Len(heap) \in Nat
        /\ \A p \in DOMAIN heap : heap'[p] = heap[p]
    BY <1>1, NodesStay
  <2>2. /\ Len(stack) \in Nat /\ DOMAIN stack = 1 .. Len(stack) /\ m <= Len(stack)
        /\ DOMAIN stack' = 1 .. Len(stack) - m + 1
        /\ \A k \in 1 .. Len(stack) - m : stack'[k] = stack[k]
        /\ stack'[top] = Symbol(sym, val)
    BY <1>1, EntriesStay DEF Pushes
  <2>3. \A q \in DOMAIN heap' : q \in DOMAIN heap \/ q \in Len(heap) + 1 .. Len(heap) + n
    BY <2>1, NodesStay, <1>1
  <2>4. \A k \in DOMAIN stack' : k \in 1 .. Len(stack) - m \/ k = top
    BY <1>1, <2>2
  <2>5. \A k \in 1 .. Len(stack) - m : k \in DOMAIN stack
    BY <1>1, <2>2
  <2>6. \A q \in DOMAIN heap' : heap'[q].kind = "func" => IsInjective(heap'[q].args)
    BY <1>1, <2>1, <2>3 DEF Once
  <2>7. stack'[top].sym = sym /\ stack'[top].val = val
    BY <2>2 DEF Symbol
  <2>8. \A k \in DOMAIN stack' : stack'[k].sym = "list" => IsInjective(stack'[k].val)
    BY <1>1, <2>2, <2>4, <2>5, <2>7 DEF Once
  <2>. QED
    BY <2>6, <2>8 DEF Once
<1>2. PICK new : new = NewPtr
  OBVIOUS
<1>3. PICK len : len = Len(stack)
  OBVIOUS
<1>4. CASE ShiftsMark
  <2>1. PICK sym : sym \in {"LEFT_PAREN", "RIGHT_PAREN", "COMMA"} /\ Pushes(0, sym, 0)
    BY <1>4 DEF ShiftsMark
  <2>2. Allocates(0) /\ Len(heap) + 1 .. Len(heap) + 0 = {}
    BY <1>4, LenProperties DEF ShiftsMark, Allocates, HeapOK
  <2>3. PICK top : top = Len(stack) - 0 + 1
    OBVIOUS
  <2>4. sym # "list" /\ 0 \in Nat
    BY <2>1
  <2>. QED
    BY <1>1, <2>1, <2>2, <2>3, <2>4
<1>5. CASE ShiftsName
  <2>1. PICK sym : /\ sym \in {"IDENT", "STRING"} /\ Pushes(0, sym, new) /\ Allocates(1)
                   /\ heap'[new] = Name(text[read + 1].str)
    BY <1>2, <1>5 DEF ShiftsName
  <2>2. Len(heap) + 1 .. Len(heap) + 1 = {new}
    BY <1>2, <2>1, Numbers
  <2>3. PICK top : top = Len(stack) - 0 + 1
    OBVIOUS
  <2>4. heap'[new].kind = "str"
    BY <2>1 DEF Name
  <2>5. sym # "list" /\ 0 \in Nat /\ 1 \in Nat
    BY <2>1
  <2>. QED
    BY <1>1, <2>1, <2>2, <2>3, <2>4, <2>5
<1>6. CASE MakesString \/ MakesFunc
  <2>1. PICK v : Pushes(1, "expression", new) /\ Allocates(1) /\ heap'[new] \in {Exp("STRING", v), Exp("FUNC", v)}
    BY <1>2, <1>6 DEF MakesString, MakesFunc
  <2>2. Len(heap) + 1 .. Len(heap) + 1 = {new}
    BY <1>2, <2>1, Numbers
  <2>3. PICK top : top = Len(stack) - 1 + 1
    OBVIOUS
  <2>4. heap'[new].kind = "exp"
    BY <2>1 DEF Exp
  <2>. QED
    BY <1>1, <2>1, <2>2, <2>3, <2>4
<1>7. CASE MakesField
  <2>1. /\ Pushes(1, "expression", new) /\ Allocates(2) /\ heap'[new].kind = "exp"
        /\ heap'[new + 1].kind = "p13n"
    BY <1>2, <1>7 DEF MakesField, Exp, P13n
  <2>2. Len(heap) + 1 .. Len(heap) + 2 = {new, new + 1}
    BY <1>2, <2>1, Numbers
  <2>3. PICK top : top = Len(stack) - 1 + 1
    OBVIOUS
  <2>4. \A q \in Len(heap) + 1 .. Len(heap) + 2 : heap'[q].kind # "func"
    BY <2>1, <2>2
  <2>. QED
    BY <1>1, <2>1, <2>3, <2>4
<1>8. CASE MakesFirst
  <2>1. Pushes(1, "list", << new >>) /\ Allocates(1) /\ heap'[new].kind = "arg"
    BY <1>2, <1>8 DEF MakesFirst, Arg
  <2>2. Len(heap) + 1 .. Len(heap) + 1 = {new}
    BY <1>2, <2>1, Numbers
  <2>3. PICK top : top = Len(stack) - 1 + 1
    OBVIOUS
  <2>4. IsInjective(<< new >>)
    BY DEF IsInjective
  <2>. QED
    BY <1>1, <2>1, <2>2, <2>3, <2>4
<1>9. CASE MakesNext
  <2>1. PICK args : args = Below(2)
    OBVIOUS
  <2>2. Pushes(3, "list", Append(args, new)) /\ Allocates(1) /\ heap'[new].kind = "arg" /\ At(len - 2, "list")
    BY <1>2, <1>3, <1>9, <2>1 DEF MakesNext, Arg
  <2>3. Len(heap) + 1 .. Len(heap) + 1 = {new} /\ new \in Nat
    BY <1>2, <2>2, Numbers
  <2>4. PICK top : top = Len(stack) - 3 + 1
    OBVIOUS
  <2>5. 2 < len /\ len \in Nat
    BY <1>3, <2>2, LenProperties DEF Pushes, StackOK
  <2>6. args = stack[len - 2].val /\ stack[len - 2].sym = "list" /\ EntryOK(len - 2) /\ len - 2 \in DOMAIN stack
    BY <1>3, <2>1, <2>2, <2>5, BelowIs DEF At
  <2>7. IsInjective(args) /\ args \in Seq(Nat) /\ \A k \in DOMAIN args : Is(args[k], "arg")
    BY <2>6 DEF Once, EntryOK
  <2>8. new \notin Range(args)
    <3>1. \A k \in DOMAIN args : args[k] \in Nat /\ args[k] < new
      BY <1>2, <2>7, NewPtrIs
    <3>. QED
      BY <2>3, <3>1 DEF Range
  <2>9. IsInjective(Append(args, new))
    BY <2>3, <2>7, <2>8, RangeOfAppended
  <2>. QED
    BY <1>1, <2>2, <2>3, <2>4, <2>9
<1>10. CASE MakesCall
  <2>1. PICK args : args = Below(1)
    OBVIOUS
  <2>2. /\ Pushes(4, "func", new) /\ Allocates(1) /\ heap'[new].args = args /\ At(len - 1, "list")
    BY <1>2, <1>3, <1>10, <2>1 DEF MakesCall, Func
  <2>3. Len(heap) + 1 .. Len(heap) + 1 = {new}
    BY <1>2, <2>2, Numbers
  <2>4. PICK top : top = Len(stack) - 4 + 1
    OBVIOUS
  <2>5. 1 < len /\ len \in Nat
    BY <1>3, <2>2, LenProperties DEF Pushes, StackOK
  <2>6. args = stack[len - 1].val /\ stack[len - 1].sym = "list" /\ len - 1 \in DOMAIN stack
    BY <1>3, <2>1, <2>2, <2>5, BelowIs DEF At
  <2>7. IsInjective(args)
    BY <2>6 DEF Once
  <2>. QED
    BY <1>1, <2>2, <2>3, <2>4, <2>7
<1>. QED
  BY <1>4, <1>5, <1>6, <1>7, <1>8, <1>9, <1>10 DEF Parses

(* The parser loses nothing of what it allocates, and does not use it twice. *)
OwnInv == (\E o : Owned(o)) /\ Once

(* Nothing is allocated yet, and nothing lost. *)
LEMMA OwnInit == Init => OwnInv
<1> SUFFICES ASSUME Init PROVE OwnInv
  OBVIOUS
<1>1. DOMAIN heap = {} /\ DOMAIN stack = {}
  BY DEF Init
<1>2. Owned(<< >>)
  BY <1>1 DEF Owned
<1>. QED
  BY <1>1, <1>2 DEF OwnInv, Once

(* Every step of the program leaves each node one owner. *)
LEMMA OwnStep == TypesInv /\ OwnInv /\ [Next]_vars => OwnInv'
<1> SUFFICES ASSUME TypesInv, OwnInv, [Next]_vars PROVE OwnInv'
  OBVIOUS
<1>1. HeapOK /\ StackOK /\ TextOK /\ Once
  BY DEF TypesInv, OwnInv
<1>2. PICK o : Owned(o)
  BY DEF OwnInv
<1>3. CASE Parses
  <2>1. \E w : Owned(w)'
    BY <1>1, <1>2, <1>3, ShiftsNameOwns, ShiftsMarkOwns, MakesOneOwns, MakesFieldOwns,
       MakesNextOwns, MakesCallOwns DEF Parses
  <2>2. Once'
    BY <1>1, <1>2, <1>3, OnceStays
  <2>. QED
    BY <2>1, <2>2 DEF OwnInv
<1>4. CASE UNCHANGED << heap, stack >>
  <2>1. heap' = heap /\ stack' = stack
    BY <1>4
  <2>2. \A q : Pointers(q)' = Pointers(q)
    BY <2>1 DEF Pointers
  <2>3. \A k : Held(k)' = Held(k)
    BY <2>1 DEF Held
  <2>4. Owned(o)'
    BY <1>2, <2>1, <2>2, <2>3 DEF Owned
  <2>5. Once'
    BY <1>1, <2>1 DEF Once
  <2>. QED
    BY <2>4, <2>5 DEF OwnInv
<1>5. Accept \/ Error \/ UNCHANGED << text, parsing >> \/ UNCHANGED vars => UNCHANGED << heap, stack >>
  BY DEF Accept, Error, parsing, vars
<1>. QED
  BY <1>1, <1>3, <1>4, <1>5, StepsAre

-----------------------------------------------------------------------------
(* Evaluation and destruction: a frame for each expression that is not     *)
(* over, on the way from the root.                                         *)
Frames(B) == [e : Nat, i : Nat, buf : B]

(* The frame is of an expression, and has been through some arguments. *)
FrameOK(k) ==
  LET e == frames[k].e
  IN  Is(e, "exp") /\ (heap[e].type = "FUNC" => frames[k].i <= Len(Args(e)))

(* The frame has come to an argument. *)
AtArg(k) == heap[frames[k].e].type = "FUNC" /\ frames[k].i < Len(Args(frames[k].e))

(* The calls that are not over are a path down the tree, from the root:    *)
(* each is of the argument the one below it has come to.                   *)
Chain ==
  /\ \E B : frames \in Seq(Frames(B))
  /\ frames # << >> => root # 0 /\ frames[1].e = root
  /\ \A k \in DOMAIN frames : FrameOK(k)
  /\ \A k \in DOMAIN frames : k < Len(frames) =>
       AtArg(k) /\ frames[k + 1].e = ArgExp(frames[k].e, frames[k].i + 1)
  /\ \A j, k \in DOMAIN frames : j < k => frames[k].e < frames[j].e
  /\ rval # << >> /\ frames # << >> => AtArg(Len(frames))

(* There are frames only while a call is not over, and the parser leaves   *)
(* one expression, or nothing.                                             *)
Quiet ==
  /\ pc \in {"parse", "compiled", "exit"} => frames = << >> /\ rval = << >>
  /\ pc \in {"executed", "destroyed"} => frames = << >>
  /\ pc \notin {"parse", "exit"} =>
       \/ stack = << >> /\ root = 0
       \/ Len(stack) = 1 /\ stack[1].sym = "expression" /\ root = stack[1].val

(* What holds of the calls of exec and destroy that are not over. *)
RunInv == Chain /\ Quiet

(* What a call leads to. *)
LEMMA CallIs ==
  ASSUME HeapOK, NEW e, Is(e, "exp"), heap[e].type = "FUNC"
  PROVE  /\ e \in Nat /\ Is(heap[e].val, "func") /\ heap[e].val \in Nat /\ heap[e].val < e
         /\ Is(FuncOf(e).name, "str") /\ FuncOf(e) = heap[heap[e].val]
         /\ Args(e) \in Seq(Nat) /\ Len(Args(e)) \in Nat /\ DOMAIN Args(e) = 1 .. Len(Args(e))
         /\ \A m \in 1 .. Len(Args(e)) :
              /\ Is(Args(e)[m], "arg") /\ ArgExp(e, m) = heap[Args(e)[m]].exp
              /\ Is(ArgExp(e, m), "exp") /\ ArgExp(e, m) \in Nat /\ ArgExp(e, m) < e
<1>1. heap \in Seq(Nodes) /\ (\A p \in DOMAIN heap : p \in Nat /\ heap[p] \in Nodes /\ NodeOK(p))
  BY LenProperties DEF HeapOK
<1>2. e \in DOMAIN heap /\ heap[e].kind = "exp"
  BY DEF Is
<1>3. PICK g : g = heap[e].val
  OBVIOUS
<1>4. g < e /\ Is(g, "func")
  BY <1>1, <1>2, <1>3 DEF NodeOK
<1>5. g \in DOMAIN heap /\ heap[g].kind = "func" /\ heap[g] \in Nodes /\ g \in Nat /\ e \in Nat
  BY <1>1, <1>2, <1>4 DEF Is
<1>6. heap[g].args \in Seq(Nat)
  BY <1>5 DEF Nodes
<1>7. Is(heap[g].name, "str") /\ \A k \in DOMAIN heap[g].args : heap[g].args[k] < g /\ Is(heap[g].args[k], "arg")
  BY <1>1, <1>5 DEF NodeOK
<1>8. FuncOf(e) = heap[g] /\ Args(e) = heap[g].args
  BY <1>3 DEF FuncOf, Args
<1>9. PICK args : args = heap[g].args
  OBVIOUS
<1>10. args \in Seq(Nat) /\ Len(args) \in Nat /\ DOMAIN args = 1 .. Len(args)
  BY <1>6, <1>9, LenProperties
<1>11. ASSUME NEW m \in 1 .. Len(args)
       PROVE  /\ Is(args[m], "arg") /\ Is(heap[args[m]].exp, "exp")
              /\ heap[args[m]].exp \in Nat /\ heap[args[m]].exp < e
  <2>1. PICK a : a = args[m]
    OBVIOUS
  <2>2. a \in Nat /\ a < g /\ Is(a, "arg")
    BY <1>7, <1>9, <1>10, <2>1
  <2>3. a \in DOMAIN heap /\ heap[a].kind = "arg" /\ NodeOK(a)
    BY <1>1, <2>2 DEF Is
  <2>4. heap[a].exp < a /\ Is(heap[a].exp, "exp")
    BY <2>3 DEF NodeOK
  <2>5. heap[a].exp \in Nat
    BY <1>1, <2>4 DEF Is
  <2>. QED
    BY <1>4, <1>5, <2>1, <2>2, <2>4, <2>5
<1>12. \A m : ArgExp(e, m) = heap[args[m]].exp
  BY <1>8, <1>9 DEF ArgExp
<1>. QED
  BY <1>3, <1>4, <1>5, <1>7, <1>8, <1>9, <1>10, <1>11, <1>12

(* How the frames change. *)
Starts == root # 0 /\ frames' = << Frame(root) >> /\ rval' = << >>

(* A call for the argument the last one has come to. *)
Descends ==
  /\ frames # << >> /\ rval = << >> /\ rval' = << >> /\ AtArg(Len(frames))
  /\ frames' = Append(frames, Frame(ArgExp(Calls.e, Calls.i + 1)))

(* The last call has its value for the argument, and goes on to the next. *)
Advances ==
  /\ frames # << >> /\ rval # << >> /\ rval' = << >>
  /\ \E B : frames' \in Seq(Frames(B))
  /\ Len(frames') = Len(frames)
  /\ \A k \in 1 .. Len(frames) : k < Len(frames) => frames'[k] = frames[k]
  /\ frames'[Len(frames)].e = Calls.e /\ frames'[Len(frames)].i = Calls.i + 1

(* The last call is over. *)
Returns(val) == frames # << >> /\ Return(val)

(* The frames, counted. *)
LEMMA FramesAre ==
  ASSUME Chain
  PROVE  \E n \in Nat :
           /\ n = Len(frames) /\ DOMAIN frames = 1 .. n /\ (n = 0 <=> frames = << >>)
           /\ \A k \in 1 .. n : frames[k].e \in Nat /\ frames[k].i \in Nat
           /\ n # 0 => n \in DOMAIN frames /\ 1 \in DOMAIN frames /\ Calls = frames[n]
<1>1. PICK B : frames \in Seq(Frames(B))
  BY DEF Chain
<1>2. PICK n \in Nat : n = Len(frames) /\ DOMAIN frames = 1 .. n /\ (n = 0 <=> frames = << >>)
  BY <1>1, LenProperties, EmptySeq
<1>3. \A k \in 1 .. n : frames[k] \in Frames(B)
  BY <1>1, <1>2
<1>4. \A k \in 1 .. n : frames[k].e \in Nat /\ frames[k].i \in Nat
  BY <1>3 DEF Frames
<1>. QED
  BY <1>2, <1>4 DEF Calls, Last

(* The first call is of the root, *)
LEMMA StartsChain ==
  ASSUME HeapOK, root # 0 => Is(root, "exp"), Starts, UNCHANGED << heap, root >>
  PROVE  Chain'
<1>1. PICK f : f = Frame(root)
  OBVIOUS
<1>2. f.e = root /\ f.i = 0 /\ f.buf = << >> /\ f \in Frames({<< >>}) /\ Is(root, "exp") /\ root # 0
  <2>1. root \in Nat /\ Is(root, "exp") /\ root # 0
    BY LenProperties DEF Starts, Is, HeapOK
  <2>. QED
    BY <1>1, <2>1 DEF Frame, Frames
<1>3. frames' = << f >> /\ rval' = << >> /\ heap' = heap /\ root' = root
  BY <1>1 DEF Starts
<1>4. frames' \in Seq(Frames({<< >>})) /\ DOMAIN frames' = {1} /\ Len(frames') = 1 /\ frames'[1] = f
  BY <1>2, <1>3
<1>5. FrameOK(1)'
  <2>1. heap[root].type = "FUNC" => Len(Args(root)) \in Nat
    BY <1>2, CallIs
  <2>2. \A e : Args(e)' = Args(e)
    BY <1>3 DEF Args, FuncOf
  <2>. QED
    BY <1>2, <1>3, <1>4, <2>1, <2>2 DEF FrameOK, Is
<1>. QED
  BY <1>2, <1>3, <1>4, <1>5 DEF Chain

(* the next of an argument of the last, *)
LEMMA DescendsChain ==
  ASSUME HeapOK, Chain, Descends, UNCHANGED << heap, root >>
  PROVE  Chain'
<1>1. PICK n \in Nat \ {0} :
        /\ n = Len(frames) /\ DOMAIN frames = 1 .. n /\ n \in DOMAIN frames /\ 1 \in DOMAIN frames
        /\ \A k \in 1 .. n : frames[k].e \in Nat /\ frames[k].i \in Nat
        /\ Calls = frames[n]
  BY FramesAre DEF Descends
<1>2. PICK e : e = frames[n].e
  OBVIOUS
<1>3. PICK i \in Nat : i = frames[n].i
  BY <1>1
<1>4. Is(e, "exp") /\ heap[e].type = "FUNC" /\ i < Len(Args(e))
  BY <1>1, <1>2, <1>3 DEF Chain, FrameOK, Descends, AtArg
<1>5. PICK x : x = ArgExp(e, i + 1)
  OBVIOUS
<1>6. i + 1 \in 1 .. Len(Args(e))
  BY <1>4, CallIs
<1>7. Is(x, "exp") /\ x \in Nat /\ x < e
  BY <1>4, <1>5, <1>6, CallIs
<1>8. PICK f : f = Frame(x)
  OBVIOUS
<1>9. PICK B : frames \in Seq(Frames(B)) /\ << >> \in B
  <2>1. PICK C : frames \in Seq(Frames(C))
    BY DEF Chain
  <2>2. PICK B : B = C \cup {<< >>}
    OBVIOUS
  <2>3. Frames(C) \subseteq Frames(B)
    BY <2>2 DEF Frames
  <2>4. \A k \in 1 .. n : frames[k] \in Frames(B)
    BY <1>1, <2>1, <2>3
  <2>5. frames \in Seq(Frames(B))
    BY <1>1, <2>1, <2>4
  <2>. QED
    BY <2>2, <2>5
<1>10. f \in Frames(B) /\ f.e = x /\ f.i = 0
  BY <1>7, <1>8, <1>9 DEF Frames, Frame
<1>11. frames' = Append(frames, f) /\ rval' = << >> /\ heap' = heap /\ root' = root
  BY <1>1, <1>2, <1>3, <1>5, <1>8 DEF Descends
<1>12. PICK fs : fs = frames'
  OBVIOUS
<1>13. /\ fs \in Seq(Frames(B)) /\ Len(fs) = n + 1 /\ DOMAIN fs = 1 .. n + 1
       /\ fs[n + 1] = f /\ \A k \in 1 .. n : fs[k] = frames[k]
  BY <1>1, <1>9, <1>10, <1>11, <1>12
<1>14. \A d : Args(d)' = Args(d)
  BY <1>11 DEF Args, FuncOf
<1>15. \A d, m : ArgExp(d, m)' = ArgExp(d, m)
  BY <1>11 DEF ArgExp, FuncOf
<1>16. \A p, kind : Is(p, kind)' <=> Is(p, kind)
  BY <1>11 DEF Is
<1>17. \A k \in 1 .. n + 1 : k \in 1 .. n \/ k = n + 1
  BY <1>1
<1>18. \A k \in 1 .. n : FrameOK(k)' /\ (AtArg(k)' <=> AtArg(k))
  <2>1. ASSUME NEW k \in 1 .. n PROVE FrameOK(k)' /\ (AtArg(k)' <=> AtArg(k))
    <3>1. FrameOK(k) /\ fs[k] = frames[k]
      BY <1>1, <1>13 DEF Chain
    <3>. QED
      BY <1>11, <1>12, <1>14, <1>16, <3>1 DEF FrameOK, AtArg
  <2>. QED
    BY <2>1
<1>19. PICK new : new = n + 1
  OBVIOUS
<1>20. FrameOK(new)'
  <2>1. heap[x].type = "FUNC" => Len(Args(x)) \in Nat
    BY <1>7, CallIs
  <2>2. frames'[new].e = x /\ frames'[new].i = 0
    BY <1>10, <1>12, <1>13, <1>19
  <2>. QED
    BY <1>7, <1>11, <1>14, <1>16, <2>1, <2>2 DEF FrameOK
<1>21. \A k \in DOMAIN frames' : FrameOK(k)'
  BY <1>12, <1>13, <1>17, <1>18, <1>19, <1>20
<1>22. ASSUME NEW k \in DOMAIN fs, k < n + 1
       PROVE  AtArg(k)' /\ fs[k + 1].e = ArgExp(fs[k].e, fs[k].i + 1)
  <2>1. k \in 1 .. n /\ fs[k] = frames[k]
    BY <1>13, <1>17, <1>22
  <2>2. CASE k < n
    <3>1. AtArg(k) /\ frames[k + 1].e = ArgExp(frames[k].e, frames[k].i + 1)
      BY <1>1, <2>1, <2>2 DEF Chain
    <3>2. fs[k + 1] = frames[k + 1]
      BY <1>13, <2>1, <2>2
    <3>. QED
      BY <1>18, <2>1, <3>1, <3>2
  <2>3. CASE k = n
    <3>1. AtArg(n)
      BY <1>1 DEF Descends
    <3>2. fs[n + 1].e = x
      BY <1>10, <1>13
    <3>. QED
      BY <1>2, <1>3, <1>5, <1>18, <2>1, <2>3, <3>1, <3>2
  <2>. QED
    BY <2>1, <2>2, <2>3
<1>23. ASSUME NEW j \in DOMAIN fs, NEW k \in DOMAIN fs, j < k PROVE fs[k].e < fs[j].e
  <2>1. j \in 1 .. n /\ fs[j] = frames[j]
    BY <1>13, <1>17, <1>23
  <2>2. CASE k \in 1 .. n
    BY <1>1, <1>13, <1>23, <2>1, <2>2 DEF Chain
  <2>3. CASE k = n + 1
    <3>1. j = n \/ frames[n].e < frames[j].e
      BY <1>1, <2>1 DEF Chain
    <3>2. fs[k].e = x /\ frames[j].e \in Nat
      BY <1>1, <1>10, <1>13, <2>1, <2>3
    <3>. QED
      BY <1>1, <1>2, <1>7, <2>1, <3>1, <3>2
  <2>. QED
    BY <1>13, <1>17, <2>2, <2>3
<1>24. root # 0 /\ fs[1].e = root
  BY <1>1, <1>13 DEF Chain
<1>25. (\A k \in DOMAIN frames : k < Len(frames) =>
          AtArg(k) /\ frames[k + 1].e = ArgExp(frames[k].e, frames[k].i + 1))'
  BY <1>11, <1>12, <1>13, <1>22 DEF ArgExp, FuncOf
<1>26. (\E C : frames \in Seq(Frames(C)))'
  BY <1>12, <1>13
<1>27. (\A j, k \in DOMAIN frames : j < k => frames[k].e < frames[j].e)'
  BY <1>12, <1>23
<1>28. (frames # << >> => root # 0 /\ frames[1].e = root)'
  BY <1>11, <1>12, <1>24
<1>. QED
  BY <1>11, <1>21, <1>25, <1>26, <1>27, <1>28 DEF Chain

(* a call goes on to its next argument, *)
LEMMA AdvancesChain ==
  ASSUME HeapOK, Chain, Advances, UNCHANGED << heap, root >>
  PROVE  Chain'
<1>1. PICK n \in Nat \ {0} :
        /\ n = Len(frames) /\ DOMAIN frames = 1 .. n /\ n \in DOMAIN frames /\ 1 \in DOMAIN frames
        /\ \A k \in 1 .. n : frames[k].e \in Nat /\ frames[k].i \in Nat
        /\ Calls = frames[n]
  BY FramesAre DEF Advances
<1>2. PICK e : e = frames[n].e
  OBVIOUS
<1>3. PICK i \in Nat : i = frames[n].i
  BY <1>1
<1>4. Is(e, "exp") /\ heap[e].type = "FUNC" /\ i < Len(Args(e))
  BY <1>1, <1>2, <1>3 DEF Chain, FrameOK, Advances, AtArg
<1>5. i + 1 <= Len(Args(e))
  BY <1>3, <1>4, CallIs
<1>6. PICK fs : fs = frames'
  OBVIOUS
<1>7. PICK B : fs \in Seq(Frames(B))
  BY <1>6 DEF Advances
<1>8. /\ Len(fs) = n /\ DOMAIN fs = 1 .. n /\ fs[n].e = e /\ fs[n].i = i + 1
      /\ \A k \in 1 .. n : k < n => fs[k] = frames[k]
  BY <1>1, <1>2, <1>3, <1>6, <1>7 DEF Advances
<1>9. rval' = << >> /\ heap' = heap /\ root' = root
  BY DEF Advances
<1>10. \A d : Args(d)' = Args(d)
  BY <1>9 DEF Args, FuncOf
<1>11. \A p, kind : Is(p, kind)' <=> Is(p, kind)
  BY <1>9 DEF Is
<1>12. \A k \in 1 .. n : k < n \/ k = n
  BY <1>1
<1>13. ASSUME NEW k \in 1 .. n, k < n PROVE FrameOK(k)' /\ AtArg(k)'
  <2>1. FrameOK(k) /\ fs[k] = frames[k] /\ AtArg(k)
    BY <1>1, <1>8, <1>13 DEF Chain
  <2>. QED
    BY <1>6, <1>9, <1>10, <1>11, <2>1 DEF FrameOK, AtArg
<1>14. FrameOK(n)'
  BY <1>4, <1>5, <1>6, <1>8, <1>9, <1>10, <1>11 DEF FrameOK
<1>15. \A k \in DOMAIN frames' : FrameOK(k)'
  BY <1>6, <1>8, <1>12, <1>13, <1>14
<1>16. \A k \in 1 .. n : fs[k].e = frames[k].e
  BY <1>2, <1>8, <1>12
<1>17. ASSUME NEW k \in 1 .. n, k < n
       PROVE  AtArg(k)' /\ fs[k + 1].e = ArgExp(fs[k].e, fs[k].i + 1)
  <2>1. frames[k + 1].e = ArgExp(frames[k].e, frames[k].i + 1)
    BY <1>1, <1>17 DEF Chain
  <2>2. k + 1 \in 1 .. n /\ fs[k] = frames[k]
    BY <1>1, <1>8, <1>17
  <2>. QED
    BY <1>13, <1>16, <1>17, <2>1, <2>2
<1>18. (\A k \in DOMAIN frames : k < Len(frames) =>
          AtArg(k) /\ frames[k + 1].e = ArgExp(frames[k].e, frames[k].i + 1))'
  BY <1>6, <1>8, <1>9, <1>17 DEF ArgExp, FuncOf
<1>19. (\E C : frames \in Seq(Frames(C)))'
  BY <1>6, <1>7
<1>20. (\A j, k \in DOMAIN frames : j < k => frames[k].e < frames[j].e)'
  <2>1. \A j, k \in 1 .. n : j < k => frames[k].e < frames[j].e
    BY <1>1 DEF Chain
  <2>. QED
    BY <1>6, <1>8, <1>16, <2>1
<1>21. (frames # << >> => root # 0 /\ frames[1].e = root)'
  BY <1>1, <1>6, <1>8, <1>9, <1>16 DEF Chain, Advances
<1>. QED
  BY <1>9, <1>15, <1>18, <1>19, <1>20, <1>21 DEF Chain

(* and when one is over those below it are as they were. *)
LEMMA ReturnsChain ==
  ASSUME HeapOK, Chain, NEW val, Returns(val), UNCHANGED << heap, root >>
  PROVE  Chain' /\ Len(frames') = Len(frames) - 1 /\ \A k \in 1 .. Len(frames) - 1 : frames'[k] = frames[k]
<1>1. PICK n \in Nat \ {0} :
        /\ n = Len(frames) /\ DOMAIN frames = 1 .. n /\ n \in DOMAIN frames /\ 1 \in DOMAIN frames
        /\ \A k \in 1 .. n : frames[k].e \in Nat /\ frames[k].i \in Nat
  BY FramesAre DEF Returns
<1>2. PICK fs : fs = frames'
  OBVIOUS
<1>3. PICK B : frames \in Seq(Frames(B))
  BY DEF Chain
<1>4. PICK m \in Nat : m = n - 1
  BY <1>1
<1>5. /\ fs \in Seq(Frames(B)) /\ Len(fs) = m /\ DOMAIN fs = 1 .. m
      /\ \A k \in 1 .. m : fs[k] = frames[k] /\ k \in 1 .. n /\ k < n
  <2>1. fs = SubSeq(frames, 1, m)
    BY <1>1, <1>2, <1>4 DEF Returns, Return, Front
  <2>2. m <= Len(frames)
    BY <1>1, <1>4
  <2>3. fs \in Seq(Frames(B)) /\ Len(fs) = m /\ \A k \in 1 .. m : fs[k] = frames[k]
    BY <1>3, <1>4, <2>1, <2>2
  <2>4. \A k \in 1 .. m : k \in 1 .. n /\ k < n
    BY <1>1, <1>4
  <2>. QED
    BY <2>3, <2>4
<1>6. rval' = << val >> /\ heap' = heap /\ root' = root
  BY DEF Returns, Return
<1>7. \A d : Args(d)' = Args(d)
  BY <1>6 DEF Args, FuncOf
<1>8. \A p, kind : Is(p, kind)' <=> Is(p, kind)
  BY <1>6 DEF Is
<1>9. ASSUME NEW k \in 1 .. m PROVE FrameOK(k)' /\ AtArg(k)'
  <2>1. FrameOK(k) /\ fs[k] = frames[k] /\ AtArg(k)
    BY <1>1, <1>5 DEF Chain
  <2>. QED
    BY <1>2, <1>6, <1>7, <1>8, <2>1 DEF FrameOK, AtArg
<1>10. ASSUME NEW k \in 1 .. m, k < m
       PROVE  fs[k + 1].e = ArgExp(fs[k].e, fs[k].i + 1)
  <2>1. frames[k + 1].e = ArgExp(frames[k].e, frames[k].i + 1)
    BY <1>1, <1>5 DEF Chain
  <2>2. k + 1 \in 1 .. m
    BY <1>10
  <2>. QED
    BY <1>5, <2>1, <2>2
<1>11. (\A k \in DOMAIN frames : k < Len(frames) =>
          AtArg(k) /\ frames[k + 1].e = ArgExp(frames[k].e, frames[k].i + 1))'
  BY <1>2, <1>5, <1>6, <1>9, <1>10 DEF ArgExp, FuncOf
<1>12. (\E C : frames \in Seq(Frames(C)))'
  BY <1>2, <1>5
<1>13. (\A j, k \in DOMAIN frames : j < k => frames[k].e < frames[j].e)'
  <2>1. \A j, k \in 1 .. n : j < k => frames[k].e < frames[j].e
    BY <1>1 DEF Chain
  <2>. QED
    BY <1>2, <1>5, <2>1
<1>14. (frames # << >> => root # 0 /\ frames[1].e = root)'
  <2>1. fs # << >> => 1 \in 1 .. m
    BY <1>5, EmptySeq
  <2>2. root # 0 /\ frames[1].e = root
    BY <1>1 DEF Chain
  <2>. QED
    BY <1>2, <1>5, <1>6, <2>1, <2>2
<1>15. (frames # << >> => AtArg(Len(frames)))'
  <2>1. fs # << >> => m \in 1 .. m
    BY <1>4, <1>5, EmptySeq
  <2>2. fs # << >> => AtArg(m)'
    BY <1>9, <2>1
  <2>. QED
    BY <1>2, <1>5, <2>2 DEF AtArg
<1>16. \A k \in DOMAIN frames' : FrameOK(k)'
  BY <1>2, <1>5, <1>9
<1>17. Chain'
  BY <1>11, <1>12, <1>13, <1>14, <1>15, <1>16 DEF Chain
<1>. QED
  BY <1>1, <1>2, <1>4, <1>5, <1>17

(* A set of what frames hold can be taken larger. *)
LEMMA FramesWiden ==
  ASSUME NEW B, NEW C, NEW s \in Seq(Frames(B)), B \subseteq C
  PROVE  s \in Seq(Frames(C))
<1>1. Frames(B) \subseteq Frames(C)
  BY DEF Frames
<1>. QED
  BY <1>1

(* A stored argument goes to the frame. *)
LEMMA Stores ==
  ASSUME Chain, ExecStore, UNCHANGED pc
  PROVE  \/ Returns(NULL) /\ Refused(rval[1])
         \/ /\ Advances
            /\ frames'[Len(frames)].buf = SubSeq(Calls.buf, 1, Calls.i) \o << rval[1] >>
            /\ ~Refused(rval[1]) /\ Room(Calls.i)
<1>1. PICK n \in Nat \ {0} :
        /\ n = Len(frames) /\ DOMAIN frames = 1 .. n /\ n \in DOMAIN frames
        /\ Calls = frames[n]
  BY FramesAre DEF ExecStore
<1>2. PICK B : frames \in Seq(Frames(B))
  BY DEF Chain
<1>3. PICK val : val = rval[1]
  OBVIOUS
<1>4. PICK f : f = frames[n]
  OBVIOUS
<1>5. PICK buf : buf = SubSeq(f.buf, 1, f.i) \o << val >>
  OBVIOUS
<1>6. PICK g : g = [f EXCEPT !.i = f.i + 1, !.buf = buf]
  OBVIOUS
<1>7. PICK C : C = B \cup {buf}
  OBVIOUS
<1>8. frames \in Seq(Frames(C)) /\ f \in Frames(C)
  <2>1. frames \in Seq(Frames(C))
    BY <1>2, <1>7, FramesWiden
  <2>. QED
    BY <1>1, <1>4, <2>1
<1>9. g \in Frames(C) /\ g.e = f.e /\ g.i = f.i + 1 /\ g.buf = buf
  <2>1. /\ DOMAIN f = {"e", "i", "buf"} /\ f = [e |-> f.e, i |-> f.i, buf |-> f.buf]
        /\ f.e \in Nat /\ f.i \in Nat
    BY <1>8 DEF Frames
  <2>2. g = [e |-> f.e, i |-> f.i + 1, buf |-> buf]
    BY <1>6, <2>1
  <2>3. buf \in C
    BY <1>7
  <2>. QED
    BY <2>1, <2>2, <2>3 DEF Frames
<1>10. pc = "exec" /\ pc' = pc /\ frames # << >> /\ rval # << >>
  BY DEF ExecStore
<1>11. CASE Room(Calls.i) /\ Refused(val)
  BY <1>3, <1>10, <1>11 DEF ExecStore, Returns
<1>12. CASE Room(Calls.i) /\ ~Refused(val)
  <2>1. PICK fs : fs = Front(frames)
    OBVIOUS
  <2>2. rval' = << >> /\ frames' = Append(fs, g)
    <3>1. Calls = f
      BY <1>1, <1>4
    <3>. QED
      BY <1>3, <1>5, <1>6, <1>10, <1>12, <2>1, <3>1 DEF ExecStore, NextArg
  <2>3. fs \in Seq(Frames(C)) /\ Len(fs) = n - 1 /\ \A k \in 1 .. n - 1 : fs[k] = frames[k]
    <3>1. fs = SubSeq(frames, 1, n - 1)
      BY <1>1, <2>1 DEF Front
    <3>2. n - 1 \in Nat /\ n - 1 <= Len(frames)
      BY <1>1
    <3>. QED
      BY <1>8, <3>1, <3>2
  <2>4. PICK gs : gs = Append(fs, g)
    OBVIOUS
  <2>5. gs \in Seq(Frames(C)) /\ Len(gs) = n /\ gs[n] = g /\ \A k \in 1 .. n : k < n => gs[k] = frames[k]
    BY <1>1, <1>9, <2>3, <2>4
  <2>6. (\E D : frames \in Seq(Frames(D)))'
    BY <2>2, <2>4, <2>5
  <2>7. Advances
    BY <1>1, <1>4, <1>9, <1>10, <2>2, <2>4, <2>5, <2>6 DEF Advances
  <2>. QED
    BY <1>1, <1>3, <1>4, <1>5, <1>9, <1>12, <2>2, <2>4, <2>5, <2>7
<1>13. CASE ~Room(Calls.i)
  BY <1>10, <1>13 DEF ExecStore
<1>. QED
  BY <1>11, <1>12, <1>13

(* So does a freed one. *)
LEMMA FreeArgAdvances ==
  ASSUME Chain, FreeArg
  PROVE  Advances
<1>1. PICK n \in Nat \ {0} :
        /\ n = Len(frames) /\ DOMAIN frames = 1 .. n /\ n \in DOMAIN frames
        /\ Calls = frames[n]
  BY FramesAre DEF FreeArg
<1>2. PICK B : frames \in Seq(Frames(B))
  BY DEF Chain
<1>3. PICK f : f = frames[n]
  OBVIOUS
<1>4. PICK g : g = [f EXCEPT !.i = f.i + 1]
  OBVIOUS
<1>5. f \in Frames(B)
  BY <1>1, <1>2, <1>3
<1>6. g \in Frames(B) /\ g.e = f.e /\ g.i = f.i + 1
  BY <1>4, <1>5 DEF Frames
<1>7. frames' = [frames EXCEPT ![n] = g]
  BY <1>1, <1>3, <1>4 DEF FreeArg
<1>8. PICK gs : gs = frames'
  OBVIOUS
<1>9. /\ gs \in Seq(Frames(B)) /\ Len(gs) = n /\ gs[n] = g
      /\ \A k \in 1 .. n : k < n => gs[k] = frames[k]
  BY <1>1, <1>2, <1>6, <1>7, <1>8
<1>10. (\E D : frames \in Seq(Frames(D)))'
  BY <1>8, <1>9
<1>. QED
  BY <1>1, <1>3, <1>6, <1>8, <1>9, <1>10 DEF Advances, FreeArg, CellDue

(* What every step does to the frames. *)
LEMMA RunsAre ==
  ASSUME Chain, [Next]_vars, pc # "parse"
  PROVE  /\ UNCHANGED << text, parsing >>
         /\ \/ Exec /\ Starts
            \/ Destroy /\ (Starts \/ (root = 0 /\ frames' = << >> /\ rval' = << >>))
            \/ (ExecArg \/ DestroyArg) /\ Descends
            \/ ExecStore /\ UNCHANGED pc /\ (Advances \/ Returns(NULL))
            \/ FreeArg /\ Advances
            \/ (ExecLeaf \/ ExecCall \/ FreeExp) /\ UNCHANGED pc /\ rval = << >> /\ \E val : Returns(val)
            \/ /\ UNCHANGED << frames, rval, freed, p13n >>
               /\ \/ pc = "exec" /\ pc' = "undefined" /\ frames # << >> /\ (ExecStore \/ ExecCall)
                  \/ ExecDone \/ Destroyed
                  \/ UNCHANGED pc
<1>1. CASE Exec
  BY <1>1 DEF Exec, Starts
<1>2. CASE Destroy
  BY <1>2 DEF Destroy, Starts, parsing
<1>3. CASE ExecArg \/ DestroyArg
  <2>1. frames # << >> /\ Calls = frames[Len(frames)]
    BY <1>3 DEF ExecArg, DestroyArg, Calls, Last
  <2>. QED
    BY <1>3, <2>1 DEF ExecArg, DestroyArg, CellDue, Descends, AtArg, Args, Node
<1>4. CASE ExecStore
  <2>1. UNCHANGED pc => Advances \/ Returns(NULL)
    BY <1>4, Stores
  <2>2. ~UNCHANGED pc => pc' = "undefined" /\ UNCHANGED << frames, rval >>
    BY <1>4 DEF ExecStore
  <2>. QED
    BY <1>4, <2>1, <2>2 DEF ExecStore
<1>5. CASE FreeArg
  BY <1>5, FreeArgAdvances DEF FreeArg
<1>6. CASE ExecLeaf \/ FreeExp
  BY <1>6 DEF ExecLeaf, FreeExp, Returns, CellDue
<1>7. CASE ExecCall
  <2>1. PICK val : \/ val = Undefined /\ pc' = "undefined" /\ UNCHANGED << frames, rval >>
                   \/ val # Undefined /\ Return(val) /\ UNCHANGED pc
    BY <1>7 DEF ExecCall
  <2>. QED
    BY <1>7, <2>1 DEF ExecCall, Returns
<1>8. CASE ExecDone \/ Destroyed
  BY <1>8 DEF ExecDone, Destroyed, running
<1>9. CASE Over \/ UNCHANGED vars
  BY <1>9 DEF Over, vars, parsing
<1>10. ~(Shift \/ ReduceIdent \/ ReduceString \/ ReduceFunc \/ ReduceFirst \/ ReduceNext
         \/ ReduceCall \/ Accept \/ Error)
  BY DEF Shift, ReduceIdent, ReduceString, ReduceFunc, ReduceFirst, ReduceNext, ReduceCall, Accept, Error
<1>. QED
  BY <1>1, <1>2, <1>3, <1>4, <1>5, <1>6, <1>7, <1>8, <1>9, <1>10 DEF Next, Step

(* While there are no frames there is no chain to keep. *)
LEMMA NoFrames ==
  ASSUME frames' = << >>
  PROVE  Chain'
<1>1. (\E B : frames \in Seq(Frames(B)))'
  <2>1. << >> \in Seq(Frames({}))
    OBVIOUS
  <2>. QED
    BY <2>1
<1>. QED
  BY <1>1 DEF Chain

(* The stack that is left over has one expression, or nothing. *)
LEMMA Accepted ==
  ASSUME StackOK, Accept
  PROVE  /\ UNCHANGED << text, read, stack, heap, running >> /\ Ahead = "$end"
         /\ \/ stack = << >> /\ root' = 0
            \/ Len(stack) = 1 /\ stack[1].sym = "expression" /\ root' = stack[1].val
<1>1. UNCHANGED << text, read, stack, heap, running >> /\ Ahead = "$end"
  BY DEF Accept
<1>2. CASE stack = << >> /\ root' = 0
  BY <1>1, <1>2
<1>3. CASE Symbols = << "expression" >> /\ root' = Top.val
  <2>1. DOMAIN stack = DOMAIN Symbols /\ Len(Symbols) = 1 /\ Symbols[1] = "expression"
    BY <1>3 DEF Symbols
  <2>2. Len(stack) = 1 /\ stack[1].sym = "expression"
    BY <2>1, LenProperties DEF StackOK, Symbols
  <2>3. Top = stack[1]
    BY <2>2 DEF Top, Last
  <2>. QED
    BY <1>1, <1>3, <2>2, <2>3
<1>. QED
  BY <1>2, <1>3 DEF Accept

(* No call is made before the text is parsed. *)
LEMMA RunInit == Init => RunInv
<1> SUFFICES ASSUME Init PROVE RunInv
  OBVIOUS
<1>1. frames = << >> /\ rval = << >> /\ pc = "parse"
  BY DEF Init
<1>2. \E B : frames \in Seq(Frames(B))
  BY <1>1
<1>. QED
  BY <1>1, <1>2 DEF RunInv, Chain, Quiet

(* Every step of the program keeps the calls a path down the tree. *)
LEMMA RunStep == TypesInv /\ RunInv /\ [Next]_vars => RunInv'
<1> SUFFICES ASSUME TypesInv, RunInv, [Next]_vars PROVE RunInv'
  OBVIOUS
<1>1. HeapOK /\ StackOK /\ TextOK /\ (root # 0 => Is(root, "exp")) /\ Chain /\ Quiet
  BY DEF TypesInv, RunInv
<1>2. CASE pc = "parse"
  <2>1. frames = << >> /\ rval = << >>
    BY <1>1, <1>2 DEF Quiet
  <2>2. CASE UNCHANGED pc /\ UNCHANGED << frames, rval >>
    BY <1>2, <2>1, <2>2, NoFrames DEF RunInv, Quiet
  <2>3. CASE Accept
    BY <1>1, <2>1, <2>3, Accepted, NoFrames DEF RunInv, Quiet, Accept, running
  <2>4. CASE Error
    BY <2>1, <2>4, NoFrames DEF RunInv, Quiet, Error, running
  <2>. QED
    BY <1>1, <1>2, <2>2, <2>3, <2>4, StepsAre DEF running, vars
<1>3. CASE pc # "parse"
  <2>1. UNCHANGED << heap, root, stack >>
    BY <1>1, <1>3, RunsAre DEF parsing
  <2>2. Chain'
    <3>1. CASE UNCHANGED << frames, rval >>
      BY <1>1, <2>1, <3>1 DEF Chain, FrameOK, AtArg, Args, ArgExp, FuncOf, Is
    <3>. QED
      BY <1>1, <1>3, <2>1, <3>1, RunsAre, StartsChain, DescendsChain, AdvancesChain, ReturnsChain, NoFrames
  <2>3. pc = "exit" => UNCHANGED pc /\ UNCHANGED << frames, rval >>
    BY <1>1, <1>3, RunsAre DEF Quiet, Starts, Descends, Advances, Returns, Exec, Destroy, ExecArg,
       DestroyArg, ExecStore, FreeArg, ExecLeaf, ExecCall, FreeExp, ExecDone, Destroyed
  <2>4. pc' \notin {"parse", "compiled"} \/ UNCHANGED << pc, frames, rval >>
    BY <1>1, <1>3, RunsAre DEF Quiet, Starts, Descends, Advances, Returns, Exec, Destroy, ExecArg,
       DestroyArg, ExecStore, FreeArg, ExecLeaf, ExecCall, FreeExp, ExecDone, Destroyed
  <2>5. pc' \in {"executed", "destroyed"} => frames' = << >>
    BY <1>1, <1>3, RunsAre DEF Quiet, Starts, Descends, Advances, Returns, Exec, Destroy, ExecArg,
       DestroyArg, ExecStore, FreeArg, ExecLeaf, ExecCall, FreeExp, ExecDone, Destroyed
  <2>6. pc' = "exit" => pc = "exit"
    BY <1>1, <1>3, RunsAre DEF Quiet, Starts, Descends, Advances, Returns, Exec, Destroy, ExecArg,
       DestroyArg, ExecStore, FreeArg, ExecLeaf, ExecCall, FreeExp, ExecDone, Destroyed
  <2>7. Quiet'
    BY <1>1, <1>3, <2>1, <2>3, <2>4, <2>5, <2>6 DEF Quiet
  <2>. QED
    BY <2>2, <2>7 DEF RunInv
<1>. QED
  BY <1>2, <1>3

-----------------------------------------------------------------------------
(* What is freed, in an order in which nothing leads to it any more.       *)
InOrder(s) ==
  /\ s \in Seq(DOMAIN heap) /\ IsInjective(s)
  /\ \A k \in DOMAIN s : Pointers(s[k]) \subseteq {s[m] : m \in 1 .. k - 1}

(* What is left leads to what is freed in two places only: a call to the   *)
(* cells its frame is through with, and the next cell to its expression.   *)
Done(p, q) ==
  \E k \in DOMAIN frames :
    LET e == frames[k].e
    IN  /\ heap[e].type = "FUNC"
        /\ \/ q = heap[e].val /\ \E m \in 1 .. frames[k].i : p = Args(e)[m]
           \/ /\ CellDue /\ k = Len(frames) /\ frames[k].i < Len(Args(e))
              /\ q = Args(e)[frames[k].i + 1] /\ p = heap[q].exp

(* What destroy has freed so far: everything below it before it, nothing   *)
(* of the calls that are not over but the arguments they are past, and the *)
(* root when no call is left.                                              *)
DestroyInv ==
  /\ InOrder(freed)
  /\ \A q \in DOMAIN heap : q \notin Range(freed) =>
       \A p \in Pointers(q) : p \in Range(freed) => Done(p, q)
  /\ \A k \in DOMAIN frames :
       LET e == frames[k].e
       IN  /\ e \notin Range(freed)
           /\ heap[e].type = "FUNC" => \A m \in 1 .. frames[k].i : Args(e)[m] \in Range(freed)
  /\ CellDue /\ frames # << >> => ArgExp(Calls.e, Calls.i + 1) \in Range(freed)
  /\ frames = << >> /\ root # 0 => root \in Range(freed)

(* Nothing is freed before. *)
FreedInv == IF pc \in {"destroy", "destroyed"} THEN DestroyInv ELSE freed = << >>

(* Where nodes lead, by their kinds. *)
LEMMA PointersAre ==
  ASSUME HeapOK, NEW q
  PROVE  /\ Is(q, "exp") => Pointers(q) = {heap[q].val}
         /\ Is(q, "func") => Pointers(q) = {heap[q].name} \cup Range(heap[q].args)
         /\ Is(q, "p13n") => Pointers(q) = {heap[q].name}
         /\ Is(q, "arg") => Pointers(q) = {heap[q].exp}
         /\ Is(q, "str") => Pointers(q) = {}
  BY DEF Is, Pointers

(* An expression leads to one node, of the kind its type says. *)
LEMMA ExpIs ==
  ASSUME HeapOK, NEW e, Is(e, "exp")
  PROVE  /\ e \in Nat /\ heap[e].type \in {"STRING", "P13N", "FUNC"}
         /\ heap[e].type = "STRING" => Is(heap[e].val, "str")
         /\ heap[e].type = "P13N" => /\ Is(heap[e].val, "p13n") /\ Is(heap[heap[e].val].name, "str")
                                     /\ heap[heap[e].val].offset \in Range(FieldOf)
         /\ heap[e].type = "FUNC" => Is(heap[e].val, "func") /\ Is(heap[heap[e].val].name, "str")
<1>1. \A p \in DOMAIN heap : p \in Nat /\ heap[p] \in Nodes /\ NodeOK(p)
  BY LenProperties DEF HeapOK
<1>2. e \in Nat /\ heap[e] \in Nodes /\ heap[e].kind = "exp" /\ NodeOK(e)
  BY <1>1 DEF Is
<1>3. heap[e].type \in {"STRING", "P13N", "FUNC"}
  BY <1>2 DEF Nodes
<1>4. heap[e].type = "STRING" => Is(heap[e].val, "str")
  BY <1>2 DEF NodeOK
<1>5. heap[e].type = "FUNC" => Is(heap[e].val, "func")
  BY <1>2 DEF NodeOK
<1>6. heap[e].type = "P13N" => Is(heap[e].val, "p13n")
  BY <1>2 DEF NodeOK
<1>7. ASSUME NEW g, Is(g, "func") PROVE Is(heap[g].name, "str")
  BY <1>1, <1>7 DEF Is, NodeOK
<1>8. ASSUME NEW g, Is(g, "p13n") PROVE Is(heap[g].name, "str") /\ heap[g].offset \in Range(FieldOf)
  <2>1. heap[g] \in Nodes /\ heap[g].kind = "p13n" /\ NodeOK(g)
    BY <1>1, <1>8 DEF Is
  <2>. QED
    BY <2>1 DEF NodeOK, Nodes
<1>. QED
  BY <1>2, <1>3, <1>4, <1>5, <1>6, <1>7, <1>8

(* One more can be freed when everything it leads to is. *)
LEMMA FreesOneMore ==
  ASSUME NEW s, InOrder(s), NEW x \in DOMAIN heap, x \notin Range(s), Pointers(x) \subseteq Range(s)
  PROVE  InOrder(Append(s, x)) /\ Range(Append(s, x)) = Range(s) \cup {x}
<1>1. s \in Seq(DOMAIN heap) /\ IsInjective(s)
  BY DEF InOrder
<1>2. PICK n \in Nat : n = Len(s) /\ DOMAIN s = 1 .. n
  BY <1>1, LenProperties
<1>3. PICK t : t = Append(s, x)
  OBVIOUS
<1>4. t \in Seq(DOMAIN heap) /\ DOMAIN t = 1 .. n + 1 /\ t[n + 1] = x /\ \A k \in 1 .. n : t[k] = s[k]
  BY <1>1, <1>2, <1>3
<1>5. Range(t) = Range(s) \cup {x} /\ IsInjective(t)
  BY <1>1, <1>3, RangeOfAppended
<1>6. ASSUME NEW k \in 1 .. n + 1 PROVE Pointers(t[k]) \subseteq {t[m] : m \in 1 .. k - 1}
  <2>1. CASE k \in 1 .. n
    <3>1. \A m \in 1 .. k - 1 : t[m] = s[m]
      BY <1>2, <1>4, <2>1
    <3>2. Pointers(s[k]) \subseteq {s[m] : m \in 1 .. k - 1}
      BY <1>2, <2>1 DEF InOrder
    <3>3. t[k] = s[k]
      BY <1>4, <2>1
    <3>. QED
      BY <3>1, <3>2, <3>3
  <2>2. CASE k = n + 1
    <3>1. 1 .. k - 1 = 1 .. n
      BY <1>2, <2>2
    <3>2. Range(s) = {t[m] : m \in 1 .. n}
      BY <1>2, <1>4 DEF Range
    <3>. QED
      BY <1>4, <2>2, <3>1, <3>2
  <2>. QED
    BY <1>2, <2>1, <2>2
<1>7. t \in Seq(DOMAIN heap) /\ IsInjective(t)
  BY <1>4, <1>5
<1>8. \A k \in DOMAIN t : Pointers(t[k]) \subseteq {t[m] : m \in 1 .. k - 1}
  BY <1>4, <1>6
<1>9. InOrder(t) /\ Range(t) = Range(s) \cup {x}
  BY <1>5, <1>7, <1>8 DEF InOrder
<1>. QED
  BY <1>3, <1>9

(* Two or three appended one by one. *)
LEMMA AppendedInTurn ==
  ASSUME NEW S, NEW s \in Seq(S), NEW a, NEW b, NEW c
  PROVE  /\ s \o << a >> \o << c >> = Append(Append(s, a), c)
         /\ s \o << a, b >> \o << c >> = Append(Append(Append(s, a), b), c)
<1>1. PICK T : T = S \cup {a, b, c}
  OBVIOUS
<1>2. s \in Seq(T) /\ a \in T /\ b \in T /\ c \in T
  BY <1>1
<1>3. s \o << a >> = Append(s, a)
  BY <1>2
<1>4. Append(s, a) \o << c >> = Append(Append(s, a), c)
  BY <1>2
<1>5. s \o << a, b >> = Append(Append(s, a), b)
  <2>1. PICK u : u = s \o << a, b >>
    OBVIOUS
  <2>2. PICK w : w = Append(Append(s, a), b)
    OBVIOUS
  <2>3. PICK n \in Nat : n = Len(s) /\ DOMAIN s = 1 .. n
    BY LenProperties
  <2>4. Len(<< a, b >>) = 2 /\ << a, b >>[1] = a /\ << a, b >>[2] = b /\ << a, b >> \in Seq(T)
    BY <1>2
  <2>5. /\ u \in Seq(T) /\ Len(u) = n + 2 /\ (\A k \in 1 .. n : u[k] = s[k])
        /\ u[n + 1] = a /\ u[n + 2] = b
    BY <1>2, <2>1, <2>3, <2>4
  <2>6. /\ w \in Seq(T) /\ Len(w) = n + 2 /\ (\A k \in 1 .. n : w[k] = s[k])
        /\ w[n + 1] = a /\ w[n + 2] = b
    <3>1. PICK v : v = Append(s, a)
      OBVIOUS
    <3>2. v \in Seq(T) /\ Len(v) = n + 1 /\ v[n + 1] = a /\ \A k \in 1 .. n : v[k] = s[k]
      BY <1>2, <2>3, <3>1
    <3>3. \A k \in 1 .. n + 1 : k \in 1 .. n \/ k = n + 1
      BY <2>3
    <3>4. w \in Seq(T) /\ Len(w) = n + 2 /\ w[n + 2] = b /\ \A k \in 1 .. n + 1 : w[k] = v[k]
      BY <1>2, <2>2, <2>3, <3>1, <3>2
    <3>5. \A k \in 1 .. n : k \in 1 .. n + 1
      BY <2>3
    <3>6. n + 1 \in 1 .. n + 1
      BY <2>3
    <3>. QED
      BY <3>2, <3>4, <3>5, <3>6
  <2>7. \A k \in 1 .. n + 2 : k \in 1 .. n \/ k = n + 1 \/ k = n + 2
    BY <2>3
  <2>8. u = w
    <3>1. \A k \in 1 .. n + 2 : u[k] = w[k]
      BY <2>5, <2>6, <2>7
    <3>. QED
      BY <2>5, <2>6, <3>1, SeqEqual
  <2>. QED
    BY <2>1, <2>2, <2>8
<1>6. PICK w : w = Append(Append(s, a), b)
  OBVIOUS
<1>7. w \in Seq(T)
  BY <1>2, <1>6
<1>8. w \o << c >> = Append(w, c)
  BY <1>2, <1>7
<1>. QED
  BY <1>3, <1>4, <1>5, <1>6, <1>8

(* What is done is a call or a cell. *)
LEMMA DoneIs ==
  ASSUME HeapOK, Chain, NEW p, NEW q, Done(p, q)
  PROVE  \E k \in DOMAIN frames : \E d :
           /\ d = frames[k].e /\ Is(d, "exp") /\ heap[d].type = "FUNC"
           /\ \/ /\ q = heap[d].val /\ Is(q, "func") /\ Is(p, "arg")
                 /\ \E m \in 1 .. frames[k].i : m \in 1 .. Len(Args(d)) /\ p = Args(d)[m]
              \/ /\ CellDue /\ k = Len(frames) /\ frames[k].i < Len(Args(d))
                 /\ q = Args(d)[frames[k].i + 1] /\ Is(q, "arg") /\ p = heap[q].exp
<1>1. PICK k \in DOMAIN frames :
        /\ heap[frames[k].e].type = "FUNC"
        /\ \/ q = heap[frames[k].e].val /\ \E m \in 1 .. frames[k].i : p = Args(frames[k].e)[m]
           \/ /\ CellDue /\ k = Len(frames) /\ frames[k].i < Len(Args(frames[k].e))
              /\ q = Args(frames[k].e)[frames[k].i + 1] /\ p = heap[q].exp
  BY DEF Done
<1>2. PICK d : d = frames[k].e
  OBVIOUS
<1>3. PICK i \in Nat : i = frames[k].i
  BY FramesAre
<1>4. Is(d, "exp") /\ i <= Len(Args(d))
  BY <1>1, <1>2, <1>3 DEF Chain, FrameOK
<1>5. Is(heap[d].val, "func") /\ Len(Args(d)) \in Nat /\ \A m \in 1 .. Len(Args(d)) : Is(Args(d)[m], "arg")
  BY <1>1, <1>2, <1>4, CallIs
<1>6. \A m \in 1 .. i : m \in 1 .. Len(Args(d))
  BY <1>3, <1>4, <1>5
<1>7. i < Len(Args(d)) => i + 1 \in 1 .. Len(Args(d))
  BY <1>3, <1>5
<1>. QED
  BY <1>1, <1>2, <1>3, <1>4, <1>5, <1>6, <1>7

(* Of the topmost frame's expression nothing is freed but the cells it is  *)
(* through with.                                                           *)
LEMMA Unfreed ==
  ASSUME HeapOK, NEW o, Owned(o), Once, Chain, DestroyInv,
         NEW n, n \in DOMAIN frames, n = Len(frames), NEW e, e = frames[n].e, NEW i, i = frames[n].i
  PROVE  /\ Is(e, "exp") /\ i \in Nat /\ e \notin Range(freed) /\ heap[e].val \notin Range(freed)
         /\ heap[e].type \in {"P13N", "FUNC"} => heap[heap[e].val].name \notin Range(freed)
         /\ AtArg(n) => /\ Args(e)[i + 1] \notin Range(freed)
                        /\ ~CellDue => ArgExp(e, i + 1) \notin Range(freed)
<1>1. Is(e, "exp") /\ i \in Nat /\ e \notin Range(freed)
  BY FramesAre DEF Chain, FrameOK, DestroyInv
<1>2. PICK g : g = heap[e].val
  OBVIOUS
<1>3. \A p, q : Is(q, "exp") \/ Is(q, "p13n") \/ (Is(q, "func") /\ ~Is(p, "arg")) => ~Done(p, q)
  BY DoneIs DEF Is
<1>4. \A q \in DOMAIN heap : q \notin Range(freed) => \A p \in Pointers(q) : p \in Range(freed) => Done(p, q)
  BY DEF DestroyInv
<1>5. g \notin Range(freed)
  <2>1. Pointers(e) = {g} /\ e \in DOMAIN heap
    BY <1>1, <1>2, PointersAre DEF Is
  <2>. QED
    BY <1>1, <1>3, <1>4, <2>1
<1>6. heap[e].type \in {"P13N", "FUNC"} => heap[g].name \notin Range(freed)
  <2>1. SUFFICES ASSUME heap[e].type \in {"P13N", "FUNC"} PROVE heap[g].name \notin Range(freed)
    OBVIOUS
  <2>2. (Is(g, "p13n") \/ Is(g, "func")) /\ Is(heap[g].name, "str")
    BY <1>1, <1>2, <2>1, ExpIs
  <2>3. heap[g].name \in Pointers(g) /\ g \in DOMAIN heap
    BY <2>2, PointersAre DEF Is
  <2>4. ~Is(heap[g].name, "arg")
    BY <2>2 DEF Is
  <2>. QED
    BY <1>3, <1>4, <1>5, <2>2, <2>3, <2>4
<1>7. ASSUME AtArg(n)
      PROVE  Args(e)[i + 1] \notin Range(freed) /\ (~CellDue => ArgExp(e, i + 1) \notin Range(freed))
  <2>1. heap[e].type = "FUNC" /\ i < Len(Args(e))
    BY <1>7 DEF AtArg
  <2>2. PICK args : args = Args(e)
    OBVIOUS
  <2>3. Is(g, "func") /\ args = heap[g].args /\ DOMAIN args = 1 .. Len(args) /\ Len(args) \in Nat
    BY <1>1, <1>2, <2>1, <2>2, CallIs DEF Args
  <2>4. i + 1 \in DOMAIN args
    BY <1>1, <2>1, <2>2, <2>3
  <2>5. PICK a : a = args[i + 1]
    OBVIOUS
  <2>6. Is(a, "arg") /\ ArgExp(e, i + 1) = heap[a].exp /\ Is(heap[a].exp, "exp")
    BY <1>1, <2>1, <2>2, <2>3, <2>4, <2>5, CallIs
  <2>7. a \in Pointers(g) /\ g \in DOMAIN heap /\ a \in DOMAIN heap
    BY <2>3, <2>4, <2>5, <2>6, PointersAre DEF Is, Range
  <2>8. a \notin Range(freed)
    <3>1. SUFFICES ASSUME a \in Range(freed) PROVE FALSE
      OBVIOUS
    <3>2. Done(a, g)
      BY <1>4, <1>5, <2>7, <3>1
    <3>3. PICK k, d :
            /\ k \in DOMAIN frames /\ d = frames[k].e /\ Is(d, "exp") /\ heap[d].type = "FUNC"
            /\ g = heap[d].val
            /\ \E m \in 1 .. frames[k].i : m \in 1 .. Len(Args(d)) /\ a = Args(d)[m]
      <4>1. ~Is(g, "arg")
        BY <2>3 DEF Is
      <4>. QED
        BY <3>2, <4>1, DoneIs
    <3>4. d = e
      <4>1. Pointers(d) = {g} /\ d \in DOMAIN heap
        BY <3>3, PointersAre DEF Is
      <4>2. Pointers(e) = {g} /\ e \in DOMAIN heap
        BY <1>1, <1>2, PointersAre DEF Is
      <4>3. \A q \in DOMAIN heap : \A p \in Pointers(q) : o[p] = q
        BY DEF Owned
      <4>. QED
        BY <4>1, <4>2, <4>3
    <3>5. k = n
      <4>1. k \in Nat /\ n \in Nat /\ k <= n
        BY <1>1, <3>3, FramesAre
      <4>2. e \in Nat
        BY <1>1, FramesAre DEF Is
      <4>3. k < n => frames[n].e < frames[k].e
        BY <3>3 DEF Chain
      <4>. QED
        BY <3>3, <3>4, <4>1, <4>2, <4>3
    <3>6. PICK m \in 1 .. i : m \in DOMAIN args /\ a = args[m]
      BY <2>2, <2>3, <3>3, <3>4, <3>5
    <3>7. m = i + 1
      BY <2>3, <2>4, <2>5, <2>7, <3>6 DEF Once, IsInjective, Is
    <3>. QED
      BY <1>1, <3>6, <3>7
  <2>9. ~CellDue => heap[a].exp \notin Range(freed)
    <3>1. SUFFICES ASSUME ~CellDue, heap[a].exp \in Range(freed) PROVE FALSE
      OBVIOUS
    <3>2. Pointers(a) = {heap[a].exp}
      BY <2>6, PointersAre
    <3>3. Done(heap[a].exp, a)
      BY <1>4, <2>7, <2>8, <3>1, <3>2
    <3>4. ~Is(a, "func")
      BY <2>6 DEF Is
    <3>. QED
      BY <3>1, <3>3, <3>4, DoneIs
  <2>. QED
    BY <2>2, <2>5, <2>6, <2>8, <2>9
<1>. QED
  BY <1>1, <1>2, <1>5, <1>6, <1>7

(* While the heap stays, so does everything that is said of it. *)
LEMMA HeapStays ==
  ASSUME UNCHANGED heap
  PROVE  /\ \A p : Pointers(p)' = Pointers(p)
         /\ \A p, kind : Is(p, kind)' <=> Is(p, kind)
         /\ \A e : Args(e)' = Args(e) /\ FuncOf(e)' = FuncOf(e)
         /\ \A e, m : ArgExp(e, m)' = ArgExp(e, m)
         /\ \A s : InOrder(s)' <=> InOrder(s)
<1>1. heap' = heap
  OBVIOUS
<1>2. \A p : Pointers(p)' = Pointers(p)
  BY <1>1 DEF Pointers
<1>3. \A e : Args(e)' = Args(e) /\ FuncOf(e)' = FuncOf(e)
  BY <1>1 DEF Args, FuncOf
<1>4. \A e, m : ArgExp(e, m)' = ArgExp(e, m)
  BY <1>1 DEF ArgExp, FuncOf
<1>5. \A s : InOrder(s)' <=> InOrder(s)
  BY <1>1, <1>2 DEF InOrder
<1>6. \A p, kind : Is(p, kind)' <=> Is(p, kind)
  BY <1>1 DEF Is
<1>. QED
  BY <1>2, <1>3, <1>4, <1>5, <1>6

(* The order of what is freed depends on the heap and on nothing else. *)
LEMMA OrderStays ==
  ASSUME UNCHANGED heap, NEW s, InOrder(s), freed' = s
  PROVE  InOrder(freed)'
<1>1. \A p : Pointers(p)' = Pointers(p)
  BY HeapStays
<1>. QED
  BY <1>1 DEF InOrder

(* The frame of an argument is put on the others. *)
LEMMA DescendsTo ==
  ASSUME Chain, Descends, NEW n, n = Len(frames), NEW x, x = ArgExp(Calls.e, Calls.i + 1)
  PROVE  /\ n \in Nat \ {0} /\ Len(frames') = n + 1 /\ DOMAIN frames' = 1 .. n + 1
         /\ DOMAIN frames = 1 .. n
         /\ \A k \in 1 .. n : frames'[k] = frames[k]
         /\ frames'[n + 1].e = x /\ frames'[n + 1].i = 0 /\ frames'[n + 1].buf = << >>
<1>1. n \in Nat \ {0} /\ DOMAIN frames = 1 .. n
  BY FramesAre DEF Descends
<1>2. PICK B : frames \in Seq(Frames(B))
  BY DEF Chain
<1>3. PICK f : f = Frame(x)
  OBVIOUS
<1>4. PICK S : S = Frames(B) \cup {f}
  OBVIOUS
<1>5. frames \in Seq(S) /\ f \in S
  BY <1>2, <1>4
<1>6. PICK fs : fs = Append(frames, f)
  OBVIOUS
<1>7. Len(fs) = n + 1 /\ DOMAIN fs = 1 .. n + 1 /\ fs[n + 1] = f /\ \A k \in 1 .. n : fs[k] = frames[k]
  BY <1>1, <1>5, <1>6
<1>8. frames' = fs
  BY <1>3, <1>6 DEF Descends
<1>9. f.e = x /\ f.i = 0 /\ f.buf = << >>
  BY <1>3 DEF Frame
<1>. QED
  BY <1>1, <1>7, <1>8, <1>9

(* A call of destroy for an argument keeps what is true of what is freed, *)
LEMMA DestroyArgFrees ==
  ASSUME HeapOK, NEW o, Owned(o), Once, Chain, DestroyInv, DestroyArg, Descends,
         UNCHANGED << heap, root >>
  PROVE  DestroyInv'
<1>1. PICK n \in Nat \ {0} : n = Len(frames) /\ n \in DOMAIN frames /\ Calls = frames[n]
  BY FramesAre DEF Descends
<1>2. PICK e : e = frames[n].e
  OBVIOUS
<1>3. PICK i : i = frames[n].i
  OBVIOUS
<1>4. PICK x : x = ArgExp(e, i + 1)
  OBVIOUS
<1>5. x \notin Range(freed)
  BY <1>1, <1>2, <1>3, <1>4, Unfreed DEF Descends, CellDue
<1>6. /\ DOMAIN frames' = 1 .. n + 1 /\ DOMAIN frames = 1 .. n
      /\ \A k \in 1 .. n : frames'[k] = frames[k]
      /\ frames'[n + 1].e = x /\ frames'[n + 1].i = 0
  BY <1>1, <1>2, <1>3, <1>4, DescendsTo
<1>7. freed' = freed /\ rval = << >> /\ rval' = << >> /\ root' = root /\ heap' = heap
  BY DEF DestroyArg, Descends
<1>8. \A k \in 1 .. n + 1 : k \in 1 .. n \/ k = n + 1
  OBVIOUS
<1>9. ASSUME NEW p, NEW q, Done(p, q) PROVE Done(p, q)'
  <2>1. PICK k \in DOMAIN frames :
          /\ heap[frames[k].e].type = "FUNC" /\ q = heap[frames[k].e].val
          /\ \E m \in 1 .. frames[k].i : p = Args(frames[k].e)[m]
    BY <1>7, <1>9 DEF Done, CellDue
  <2>2. k \in DOMAIN frames' /\ frames'[k] = frames[k]
    BY <1>6, <2>1
  <2>. QED
    BY <1>7, <2>1, <2>2, HeapStays DEF Done
<1>10. InOrder(freed)'
  BY <1>7, HeapStays DEF DestroyInv, InOrder
<1>11. (\A q \in DOMAIN heap : q \notin Range(freed) =>
          \A p \in Pointers(q) : p \in Range(freed) => Done(p, q))'
  BY <1>7, <1>9, HeapStays DEF DestroyInv
<1>12. ASSUME NEW k \in 1 .. n + 1
       PROVE  /\ frames'[k].e \notin Range(freed)
              /\ heap[frames'[k].e].type = "FUNC" =>
                   \A m \in 1 .. frames'[k].i : Args(frames'[k].e)[m] \in Range(freed)
  <2>1. CASE k \in 1 .. n
    BY <1>6, <2>1 DEF DestroyInv
  <2>2. CASE k = n + 1
    <3>1. \A m \in 1 .. frames'[k].i : FALSE
      BY <1>6, <2>2
    <3>. QED
      BY <1>5, <1>6, <2>2, <3>1
  <2>. QED
    BY <1>8, <2>1, <2>2
<1>13. (\A k \in DOMAIN frames :
          LET d == frames[k].e
          IN  /\ d \notin Range(freed)
              /\ heap[d].type = "FUNC" => \A m \in 1 .. frames[k].i : Args(d)[m] \in Range(freed))'
  BY <1>6, <1>7, <1>12 DEF Args, FuncOf
<1>14. frames' # << >>
  BY <1>6
<1>. QED
  BY <1>7, <1>10, <1>11, <1>13, <1>14 DEF DestroyInv, CellDue

(* so does a cell that is freed, *)
LEMMA FreeArgFrees ==
  ASSUME HeapOK, NEW o, Owned(o), Once, Chain, DestroyInv, FreeArg, Advances,
         UNCHANGED << heap, root >>
  PROVE  DestroyInv'
<1>1. PICK n \in Nat \ {0} :
        n = Len(frames) /\ n \in DOMAIN frames /\ DOMAIN frames = 1 .. n /\ Calls = frames[n]
  BY FramesAre DEF Advances
<1>2. PICK e : e = frames[n].e
  OBVIOUS
<1>3. PICK i : i = frames[n].i
  OBVIOUS
<1>4. PICK a : a = Args(e)[i + 1]
  OBVIOUS
<1>5. AtArg(n) /\ rval # << >> /\ rval' = << >> /\ root' = root /\ heap' = heap
  BY <1>1 DEF Chain, Advances
<1>6. i \in Nat /\ Is(e, "exp") /\ e \notin Range(freed) /\ a \notin Range(freed)
  BY <1>1, <1>2, <1>3, <1>4, <1>5, Unfreed
<1>7. heap[e].type = "FUNC" /\ i < Len(Args(e)) /\ Len(Args(e)) \in Nat /\ DOMAIN Args(e) = 1 .. Len(Args(e))
  BY <1>2, <1>3, <1>5, <1>6, CallIs DEF AtArg
<1>8. i + 1 \in 1 .. Len(Args(e))
  BY <1>6, <1>7
<1>9. Is(a, "arg") /\ ArgExp(e, i + 1) = heap[a].exp
  BY <1>4, <1>6, <1>7, <1>8, CallIs
<1>10. Pointers(a) = {ArgExp(e, i + 1)} /\ ArgExp(e, i + 1) \in Range(freed) /\ a \in DOMAIN heap
  BY <1>1, <1>2, <1>3, <1>5, <1>9, PointersAre DEF DestroyInv, CellDue, Advances, Is
<1>11. freed' = Append(freed, a)
  BY <1>1, <1>2, <1>3, <1>4 DEF FreeArg, Args
<1>12. InOrder(Append(freed, a)) /\ Range(Append(freed, a)) = Range(freed) \cup {a}
  BY <1>6, <1>10, FreesOneMore DEF DestroyInv
<1>13. PICK fs : fs = frames'
  OBVIOUS
<1>14. /\ DOMAIN fs = 1 .. n /\ fs[n].e = e /\ fs[n].i = i + 1
       /\ \A k \in 1 .. n : k < n => fs[k] = frames[k]
  <2>1. PICK B : fs \in Seq(Frames(B))
    BY <1>13 DEF Advances
  <2>2. Len(fs) = n
    BY <1>1, <1>13 DEF Advances
  <2>3. DOMAIN fs = 1 .. n
    BY <2>1, <2>2
  <2>. QED
    BY <1>1, <1>2, <1>3, <1>13, <2>3 DEF Advances
<1>15. \A k \in 1 .. n : fs[k].e = frames[k].e /\ (k = n \/ fs[k] = frames[k])
  BY <1>1, <1>2, <1>14
<1>16. PICK g : g = heap[e].val
  OBVIOUS
<1>17. Is(g, "func") /\ Args(e) = heap[g].args
  BY <1>6, <1>7, <1>16, CallIs DEF Args
<1>18. g \in DOMAIN heap /\ a \in Pointers(g)
  BY <1>4, <1>7, <1>8, <1>17, PointersAre DEF Is, Range
<1>19. ASSUME NEW p, NEW q, Done(p, q), q # a PROVE Done(p, q)'
  <2>1. PICK k \in DOMAIN frames :
          /\ heap[frames[k].e].type = "FUNC"
          /\ \/ q = heap[frames[k].e].val /\ \E m \in 1 .. frames[k].i : p = Args(frames[k].e)[m]
             \/ k = Len(frames) /\ q = Args(frames[k].e)[frames[k].i + 1]
    BY <1>19 DEF Done
  <2>2. q = heap[frames[k].e].val /\ \E m \in 1 .. frames[k].i : p = Args(frames[k].e)[m]
    BY <1>1, <1>2, <1>3, <1>4, <1>19, <2>1
  <2>3. k \in DOMAIN fs /\ fs[k].e = frames[k].e
    BY <1>1, <1>14, <1>15
  <2>4. \A m \in 1 .. frames[k].i : m \in 1 .. fs[k].i
    BY <1>1, <1>3, <1>6, <1>14, <1>15
  <2>5. heap[fs[k].e].type = "FUNC" /\ q = heap[fs[k].e].val /\ \E m \in 1 .. fs[k].i : p = Args(fs[k].e)[m]
    BY <2>1, <2>2, <2>3, <2>4
  <2>. QED
    BY <1>5, <1>13, <2>3, <2>5 DEF Done, Args, FuncOf
<1>20. Done(a, g)'
  <2>1. n \in DOMAIN fs /\ i + 1 \in 1 .. fs[n].i /\ heap[fs[n].e].type = "FUNC" /\ g = heap[fs[n].e].val
    BY <1>6, <1>7, <1>14, <1>16
  <2>2. a = Args(fs[n].e)[i + 1]
    BY <1>4, <1>14
  <2>. QED
    BY <1>5, <1>13, <2>1, <2>2 DEF Done, Args, FuncOf
<1>21. InOrder(freed)'
  <2>1. PICK s : s = Append(freed, a)
    OBVIOUS
  <2>. QED
    BY <1>5, <1>11, <1>12, <2>1, OrderStays
<1>22. ASSUME NEW q \in DOMAIN heap, q \notin Range(freed) \cup {a}, NEW p \in Pointers(q),
              p \in Range(freed) \cup {a}
       PROVE  Done(p, q)'
  <2>1. CASE p \in Range(freed)
    BY <1>19, <1>22, <2>1 DEF DestroyInv
  <2>2. CASE p = a
    <3>1. q = g
      BY <1>18, <1>22, <2>2 DEF Owned
    <3>. QED
      BY <1>20, <2>2, <3>1
  <2>. QED
    BY <1>22, <2>1, <2>2
<1>23. (\A q \in DOMAIN heap : q \notin Range(freed) =>
          \A p \in Pointers(q) : p \in Range(freed) => Done(p, q))'
  <2>1. \A q : Pointers(q)' = Pointers(q)
    BY <1>5, HeapStays
  <2>. QED
    BY <1>5, <1>11, <1>12, <1>22, <2>1
<1>24. ASSUME NEW k \in 1 .. n
       PROVE  /\ fs[k].e \notin Range(freed) \cup {a}
              /\ heap[fs[k].e].type = "FUNC" =>
                   \A m \in 1 .. fs[k].i : Args(fs[k].e)[m] \in Range(freed) \cup {a}
  <2>1. fs[k].e # a
    <3>1. Is(fs[k].e, "exp")
      BY <1>1, <1>15 DEF Chain, FrameOK
    <3>. QED
      BY <1>9, <3>1 DEF Is
  <2>2. fs[k].e \notin Range(freed)
    BY <1>1, <1>15 DEF DestroyInv
  <2>3. CASE fs[k] = frames[k]
    BY <1>1, <2>1, <2>2, <2>3 DEF DestroyInv
  <2>4. CASE k = n
    <3>1. \A m \in 1 .. i + 1 : m \in 1 .. i \/ m = i + 1
      BY <1>6
    <3>2. \A m \in 1 .. i : Args(e)[m] \in Range(freed)
      BY <1>1, <1>2, <1>3, <1>7 DEF DestroyInv
    <3>. QED
      BY <1>4, <1>14, <2>1, <2>2, <2>4, <3>1, <3>2
  <2>. QED
    BY <1>15, <2>3, <2>4
<1>25. (\A k \in DOMAIN frames :
          LET d == frames[k].e
          IN  /\ d \notin Range(freed)
              /\ heap[d].type = "FUNC" => \A m \in 1 .. frames[k].i : Args(d)[m] \in Range(freed))'
  BY <1>5, <1>11, <1>12, <1>13, <1>14, <1>24 DEF Args, FuncOf
<1>26. frames' # << >>
  BY <1>1, <1>13, <1>14
<1>. QED
  BY <1>5, <1>21, <1>23, <1>25, <1>26 DEF DestroyInv, CellDue

(* What an expression is freed with, in order. *)
LEMMA ExpFreed ==
  ASSUME HeapOK, NEW e, Is(e, "exp"), NEW s, InOrder(s), e \notin Range(s), heap[e].val \notin Range(s),
         heap[e].type \in {"P13N", "FUNC"} => heap[heap[e].val].name \notin Range(s),
         heap[e].type = "FUNC" => Range(Args(e)) \subseteq Range(s)
  PROVE  \E w : /\ w = s \o Parts(e) \o << e >> /\ InOrder(w)
               /\ Range(w) = Range(s) \cup Range(Parts(e)) \cup {e}
<1>1. PICK v : v = heap[e].val
  OBVIOUS
<1>2. PICK name : name = heap[v].name
  OBVIOUS
<1>3. s \in Seq(DOMAIN heap) /\ e \in DOMAIN heap /\ Pointers(e) = {v}
  BY <1>1, PointersAre DEF InOrder, Is
<1>4. CASE heap[e].type = "STRING"
  <2>1. Is(v, "str") /\ Pointers(v) = {} /\ v \in DOMAIN heap /\ v # e
    BY <1>1, <1>4, ExpIs, PointersAre DEF Is
  <2>2. PICK t : t = Append(s, v)
    OBVIOUS
  <2>3. InOrder(t) /\ Range(t) = Range(s) \cup {v}
    BY <1>1, <2>1, <2>2, FreesOneMore
  <2>4. PICK w : w = Append(t, e)
    OBVIOUS
  <2>5. InOrder(w) /\ Range(w) = Range(t) \cup {e}
    BY <1>3, <2>1, <2>3, <2>4, FreesOneMore
  <2>6. Parts(e) = << v >> /\ w = s \o << v >> \o << e >>
    <3>1. Parts(e) = << v >>
      BY <1>1, <1>4 DEF Parts
    <3>2. s \o << v >> \o << e >> = Append(Append(s, v), e)
      BY <1>3, AppendedInTurn
    <3>. QED
      BY <2>2, <2>4, <3>1, <3>2
  <2>7. Range(<< v >>) = {v}
    BY DEF Range
  <2>. QED
    BY <2>3, <2>5, <2>6, <2>7
<1>5. CASE heap[e].type \in {"P13N", "FUNC"}
  <2>1. Is(v, "p13n") \/ Is(v, "func")
    BY <1>1, <1>5, ExpIs
  <2>2. Is(name, "str") /\ name \in DOMAIN heap /\ v \in DOMAIN heap /\ v # e /\ name # e /\ name # v
    BY <1>1, <1>2, <1>5, <2>1, ExpIs DEF Is
  <2>3. Pointers(name) = {}
    BY <2>2, PointersAre
  <2>4. Pointers(v) \subseteq Range(s) \cup {name}
    <3>1. CASE Is(v, "p13n")
      BY <1>2, <3>1, PointersAre
    <3>2. CASE Is(v, "func")
      <4>1. heap[e].type = "FUNC"
        BY <1>1, <1>5, <3>2, ExpIs DEF Is
      <4>2. Args(e) = heap[v].args
        BY <1>1 DEF Args, FuncOf
      <4>. QED
        BY <1>2, <3>2, <4>1, <4>2, PointersAre
    <3>. QED
      BY <2>1, <3>1, <3>2
  <2>5. PICK t : t = Append(s, name)
    OBVIOUS
  <2>6. InOrder(t) /\ Range(t) = Range(s) \cup {name}
    BY <1>1, <1>2, <1>5, <2>2, <2>3, <2>5, FreesOneMore
  <2>7. PICK u : u = Append(t, v)
    OBVIOUS
  <2>8. InOrder(u) /\ Range(u) = Range(t) \cup {v}
    BY <1>1, <2>2, <2>4, <2>6, <2>7, FreesOneMore
  <2>9. PICK w : w = Append(u, e)
    OBVIOUS
  <2>10. InOrder(w) /\ Range(w) = Range(u) \cup {e}
    BY <1>3, <2>2, <2>6, <2>8, <2>9, FreesOneMore
  <2>11. Parts(e) = << name, v >> /\ w = s \o << name, v >> \o << e >>
    BY <1>1, <1>2, <1>3, <1>5, <2>5, <2>7, <2>9, AppendedInTurn DEF Parts
  <2>12. Range(<< name, v >>) = {name, v}
    BY DEF Range
  <2>. QED
    BY <2>6, <2>8, <2>10, <2>11, <2>12
<1>. QED
  BY <1>4, <1>5, ExpIs

(* A tree's expressions are the root or in the cell before their frame. *)
LEMMA FreeExpFrees ==
  ASSUME HeapOK, NEW o, Owned(o), Once, Chain, DestroyInv, FreeExp, Returns(NULL),
         UNCHANGED << heap, root >>, \A q \in DOMAIN heap : root \notin Pointers(q)
  PROVE  DestroyInv'
<1>1. PICK n \in Nat \ {0} :
        n = Len(frames) /\ n \in DOMAIN frames /\ DOMAIN frames = 1 .. n /\ Calls = frames[n]
  BY FramesAre DEF Returns
<1>2. PICK e : e = frames[n].e
  OBVIOUS
<1>3. PICK i : i = frames[n].i
  OBVIOUS
<1>4. /\ rval = << >> /\ rval' = << NULL >> /\ root' = root /\ heap' = heap
      /\ heap[e].type = "FUNC" => i = Len(Args(e))
      /\ freed' = freed \o Parts(e) \o << e >>
  BY <1>1, <1>2, <1>3 DEF FreeExp, Return, CellDue, Node, Args
<1>5. /\ Is(e, "exp") /\ i \in Nat /\ e \notin Range(freed) /\ heap[e].val \notin Range(freed)
      /\ heap[e].type \in {"P13N", "FUNC"} => heap[heap[e].val].name \notin Range(freed)
  BY <1>1, <1>2, <1>3, Unfreed
<1>6. PICK v : v = heap[e].val
  OBVIOUS
<1>7. PICK V : V = Range(Parts(e)) \cup {e}
  OBVIOUS
<1>8. heap[e].type = "FUNC" => Range(Args(e)) \subseteq Range(freed)
  <2>1. SUFFICES ASSUME heap[e].type = "FUNC" PROVE Range(Args(e)) \subseteq Range(freed)
    OBVIOUS
  <2>2. DOMAIN Args(e) = 1 .. i
    BY <1>4, <1>5, <2>1, CallIs
  <2>3. \A m \in 1 .. i : Args(e)[m] \in Range(freed)
    BY <1>1, <1>2, <1>3, <2>1 DEF DestroyInv
  <2>. QED
    BY <2>2, <2>3 DEF Range
<1>9. PICK w : /\ w = freed' /\ InOrder(w) /\ Range(w) = Range(freed) \cup V
  <2>1. PICK s : s = freed
    OBVIOUS
  <2>2. InOrder(s)
    BY <2>1 DEF DestroyInv
  <2>3. \E w : w = s \o Parts(e) \o << e >> /\ InOrder(w) /\ Range(w) = Range(s) \cup Range(Parts(e)) \cup {e}
    BY <1>5, <1>8, <2>1, <2>2, ExpFreed
  <2>. QED
    BY <1>4, <1>7, <2>1, <2>3
<1>10. InOrder(freed)'
  BY <1>4, <1>9, OrderStays
<1>11. /\ V \subseteq DOMAIN heap /\ e \in V /\ v \in V
       /\ \A p \in V : p = e \/ (p = v /\ ~Is(v, "exp"))
                      \/ (p = heap[v].name /\ Is(p, "str") /\ (Is(v, "p13n") \/ Is(v, "func")))
  <2>1. CASE heap[e].type = "STRING"
    <3>1. Is(v, "str") /\ Parts(e) = << v >> /\ Range(<< v >>) = {v}
      BY <1>5, <1>6, <2>1, ExpIs DEF Parts, Range
    <3>. QED
      BY <1>5, <1>7, <3>1 DEF Is
  <2>2. CASE heap[e].type \in {"P13N", "FUNC"}
    <3>1. /\ Is(v, "p13n") \/ Is(v, "func")
          /\ Is(heap[v].name, "str") /\ Parts(e) = << heap[v].name, v >>
      BY <1>5, <1>6, <2>2, ExpIs DEF Parts
    <3>2. Range(<< heap[v].name, v >>) = {heap[v].name, v}
      BY DEF Range
    <3>. QED
      BY <1>5, <1>7, <3>1, <3>2 DEF Is
  <2>. QED
    BY <1>5, <2>1, <2>2, ExpIs
<1>12. PICK fs : fs = frames'
  OBVIOUS
<1>13. Len(fs) = n - 1 /\ DOMAIN fs = 1 .. n - 1 /\ \A k \in 1 .. n - 1 : fs[k] = frames[k]
  <2>1. Chain' /\ Len(fs) = n - 1 /\ \A k \in 1 .. n - 1 : fs[k] = frames[k]
    BY <1>1, <1>12, ReturnsChain
  <2>2. PICK B : fs \in Seq(Frames(B))
    BY <1>12, <2>1 DEF Chain
  <2>. QED
    BY <2>1, <2>2
<1>14. \A k \in 1 .. n - 1 : k \in DOMAIN frames /\ k < n /\ k \in DOMAIN fs
  BY <1>1, <1>13
<1>15. n > 1 => /\ n - 1 \in DOMAIN frames /\ n - 1 \in DOMAIN fs
                /\ AtArg(n - 1) /\ e = ArgExp(frames[n - 1].e, frames[n - 1].i + 1)
  <2>1. SUFFICES ASSUME n > 1
                 PROVE  /\ n - 1 \in DOMAIN frames /\ n - 1 \in DOMAIN fs
                        /\ AtArg(n - 1) /\ e = ArgExp(frames[n - 1].e, frames[n - 1].i + 1)
    OBVIOUS
  <2>2. n - 1 \in 1 .. n - 1 /\ n - 1 + 1 = n /\ n - 1 < n
    BY <1>1, <2>1
  <2>. QED
    BY <1>1, <1>2, <1>14, <2>2 DEF Chain
<1>16. n = 1 => e = root
  BY <1>1, <1>2 DEF Chain
<1>17. ASSUME NEW q \in DOMAIN heap, q \notin Range(freed) \cup V, NEW p \in Pointers(q),
              p \in Range(freed) \cup V
       PROVE  Done(p, q)'
  <2>1. CASE p \in Range(freed)
    <3>1. Done(p, q)
      BY <1>17, <2>1 DEF DestroyInv
    <3>2. PICK k \in DOMAIN frames :
            /\ heap[frames[k].e].type = "FUNC" /\ q = heap[frames[k].e].val
            /\ \E m \in 1 .. frames[k].i : p = Args(frames[k].e)[m]
      BY <1>4, <3>1 DEF Done, CellDue
    <3>3. k # n
      BY <1>2, <1>6, <1>11, <1>17, <3>2
    <3>4. k \in DOMAIN fs /\ fs[k] = frames[k]
      BY <1>1, <1>13, <3>2, <3>3
    <3>. QED
      BY <1>4, <1>12, <3>2, <3>4 DEF Done, Args, FuncOf
  <2>2. CASE p = e
    <3>1. n > 1
      BY <1>1, <1>16, <1>17, <2>2
    <3>2. PICK d : d = fs[n - 1].e
      OBVIOUS
    <3>3. PICK j : j = fs[n - 1].i
      OBVIOUS
    <3>4. n - 1 \in DOMAIN frames /\ n - 1 \in DOMAIN fs /\ fs[n - 1] = frames[n - 1] /\ Len(fs) = n - 1
      BY <1>13, <1>15, <3>1
    <3>5. heap[d].type = "FUNC" /\ j < Len(Args(d)) /\ e = ArgExp(d, j + 1)
      BY <1>15, <3>1, <3>2, <3>3, <3>4 DEF AtArg
    <3>6. Is(d, "exp") /\ j \in Nat
      BY <3>2, <3>3, <3>4, FramesAre DEF Chain, FrameOK
    <3>7. j + 1 \in 1 .. Len(Args(d))
      BY <3>5, <3>6, CallIs
    <3>8. PICK c : c = Args(d)[j + 1]
      OBVIOUS
    <3>9. Is(c, "arg") /\ heap[c].exp = e
      BY <3>5, <3>6, <3>7, <3>8, CallIs
    <3>10. c \in DOMAIN heap /\ e \in Pointers(c)
      BY <3>9, PointersAre DEF Is
    <3>11. q = c
      BY <1>17, <2>2, <3>10 DEF Owned
    <3>12. rval' # << >>
      BY <1>4
    <3>. QED
      BY <1>4, <1>12, <2>2, <3>2, <3>3, <3>4, <3>5, <3>8, <3>9, <3>11, <3>12 DEF Done, CellDue, Args, FuncOf
  <2>3. CASE p = v
    <3>1. e \in DOMAIN heap /\ v \in Pointers(e)
      BY <1>5, <1>6, PointersAre DEF Is
    <3>2. q = e
      BY <1>17, <2>3, <3>1 DEF Owned
    <3>. QED
      BY <1>11, <1>17, <3>2
  <2>4. CASE p = heap[v].name /\ (Is(v, "p13n") \/ Is(v, "func"))
    <3>1. v \in DOMAIN heap /\ p \in Pointers(v)
      BY <2>4, PointersAre DEF Is
    <3>2. q = v
      BY <1>17, <3>1 DEF Owned
    <3>. QED
      BY <1>11, <1>17, <3>2
  <2>. QED
    BY <1>11, <1>17, <2>1, <2>2, <2>3, <2>4
<1>18. (\A q \in DOMAIN heap : q \notin Range(freed) =>
          \A p \in Pointers(q) : p \in Range(freed) => Done(p, q))'
  <2>1. \A q : Pointers(q)' = Pointers(q)
    BY <1>4, HeapStays
  <2>. QED
    BY <1>4, <1>9, <1>17, <2>1
<1>19. ASSUME NEW k \in 1 .. n - 1
       PROVE  /\ fs[k].e \notin Range(freed) \cup V
              /\ heap[fs[k].e].type = "FUNC" =>
                   \A m \in 1 .. fs[k].i : Args(fs[k].e)[m] \in Range(freed) \cup V
  <2>1. fs[k] = frames[k] /\ k \in DOMAIN frames /\ k < n
    BY <1>13, <1>14
  <2>2. Is(fs[k].e, "exp") /\ fs[k].e # e
    <3>1. Is(fs[k].e, "exp")
      BY <2>1 DEF Chain, FrameOK
    <3>2. frames[n].e < frames[k].e
      BY <1>1, <2>1 DEF Chain
    <3>3. e \in Nat
      BY <1>5, ExpIs
    <3>. QED
      BY <1>2, <2>1, <3>1, <3>2, <3>3
  <2>3. fs[k].e \notin V
    BY <1>11, <2>2 DEF Is
  <2>. QED
    BY <2>1, <2>3 DEF DestroyInv
<1>20. (\A k \in DOMAIN frames :
          LET d == frames[k].e
          IN  /\ d \notin Range(freed)
              /\ heap[d].type = "FUNC" => \A m \in 1 .. frames[k].i : Args(d)[m] \in Range(freed))'
  BY <1>4, <1>9, <1>12, <1>13, <1>19 DEF Args, FuncOf
<1>21. (CellDue /\ frames # << >> => ArgExp(Calls.e, Calls.i + 1) \in Range(freed))'
  <2>1. SUFFICES ASSUME fs # << >> PROVE (ArgExp(Calls.e, Calls.i + 1) \in Range(freed))'
    BY <1>12
  <2>2. n > 1
    BY <1>1, <1>13, <2>1
  <2>3. Calls' = frames[n - 1]
    BY <1>12, <1>13, <1>15, <2>2 DEF Calls, Last
  <2>4. ArgExp(Calls.e, Calls.i + 1)' = e
    BY <1>4, <1>15, <2>2, <2>3 DEF ArgExp, FuncOf
  <2>. QED
    BY <1>9, <1>11, <2>4
<1>22. (frames = << >> /\ root # 0 => root \in Range(freed))'
  <2>1. SUFFICES ASSUME fs = << >> PROVE root' \in Range(freed')
    BY <1>12
  <2>2. n = 1
    <3>1. Len(fs) = 0
      BY <2>1
    <3>. QED
      BY <1>13, <3>1
  <2>. QED
    BY <1>4, <1>9, <1>11, <1>16, <2>2
<1>. QED
  BY <1>10, <1>18, <1>20, <1>21, <1>22 DEF DestroyInv

-----------------------------------------------------------------------------
(* What holds of every state, before anything is said of what it is for. *)
BaseInv == TypesInv /\ OwnInv /\ RunInv

(* It holds at first, *)
LEMMA BaseInit == Init => BaseInv
  BY TypesInit, OwnInit, RunInit DEF BaseInv

(* and every step of the program keeps it. *)
LEMMA BaseStep == BaseInv /\ [Next]_vars => BaseInv'
  BY TypesStep, OwnStep, RunStep DEF BaseInv

(* A set of numbers that is not empty has a least one: among the intervals *)
(* from zero to each of them, one is contained in no other.                *)
LEMMA LeastNumber ==
  ASSUME NEW T, T \subseteq Nat, T # {}
  PROVE  \E x \in T : \A y \in T : x <= y
<1> DEFINE O == StrictSubsetOrdering(Nat)
           F == FiniteSubsetsOf(Nat)
           I == {0 .. k : k \in T}
<1>1. IsWellFoundedOn(O, F)
  BY FS_StrictSubsetOrderingWellFounded
<1>2. \A k \in T : IsFiniteSet(0 .. k) /\ 0 .. k \subseteq Nat
  BY FS_Interval
<1>3. I \subseteq F /\ I # {}
  BY <1>2 DEF FiniteSubsetsOf
<1>4. \A x, y \in T : y < x => << 0 .. y, 0 .. x >> \in O
  <2> SUFFICES ASSUME NEW x \in T, NEW y \in T, y < x PROVE << 0 .. y, 0 .. x >> \in O
    OBVIOUS
  <2>1. 0 .. y \subseteq 0 .. x /\ x \in 0 .. x /\ x \notin 0 .. y /\ 0 .. x \subseteq Nat
    OBVIOUS
  <2>. QED
    BY <2>1 DEF StrictSubsetOrdering
<1> HIDE DEF O, F
<1>5. \E i \in I : \A j \in I : ~(<< j, i >> \in O)
  BY <1>1, <1>3, WFMin
<1>6. PICK x \in T : \A y \in T : ~(<< 0 .. y, 0 .. x >> \in O)
  BY <1>5
<1>7. \A y \in T : x \in Nat /\ y \in Nat /\ ~(y < x)
  BY <1>4, <1>6
<1>. QED
  BY <1>6, <1>7

(* Induction over the numbers, for a set of them. *)
LEMMA AllNumbers ==
  ASSUME NEW S, 0 \in S, \A n \in S \cap Nat : n + 1 \in S
  PROVE  Nat \subseteq S
<1> DEFINE T == Nat \ S
<1> SUFFICES ASSUME T # {} PROVE FALSE
  OBVIOUS
<1>1. PICK x \in T : \A y \in T : x <= y
  BY LeastNumber
<1>2. x # 0 /\ x - 1 \in Nat /\ ~(x <= x - 1)
  BY <1>1
<1>3. x - 1 \in S
  BY <1>1, <1>2
<1>4. (x - 1) + 1 \in S
  BY <1>2, <1>3
<1>. QED
  BY <1>2, <1>4

-----------------------------------------------------------------------------
(* Nothing is destroyed at first. *)
LEMMA DestroyStarts ==
  ASSUME HeapOK, Chain, freed = << >>, Destroy, Starts \/ (root = 0 /\ frames' = << >>),
         UNCHANGED << heap, root >>
  PROVE  DestroyInv'
<1>1. freed' = << >> /\ heap' = heap /\ root' = root
  BY DEF Destroy
<1>2. PICK s : s = << >>
  OBVIOUS
<1>3. InOrder(s) /\ Range(s) = {}
  BY <1>2 DEF InOrder, IsInjective, Range
<1>4. InOrder(freed)'
  BY <1>1, <1>2, <1>3, OrderStays
<1>5. rval' = << >>
  BY DEF Destroy
<1>6. ASSUME NEW k, k \in DOMAIN frames' PROVE \A m \in 1 .. frames'[k].i : FALSE
  <2>1. frames' = << Frame(root) >>
    BY <1>6 DEF Starts
  <2>2. k = 1 /\ frames'[1] = Frame(root)
    BY <1>6, <2>1
  <2>. QED
    BY <2>2 DEF Frame
<1>7. frames' = << >> => root = 0
  BY DEF Starts
<1>. QED
  BY <1>1, <1>2, <1>3, <1>4, <1>5, <1>6, <1>7 DEF DestroyInv, CellDue

(* What is freed stays so while nothing of it changes. *)
LEMMA DestroyStays ==
  ASSUME DestroyInv, UNCHANGED << heap, root, frames, rval, freed >>
  PROVE  DestroyInv'
<1>1. (\A p : Pointers(p)' = Pointers(p)) /\ (\A e : Args(e)' = Args(e))
  BY HeapStays
<1>2. \A p, q : Done(p, q) => Done(p, q)'
  BY <1>1 DEF Done, CellDue, Args, FuncOf
<1>3. PICK s : s = freed
  OBVIOUS
<1>4. InOrder(freed)'
  BY <1>3, OrderStays DEF DestroyInv
<1>. QED
  BY <1>1, <1>2, <1>4 DEF DestroyInv, CellDue, Calls, ArgExp, Args, FuncOf

(* The stack leads to the root, and no node does. *)
LEMMA RootIsFree ==
  ASSUME HeapOK, StackOK, NEW o, Owned(o), Quiet, pc \notin {"parse", "exit"}
  PROVE  /\ \A q \in DOMAIN heap : root \notin Pointers(q)
         /\ \A k \in DOMAIN stack : Held(k) = {root} /\ root # 0
<1>1. DOMAIN heap = 1 .. Len(heap) /\ Len(heap) \in Nat
  BY LenProperties DEF HeapOK
<1>2. CASE stack = << >> /\ root = 0
  BY <1>1, <1>2 DEF Owned
<1>3. CASE Len(stack) = 1 /\ stack[1].sym = "expression" /\ root = stack[1].val
  <2>1. DOMAIN stack = {1}
    BY <1>3, LenProperties DEF StackOK
  <2>2. Held(1) = {root} /\ root \in DOMAIN heap
    BY <1>3, <2>1 DEF Held, StackOK, EntryOK, Is
  <2>3. o[root] = -1
    BY <2>1, <2>2 DEF Owned
  <2>4. \A q \in DOMAIN heap : q # -1
    BY <1>1
  <2>. QED
    BY <1>1, <2>1, <2>2, <2>3, <2>4 DEF Owned
<1>. QED
  BY <1>2, <1>3 DEF Quiet

(* Nothing is freed at first. *)
LEMMA FreedInit == Init => FreedInv
  BY DEF Init, FreedInv

(* Every step of the program keeps what is true of what is freed. *)
LEMMA FreedStep == BaseInv /\ FreedInv /\ [Next]_vars => FreedInv'
<1> SUFFICES ASSUME BaseInv, FreedInv, [Next]_vars PROVE FreedInv'
  OBVIOUS
<1>1. HeapOK /\ StackOK /\ TextOK /\ Once /\ Chain /\ Quiet
  BY DEF BaseInv, TypesInv, OwnInv, RunInv
<1>2. PICK o : Owned(o)
  BY DEF BaseInv, OwnInv
<1>3. CASE pc = "parse"
  <2>1. freed' = freed /\ pc' \in {"parse", "compiled", "exit"}
    BY <1>1, <1>3, StepsAre DEF Accept, Error, running, vars
  <2>. QED
    BY <1>3, <2>1 DEF FreedInv
<1>4. CASE pc # "parse"
  <2>1. UNCHANGED << heap, root, stack >>
    BY <1>1, <1>4, RunsAre DEF parsing
  <2>2. CASE Exec
    BY <2>2 DEF Exec, FreedInv
  <2>3. CASE Destroy /\ (Starts \/ (root = 0 /\ frames' = << >>))
    <3>1. freed = << >> /\ pc' = "destroy"
      BY <2>3 DEF Destroy, FreedInv
    <3>2. DestroyInv'
      BY <1>1, <2>1, <2>3, <3>1, DestroyStarts
    <3>. QED
      BY <3>1, <3>2 DEF FreedInv
  <2>4. CASE DestroyArg /\ Descends
    <3>1. DestroyInv /\ pc' = "destroy"
      BY <2>4 DEF DestroyArg, FreedInv
    <3>2. DestroyInv'
      BY <1>1, <1>2, <2>1, <2>4, <3>1, DestroyArgFrees
    <3>. QED
      BY <3>1, <3>2 DEF FreedInv
  <2>5. CASE FreeArg /\ Advances
    <3>1. DestroyInv /\ pc' = "destroy"
      BY <2>5 DEF FreeArg, FreedInv
    <3>2. DestroyInv'
      BY <1>1, <1>2, <2>1, <2>5, <3>1, FreeArgFrees
    <3>. QED
      BY <3>1, <3>2 DEF FreedInv
  <2>6. CASE FreeExp
    <3>1. DestroyInv /\ pc = "destroy" /\ pc' = "destroy" /\ Returns(NULL)
      BY <2>6 DEF FreeExp, FreedInv, Returns
    <3>2. \A q \in DOMAIN heap : root \notin Pointers(q)
      BY <1>1, <1>2, <3>1, RootIsFree
    <3>3. DestroyInv'
      BY <1>1, <1>2, <2>1, <2>6, <3>1, <3>2, FreeExpFrees
    <3>. QED
      BY <3>1, <3>3 DEF FreedInv
  <2>7. CASE ExecArg \/ ExecStore \/ ExecLeaf \/ ExecCall
    <3>1. pc = "exec" /\ freed' = freed /\ pc' \in {"exec", "undefined"}
      BY <2>7 DEF ExecArg, ExecStore, ExecLeaf, ExecCall
    <3>. QED
      BY <3>1 DEF FreedInv
  <2>8. CASE UNCHANGED << frames, rval, freed >> /\ (ExecDone \/ Destroyed \/ UNCHANGED pc)
    <3>1. DestroyInv => DestroyInv'
      BY <2>1, <2>8, DestroyStays
    <3>. QED
      BY <2>8, <3>1 DEF FreedInv, ExecDone, Destroyed
  <2>. QED
    BY <1>1, <1>4, <2>2, <2>3, <2>4, <2>5, <2>6, <2>7, <2>8, RunsAre
<1>. QED
  BY <1>3, <1>4

(* A node leads to what was allocated before it, or next with it. *)
LEMMA LeadsDown ==
  ASSUME HeapOK, NEW q \in DOMAIN heap, NEW p \in Pointers(q)
  PROVE  p < q \/ (p = q + 1 /\ Is(q, "exp") /\ Is(p, "p13n"))
<1>1. q \in Nat /\ heap[q] \in Nodes /\ NodeOK(q)
  BY LenProperties DEF HeapOK
<1>2. CASE heap[q].kind = "exp"
  <2>1. Is(q, "exp") /\ p = heap[q].val
    BY <1>2, PointersAre DEF Is
  <2>. QED
    BY <1>1, <1>2, <2>1, ExpIs DEF NodeOK
<1>3. CASE heap[q].kind = "func"
  <2>1. p = heap[q].name \/ \E m \in DOMAIN heap[q].args : p = heap[q].args[m]
    BY <1>3, PointersAre DEF Is, Range
  <2>. QED
    BY <1>1, <1>3, <2>1 DEF NodeOK
<1>4. CASE heap[q].kind = "p13n"
  <2>1. p = heap[q].name /\ p < q - 1 /\ Is(p, "str")
    BY <1>1, <1>4, PointersAre DEF Is, NodeOK
  <2>2. p \in Nat
    BY <2>1, LenProperties DEF HeapOK, Is
  <2>. QED
    BY <1>1, <2>1, <2>2
<1>5. CASE heap[q].kind = "arg"
  BY <1>1, <1>5, PointersAre DEF Is, NodeOK
<1>6. CASE heap[q].kind = "str"
  BY <1>6, PointersAre DEF Is
<1>. QED
  BY <1>1, <1>2, <1>3, <1>4, <1>5, <1>6 DEF Nodes

(* Nodes that are each led to by another of them: there are none. *)
LEMMA NoneLeft ==
  ASSUME HeapOK, NEW U, U \subseteq DOMAIN heap, \A p \in U : \E q \in U : p \in Pointers(q)
  PROVE  U = {}
<1>1. SUFFICES ASSUME U # {} PROVE FALSE
  OBVIOUS
<1>2. PICK n \in Nat : n = Len(heap) /\ DOMAIN heap = 1 .. n
  BY LenProperties DEF HeapOK
<1>3. \A p \in U : p \in 1 .. n /\ n - p \in Nat
  BY <1>2
<1>4. PICK T : T = {n - p : p \in U}
  OBVIOUS
<1>5. T \subseteq Nat /\ T # {}
  BY <1>1, <1>3, <1>4
<1>6. PICK x \in T : \A y \in T : x <= y
  BY <1>5, LeastNumber
<1>7. PICK p \in U : x = n - p
  BY <1>4, <1>6
<1>8. \A q \in U : q <= p
  <2>1. \A q \in U : n - p <= n - q
    BY <1>4, <1>6, <1>7
  <2>. QED
    BY <1>3, <1>7, <2>1
<1>9. PICK q \in U : p \in Pointers(q)
  BY <1>7
<1>10. p = q + 1 /\ Is(q, "exp") /\ Is(p, "p13n")
  BY <1>3, <1>8, <1>9, LeadsDown
<1>11. PICK w \in U : q \in Pointers(w)
  BY <1>9
<1>12. q < w
  <2>1. ~Is(q, "p13n")
    BY <1>10 DEF Is
  <2>2. q < w \/ w \in Nat
    BY <1>3
  <2>. QED
    BY <1>3, <1>9, <1>11, <2>1, LeadsDown, <1>10
<1>13. w = p
  BY <1>3, <1>8, <1>10, <1>12
<1>14. Pointers(p) = {heap[p].name} /\ NodeOK(p) /\ heap[p].kind = "p13n"
  BY <1>10, PointersAre DEF Is, HeapOK
<1>. QED
  BY <1>10, <1>11, <1>13, <1>14 DEF NodeOK, Is

(* When destruction is over, every node has been freed, each of them once. *)
LEMMA NothingLeft ==
  ASSUME HeapOK, NEW o, Owned(o), DestroyInv, frames = << >>,
         \A k \in DOMAIN stack : Held(k) = {root} /\ root # 0
  PROVE  Range(freed) = DOMAIN heap /\ Len(freed) = Len(heap)
<1>1. /\ freed \in Seq(DOMAIN heap) /\ IsInjective(freed)
      /\ \A k \in DOMAIN freed : Pointers(freed[k]) \subseteq {freed[m] : m \in 1 .. k - 1}
  BY DEF DestroyInv, InOrder
<1>2. PICK n \in Nat : n = Len(freed) /\ DOMAIN freed = 1 .. n
  BY <1>1, LenProperties
<1>3. Range(freed) \subseteq DOMAIN heap
  BY <1>1, <1>2 DEF Range
<1>4. PICK U : U = DOMAIN heap \ Range(freed)
  OBVIOUS
<1>5. ASSUME NEW p \in U PROVE \E q \in U : p \in Pointers(q)
  <2>1. CASE o[p] \in DOMAIN heap /\ p \in Pointers(o[p])
    <3>1. SUFFICES ASSUME o[p] \in Range(freed) PROVE FALSE
      BY <1>4, <2>1
    <3>2. PICK k \in 1 .. n : o[p] = freed[k]
      BY <1>2, <3>1 DEF Range
    <3>3. PICK m \in 1 .. k - 1 : p = freed[m]
      BY <1>1, <1>2, <2>1, <3>2
    <3>4. m \in 1 .. n
      BY <1>2
    <3>. QED
      BY <1>2, <1>4, <1>5, <3>3, <3>4 DEF Range
  <2>2. ASSUME NEW k \in DOMAIN stack, p \in Held(k) PROVE FALSE
    <3>1. p = root /\ root # 0
      BY <2>2
    <3>. QED
      BY <1>4, <1>5, <3>1 DEF DestroyInv
  <2>. QED
    BY <1>4, <1>5, <2>1, <2>2 DEF Owned
<1>6. U = {}
  BY <1>4, <1>5, NoneLeft
<1>7. Range(freed) = DOMAIN heap
  BY <1>3, <1>4, <1>6
<1>8. PICK m \in Nat : m = Len(heap) /\ DOMAIN heap = 1 .. m
  BY LenProperties DEF HeapOK
<1>9. freed \in Bijection(1 .. n, 1 .. m)
  <2>1. freed \in [1 .. n -> 1 .. m]
    BY <1>1, <1>2, <1>8
  <2>2. \A t \in 1 .. m : \E k \in 1 .. n : freed[k] = t
    BY <1>2, <1>7, <1>8 DEF Range
  <2>. QED
    BY <1>1, <2>1, <2>2 DEF Bijection, Injection, Surjection
<1>10. Cardinality(1 .. m) = n
  BY <1>9, FS_CountingElements DEF ExistsBijection
<1>11. Cardinality(1 .. m) = m
  <2>1. 1 \in Int /\ m \in Int
    OBVIOUS
  <2>2. Cardinality(1 .. m) = IF 1 > m THEN 0 ELSE m - 1 + 1
    BY <2>1, FS_Interval
  <2>. QED
    BY <2>2
<1>. QED
  BY <1>2, <1>7, <1>8, <1>10, <1>11

(* When destroy is over, everything allocated is freed, in order. *)
LEMMA FreesAllHolds == BaseInv /\ FreedInv => FreesAll
<1> SUFFICES ASSUME BaseInv, FreedInv PROVE FreesAll
  OBVIOUS
<1>1. HeapOK /\ StackOK /\ Quiet
  BY DEF BaseInv, TypesInv, RunInv
<1>2. PICK o : Owned(o)
  BY DEF BaseInv, OwnInv
<1>3. ASSUME pc = "destroyed" PROVE Len(freed) = Len(heap) /\ Range(freed) = DOMAIN heap
  BY <1>1, <1>2, <1>3, RootIsFree, NothingLeft DEF Quiet, FreedInv
<1>4. \A k \in DOMAIN freed : Pointers(freed[k]) \subseteq {freed[m] : m \in 1 .. k - 1}
  BY DEF FreedInv, DestroyInv, InOrder
<1>. QED
  BY <1>3, <1>4 DEF FreesAll

(* What frf_transform_destroy frees is what was allocated, each of it      *)
(* once, and nothing before everything it leads to.                        *)
THEOREM FreesAllOfIt == Spec => []FreesAll
<1>1. Init => BaseInv /\ FreedInv
  BY BaseInit, FreedInit
<1>2. BaseInv /\ FreedInv /\ [Next]_vars => BaseInv' /\ FreedInv'
  BY BaseStep, FreedStep
<1>. QED
  BY <1>1, <1>2, FreesAllHolds, PTL DEF Spec

-----------------------------------------------------------------------------
(* Prefixes of the pieces joined: the n-th joins the first n. *)
Joined(pieces) ==
  CHOOSE f : f = [i \in 1 .. Len(pieces) |->
                    IF i = 1 THEN pieces[i] ELSE f[i - 1] \o pieces[i]]

(* The first n pieces, joined. *)
UpTo(pieces, n) == IF n = 0 THEN << >> ELSE Joined(pieces)[n]

(* There are such prefixes, for any number of pieces. *)
LEMMA PrefixesExist ==
  ASSUME NEW pieces
  PROVE  \A n \in Nat : \E f : f = [i \in 1 .. n |->
                                     IF i = 1 THEN pieces[i] ELSE f[i - 1] \o pieces[i]]
<1> DEFINE Prefixed(f, n) ==
             f = [i \in 1 .. n |-> IF i = 1 THEN pieces[i] ELSE f[i - 1] \o pieces[i]]
           S == {n \in Nat : \E f : Prefixed(f, n)}
<1>1. 0 \in S
  <2>1. Prefixed([i \in 1 .. 0 |-> 0], 0)
    OBVIOUS
  <2>. QED
    BY <2>1
<1>2. ASSUME NEW n \in S \cap Nat PROVE n + 1 \in S
  <2>1. PICK f : Prefixed(f, n)
    OBVIOUS
  <2> DEFINE last == IF n = 0 THEN pieces[1] ELSE f[n] \o pieces[n + 1]
  <2>2. \A i \in 1 .. n : f[i] = IF i = 1 THEN pieces[i] ELSE f[i - 1] \o pieces[i]
    BY <2>1
  <2>3. PICK g : g = [i \in 1 .. n + 1 |-> IF i = n + 1 THEN last ELSE f[i]]
    OBVIOUS
  <2>4. (n = 0 => last = pieces[1]) /\ (n # 0 => last = f[n] \o pieces[n + 1])
    OBVIOUS
  <2> HIDE DEF last
  <2>5. n + 1 \in 1 .. n + 1 /\ \A i \in 1 .. n : i \in 1 .. n + 1 /\ i # n + 1
    OBVIOUS
  <2>6. g[n + 1] = last /\ \A i \in 1 .. n : g[i] = f[i]
    BY <2>3, <2>5
  <2>7. ASSUME NEW i \in 1 .. n + 1
        PROVE  g[i] = IF i = 1 THEN pieces[i] ELSE g[i - 1] \o pieces[i]
    <3>1. CASE i = n + 1 /\ n = 0
      BY <2>4, <2>6, <3>1
    <3>2. CASE i = n + 1 /\ n # 0
      <4>1. n \in 1 .. n /\ i - 1 = n /\ i # 1
        BY <3>2
      <4>2. g[n] = f[n] /\ g[i] = last
        BY <2>6, <3>2, <4>1
      <4>. QED
        BY <2>4, <3>2, <4>1, <4>2
    <3>3. CASE i # n + 1
      <4>1. i \in 1 .. n /\ (i # 1 => i - 1 \in 1 .. n)
        BY <3>3
      <4>. QED
        BY <2>2, <2>6, <4>1
    <3>. QED
      BY <3>1, <3>2, <3>3
  <2>8. g = [i \in 1 .. n + 1 |-> IF i = 1 THEN pieces[i] ELSE g[i - 1] \o pieces[i]]
    BY <2>3, <2>7
  <2>9. Prefixed(g, n + 1)
    BY <2>8
  <2> HIDE DEF Prefixed
  <2>. QED
    BY <2>9
<1> HIDE DEF S
<1>3. Nat \subseteq S
  BY <1>1, <1>2, AllNumbers
<1>. QED
  BY <1>3 DEF S

(* Each prefix is the one before it and its piece, and all pieces joined   *)
(* are what SequencesExt makes of them.                                    *)
LEMMA PrefixesAre ==
  ASSUME NEW pieces, Len(pieces) \in Nat
  PROVE  /\ UpTo(pieces, 0) = << >>
         /\ \A n \in 1 .. Len(pieces) :
              UpTo(pieces, n) = IF n = 1 THEN pieces[n] ELSE UpTo(pieces, n - 1) \o pieces[n]
         /\ Len(pieces) # 0 => FlattenSeq(pieces) = UpTo(pieces, Len(pieces))
         /\ Len(pieces) = 0 => FlattenSeq(pieces) = pieces
<1> DEFINE f == Joined(pieces)
<1>1. f = [i \in 1 .. Len(pieces) |-> IF i = 1 THEN pieces[i] ELSE f[i - 1] \o pieces[i]]
  BY PrefixesExist DEF Joined
<1> HIDE DEF f
<1>2. \A n \in 1 .. Len(pieces) :
        f[n] = IF n = 1 THEN pieces[n] ELSE f[n - 1] \o pieces[n]
  BY <1>1
<1>3. \A n \in 1 .. Len(pieces) : UpTo(pieces, n) = f[n]
  BY DEF UpTo, f
<1>4. \A n \in 1 .. Len(pieces) :
        UpTo(pieces, n) = IF n = 1 THEN pieces[n] ELSE UpTo(pieces, n - 1) \o pieces[n]
  <2> TAKE n \in 1 .. Len(pieces)
  <2>1. CASE n = 1
    BY <1>2, <1>3, <2>1
  <2>2. CASE n # 1
    <3>1. n - 1 \in 1 .. Len(pieces)
      BY <2>2
    <3>. QED
      BY <1>2, <1>3, <2>2, <3>1
  <2>. QED
    BY <2>1, <2>2
<1>5. Len(pieces) # 0 => FlattenSeq(pieces) = UpTo(pieces, Len(pieces))
  BY DEF FlattenSeq, UpTo, Joined
<1>6. Len(pieces) = 0 => FlattenSeq(pieces) = pieces
  BY DEF FlattenSeq
<1>. QED
  BY <1>4, <1>5, <1>6 DEF UpTo

(* Prefixes of sequences are sequences, and each is the one before it and  *)
(* its piece.                                                              *)
LEMMA PrefixesJoin ==
  ASSUME NEW T, NEW n \in Nat, NEW pieces \in [1 .. n -> Seq(T)]
  PROVE  /\ \A k \in 0 .. n : UpTo(pieces, k) \in Seq(T)
         /\ UpTo(pieces, 0) = << >>
         /\ \A k \in 1 .. n : UpTo(pieces, k) = UpTo(pieces, k - 1) \o pieces[k]
         /\ FlattenSeq(pieces) = UpTo(pieces, n)
<1>1. Len(pieces) = n /\ pieces \in Seq(Seq(T))
  <2>1. pieces \in Seq(Seq(T))
    OBVIOUS
  <2>. QED
    BY <2>1, LenProperties
<1>2. /\ UpTo(pieces, 0) = << >>
      /\ \A k \in 1 .. n :
           UpTo(pieces, k) = IF k = 1 THEN pieces[k] ELSE UpTo(pieces, k - 1) \o pieces[k]
      /\ n # 0 => FlattenSeq(pieces) = UpTo(pieces, n)
      /\ n = 0 => FlattenSeq(pieces) = pieces
  <2>1. Len(pieces) \in Nat
    BY <1>1
  <2>. QED
    BY <1>1, <2>1, PrefixesAre
<1>3. << >> \in Seq(T) /\ \A s, t \in Seq(T) : s \o t \in Seq(T) /\ << >> \o s = s
  OBVIOUS
<1> DEFINE S == {k \in Nat : k \in 0 .. n => UpTo(pieces, k) \in Seq(T)}
<1>4. 0 \in S
  BY <1>2, <1>3
<1>5. ASSUME NEW k \in S \cap Nat PROVE k + 1 \in S
  <2>1. CASE k + 1 \in 0 .. n
    <3>1. k + 1 \in 1 .. n /\ k \in 0 .. n /\ (k + 1) - 1 = k
      BY <2>1
    <3>2. UpTo(pieces, k) \in Seq(T) /\ pieces[k + 1] \in Seq(T)
      BY <3>1
    <3>3. UpTo(pieces, k) \o pieces[k + 1] \in Seq(T)
      BY <1>3, <3>2
    <3>4. UpTo(pieces, k + 1) = IF k + 1 = 1 THEN pieces[k + 1]
                                ELSE UpTo(pieces, k) \o pieces[k + 1]
      BY <1>2, <3>1
    <3>5. UpTo(pieces, k + 1) \in Seq(T)
      BY <3>2, <3>3, <3>4
    <3>. QED
      BY <3>5
  <2>2. CASE k + 1 \notin 0 .. n
    BY <2>2
  <2>. QED
    BY <2>1, <2>2
<1> HIDE DEF S
<1>6. \A k \in 0 .. n : UpTo(pieces, k) \in Seq(T)
  <2>1. Nat \subseteq S
    BY <1>4, <1>5, AllNumbers
  <2>. QED
    BY <2>1 DEF S
<1>7. ASSUME NEW k \in 1 .. n
      PROVE  UpTo(pieces, k) = UpTo(pieces, k - 1) \o pieces[k]
  <2>1. pieces[k] \in Seq(T)
    OBVIOUS
  <2>2. CASE k = 1
    <3>1. UpTo(pieces, k - 1) = << >>
      BY <1>2, <2>2
    <3>2. << >> \o pieces[k] = pieces[k]
      BY <1>3, <2>1
    <3>3. UpTo(pieces, k) = pieces[k]
      BY <1>2, <2>2
    <3>. QED
      BY <3>1, <3>2, <3>3
  <2>3. CASE k # 1
    BY <1>2, <2>3
  <2>. QED
    BY <2>2, <2>3
<1>8. FlattenSeq(pieces) = UpTo(pieces, n)
  <2>1. n = 0 => pieces = << >>
    BY <1>1
  <2>. QED
    BY <1>2, <2>1
<1>. QED
  BY <1>2, <1>6, <1>7, <1>8

(* Pieces that begin alike have prefixes that do. *)
Pieces(T, n) == [1 .. n -> Seq(T)]

(* They do, as far as the pieces are alike. *)
LEMMA PrefixesAgree ==
  ASSUME NEW T, NEW n \in Nat, NEW s \in Pieces(T, n),
         NEW m \in Nat, NEW t \in Pieces(T, m), n <= m, \A k \in 1 .. n : s[k] = t[k]
  PROVE  \A k \in 0 .. n : UpTo(s, k) = UpTo(t, k)
<1>a. s \in [1 .. n -> Seq(T)] /\ t \in [1 .. m -> Seq(T)]
  BY DEF Pieces
<1> DEFINE S == {k \in Nat : k \in 0 .. n => UpTo(s, k) = UpTo(t, k)}
<1>1. 0 \in S
  BY DEF UpTo
<1>2. ASSUME NEW k \in S \cap Nat PROVE k + 1 \in S
  <2>1. CASE k + 1 \in 0 .. n
    <3>1. k \in 0 .. n /\ k + 1 \in 1 .. n /\ k + 1 \in 1 .. m /\ (k + 1) - 1 = k
      BY <2>1
    <3>2. UpTo(s, k + 1) = UpTo(s, k) \o s[k + 1]
      BY <1>a, <3>1, PrefixesJoin
    <3>3. UpTo(t, k + 1) = UpTo(t, k) \o t[k + 1]
      BY <1>a, <3>1, PrefixesJoin
    <3>4. UpTo(s, k) = UpTo(t, k)
      BY <3>1
    <3>5. s[k + 1] = t[k + 1]
      BY <3>1
    <3>6. UpTo(s, k + 1) = UpTo(t, k + 1)
      BY <3>2, <3>3, <3>4, <3>5
    <3>. QED
      BY <3>6
  <2>2. CASE k + 1 \notin 0 .. n
    BY <2>2
  <2>. QED
    BY <2>1, <2>2
<1> HIDE DEF S
<1>3. Nat \subseteq S
  BY <1>1, <1>2, AllNumbers
<1>. QED
  BY <1>3 DEF S

(* Two more pieces come behind the others. *)
LEMMA TwoMoreJoin ==
  ASSUME NEW T, NEW m \in Nat, NEW u \in Pieces(T, m),
         NEW w \in Pieces(T, m + 2), \A k \in 1 .. m : u[k] = w[k]
  PROVE  FlattenSeq(u) \in Seq(T) /\ FlattenSeq(w) = FlattenSeq(u) \o w[m + 1] \o w[m + 2]
<1>1. PICK l \in Nat : l = m + 2
  OBVIOUS
<1>2. w \in Pieces(T, l) /\ m <= l
  BY <1>1
<1>a. u \in [1 .. m -> Seq(T)] /\ w \in [1 .. l -> Seq(T)]
  BY <1>2 DEF Pieces
<1>3. FlattenSeq(w) = UpTo(w, l) /\ \A k \in 1 .. l : UpTo(w, k) = UpTo(w, k - 1) \o w[k]
  BY <1>a, PrefixesJoin
<1>4. \A k \in 0 .. m : UpTo(u, k) = UpTo(w, k)
  BY <1>2, PrefixesAgree
<1>5. FlattenSeq(u) = UpTo(u, m) /\ \A k \in 0 .. m : UpTo(u, k) \in Seq(T)
  BY <1>a, PrefixesJoin
<1>6. m \in 0 .. m /\ m + 1 \in 1 .. l /\ m + 2 \in 1 .. l /\ (m + 1) - 1 = m /\ (m + 2) - 1 = m + 1
  BY <1>1
<1>7. UpTo(w, m) = FlattenSeq(u) /\ FlattenSeq(u) \in Seq(T)
  BY <1>4, <1>5, <1>6
<1>8. UpTo(w, m + 2) = UpTo(w, m + 1) \o w[m + 2] /\ UpTo(w, m + 1) = UpTo(w, m) \o w[m + 1]
  BY <1>3, <1>6
<1>. QED
  BY <1>1, <1>3, <1>7, <1>8

(* A list of one, and of one more. *)
LEMMA BetweenOne ==
  ASSUME NEW T, NEW s, DOMAIN s = 1 .. 1, Len(s) = 1, s[1] \in Seq(T), NEW sep
  PROVE  FlattenSeq(Between(s, sep)) = s[1]
<1>1. PICK u : u = Between(s, sep)
  OBVIOUS
<1>2. u = [k \in 1 .. 1 |-> IF k % 2 = 1 THEN s[(k + 1) \div 2] ELSE sep]
  BY <1>1 DEF Between
<1>3. \A k \in 1 .. 1 : k = 1 /\ k % 2 = 1 /\ (k + 1) \div 2 = 1
  OBVIOUS
<1>4. u = [k \in 1 .. 1 |-> s[1]]
  BY <1>2, <1>3
<1>5. u \in [1 .. 1 -> Seq(T)] /\ 1 \in 1 .. 1 /\ u[1] = s[1] /\ 1 - 1 = 0
  BY <1>4
<1>6. FlattenSeq(u) = UpTo(u, 1) /\ UpTo(u, 1) = UpTo(u, 0) \o u[1] /\ UpTo(u, 0) = << >>
  BY <1>5, PrefixesJoin
<1>7. << >> \o s[1] = s[1]
  OBVIOUS
<1>. QED
  BY <1>1, <1>5, <1>6, <1>7

(* Sequences with a separator between them are a sequence. *)
LEMMA BetweenIs ==
  ASSUME NEW T, NEW n \in Nat \ {0}, NEW s, DOMAIN s = 1 .. n, Len(s) = n,
         \A k \in 1 .. n : s[k] \in Seq(T), NEW sep \in Seq(T)
  PROVE  FlattenSeq(Between(s, sep)) \in Seq(T)
<1>1. PICK u : u = Between(s, sep)
  OBVIOUS
<1>2. PICK m \in Nat \ {0} : m = 2 * n - 1
  OBVIOUS
<1>3. u = [k \in 1 .. m |-> IF k % 2 = 1 THEN s[(k + 1) \div 2] ELSE sep]
  BY <1>1, <1>2 DEF Between
<1>4. \A k \in 1 .. m : k % 2 = 1 => (k + 1) \div 2 \in 1 .. n
  BY <1>2
<1>5. u \in [1 .. m -> Seq(T)]
  BY <1>3, <1>4
<1>6. m \in 0 .. m
  BY <1>2
<1>7. FlattenSeq(u) = UpTo(u, m) /\ \A k \in 0 .. m : UpTo(u, k) \in Seq(T)
  BY <1>5, PrefixesJoin
<1>. QED
  BY <1>1, <1>6, <1>7

(* So for what is printed: sequences of tokens. *)
Prints == Seq(Seq(Nat))

(* With nothing to be separated from, the one there is. *)
LEMMA PrintedBetween ==
  ASSUME NEW s \in Seq(Prints), s # << >>, NEW sep \in Prints
  PROVE  /\ FlattenSeq(Between(s, sep)) \in Prints
         /\ Len(s) = 1 => FlattenSeq(Between(s, sep)) = s[1]
<1>1. PICK T : Prints = Seq(T)
  BY DEF Prints
<1>2. PICK n \in Nat \ {0} : n = Len(s) /\ DOMAIN s = 1 .. n
  BY LenProperties
<1>3. \A k \in 1 .. n : s[k] \in Seq(T)
  BY <1>1, <1>2
<1>4. sep \in Seq(T)
  BY <1>1
<1>5. FlattenSeq(Between(s, sep)) \in Seq(T)
  BY <1>2, <1>3, <1>4, BetweenIs
<1>6. n = 1 => FlattenSeq(Between(s, sep)) = s[1]
  BY <1>2, <1>3, BetweenOne
<1>. QED
  BY <1>1, <1>2, <1>5, <1>6

(* One more comes behind a separator. *)
LEMMA PrintedNext ==
  ASSUME NEW s \in Seq(Prints), s # << >>, NEW sep \in Prints, NEW x \in Prints
  PROVE  FlattenSeq(Between(Append(s, x), sep)) = FlattenSeq(Between(s, sep)) \o sep \o x
<1>1. PICK T : Prints = Seq(T)
  BY DEF Prints
<1>2. PICK n \in Nat \ {0} : n = Len(s) /\ DOMAIN s = 1 .. n
  BY LenProperties
<1>3. PICK t : t = Append(s, x)
  OBVIOUS
<1>4. /\ DOMAIN t = 1 .. n + 1 /\ Len(t) = n + 1 /\ \A k \in 1 .. n : t[k] = s[k]
      /\ t[n + 1] = x
  BY <1>2, <1>3
<1>5. \A k \in 1 .. n : s[k] \in Seq(T)
  BY <1>1, <1>2
<1>6. sep \in Seq(T) /\ t[n + 1] \in Seq(T)
  BY <1>1, <1>4
<1>7. PICK u : u = Between(s, sep)
  OBVIOUS
<1>8. PICK w : w = Between(t, sep)
  OBVIOUS
<1>9. PICK m \in Nat \ {0} : m = 2 * n - 1 /\ 2 * (n + 1) - 1 = m + 2
  OBVIOUS
<1>10. u = [k \in 1 .. m |-> IF k % 2 = 1 THEN s[(k + 1) \div 2] ELSE sep]
  BY <1>2, <1>7, <1>9 DEF Between
<1>11. w = [k \in 1 .. m + 2 |-> IF k % 2 = 1 THEN t[(k + 1) \div 2] ELSE sep]
  BY <1>4, <1>8, <1>9 DEF Between
<1>12. \A k \in 1 .. m : k % 2 = 1 => (k + 1) \div 2 \in 1 .. n
  BY <1>9
<1>13. /\ (m + 1) % 2 # 1 /\ (m + 2) % 2 = 1 /\ (m + 2 + 1) \div 2 = n + 1
      /\ m + 1 \in 1 .. m + 2 /\ m + 2 \in 1 .. m + 2
      /\ (m + 1) - 1 = m /\ (m + 2) - 1 = m + 1 /\ m <= m + 2
  BY <1>9
<1>14. w[m + 1] = sep /\ w[m + 2] = t[n + 1]
  BY <1>11, <1>13
<1>15. \A k \in 1 .. m : k \in 1 .. m + 2 /\ u[k] = w[k] /\ u[k] \in Seq(T)
  BY <1>4, <1>5, <1>6, <1>10, <1>11, <1>12
<1>16. \A k \in 1 .. m + 2 : k \in 1 .. m \/ k = m + 1 \/ k = m + 2
  BY <1>9
<1>17. u \in Pieces(T, m)
  BY <1>10, <1>15 DEF Pieces
<1>18. w \in Pieces(T, m + 2)
  <2>1. \A k \in 1 .. m + 2 : w[k] \in Seq(T)
    BY <1>6, <1>14, <1>15, <1>16
  <2>. QED
    BY <1>11, <2>1 DEF Pieces
<1>19. FlattenSeq(u) \in Seq(T) /\ FlattenSeq(w) = FlattenSeq(u) \o w[m + 1] \o w[m + 2]
  BY <1>15, <1>17, <1>18, TwoMoreJoin
<1>. QED
  BY <1>3, <1>4, <1>7, <1>8, <1>14, <1>19

(* Parts of a sequence that follow each other. *)
LEMMA PartsJoin ==
  ASSUME NEW T, NEW s \in Seq(T), NEW i \in 0 .. Len(s), NEW j \in i .. Len(s), NEW k \in j .. Len(s)
  PROVE  /\ SubSeq(s, i + 1, j) \in Seq(T)
         /\ SubSeq(s, i + 1, j) \o SubSeq(s, j + 1, k) = SubSeq(s, i + 1, k)
<1>1. PICK n \in Nat : n = Len(s) /\ DOMAIN s = 1 .. n
  BY LenProperties
<1>2. i \in Nat /\ j \in Nat /\ k \in Nat /\ i <= j /\ j <= k /\ k <= n
  BY <1>1
<1>3. PICK a : a = SubSeq(s, i + 1, j)
  OBVIOUS
<1>4. PICK c : c = SubSeq(s, j + 1, k)
  OBVIOUS
<1>5. PICK d : d = SubSeq(s, i + 1, k)
  OBVIOUS
<1>6. a \in Seq(T) /\ Len(a) = j - i /\ \A m \in 1 .. j - i : a[m] = s[i + m]
  BY <1>1, <1>2, <1>3
<1>7. c \in Seq(T) /\ Len(c) = k - j /\ \A m \in 1 .. k - j : c[m] = s[j + m]
  BY <1>1, <1>2, <1>4
<1>8. d \in Seq(T) /\ Len(d) = k - i /\ \A m \in 1 .. k - i : d[m] = s[i + m]
  BY <1>1, <1>2, <1>5
<1>9. PICK e : e = a \o c
  OBVIOUS
<1>10. e \in Seq(T) /\ Len(e) = k - i
  BY <1>2, <1>6, <1>7, <1>9
<1>11. ASSUME NEW m \in 1 .. k - i PROVE e[m] = d[m]
  <2>1. CASE m \in 1 .. j - i
    <3>1. m <= Len(a) /\ m \in 1 .. Len(a)
      BY <1>2, <1>6, <2>1
    <3>2. e[m] = a[m]
      BY <1>6, <1>7, <1>9, <3>1
    <3>3. a[m] = s[i + m] /\ d[m] = s[i + m]
      BY <1>6, <1>8, <2>1
    <3>. QED
      BY <3>2, <3>3
  <2>2. CASE m \notin 1 .. j - i
    <3>1. m - (j - i) \in 1 .. k - j /\ j + (m - (j - i)) = i + m
      BY <1>2, <2>2
    <3>2. e[m] = c[m - (j - i)]
      BY <1>2, <1>6, <1>7, <1>9, <2>2
    <3>. QED
      BY <1>7, <1>8, <3>1, <3>2
  <2>. QED
    BY <2>1, <2>2
<1>12. e = d
  BY <1>8, <1>10, <1>11, SeqEqual
<1>. QED
  BY <1>3, <1>4, <1>5, <1>6, <1>9, <1>12

-----------------------------------------------------------------------------
(* The text as it would be printed, and what is printed of a list and of   *)
(* an expression when y has what is printed of the ones below it.          *)
Strs == [k \in DOMAIN text |-> text[k].str]

(* The arguments of a list, with commas between them. *)
Listed(y, args) == FlattenSeq(Between([k \in DOMAIN args |-> y[heap[args[k]].exp]], << Comma >>))

(* A call is its name and, in parentheses, its arguments. *)
CallPrinted(y, name, args) == << heap[name].str, Left >> \o Listed(y, args) \o << Right >>

(* An expression is printed as what it was compiled from. *)
ExpPrinted(y, e) ==
  CASE heap[e].type = "STRING" -> << heap[heap[e].val].str >>
    [] heap[e].type = "P13N"   -> << heap[heap[heap[e].val].name].str >>
    [] heap[e].type = "FUNC"   -> CallPrinted(y, FuncOf(e).name, Args(e))

(* y has what is printed of every expression. *)
PrintsExps(y) == \A e \in Exps : y[e] \in Prints /\ y[e] = ExpPrinted(y, e)

(* Each entry of the stack has the tokens after its predecessor's.         *)
Spans(b) ==
  /\ b \in [0 .. Len(stack) -> 0 .. Len(text)] /\ b[0] = 0 /\ b[Len(stack)] = read
  /\ \A k \in 1 .. Len(stack) : b[k - 1] < b[k]

(* The tokens of an entry. *)
Span(b, k) == SubSeq(Strs, b[k - 1] + 1, b[k])

(* It is what these tokens are. *)
Says(y, k, s) ==
  LET sym == stack[k].sym
      val == stack[k].val
  IN  /\ sym \in {"IDENT", "STRING"} => s = << heap[val].str >>
      /\ sym = "LEFT_PAREN" => s = << Left >>
      /\ sym = "RIGHT_PAREN" => s = << Right >>
      /\ sym = "COMMA" => s = << Comma >>
      /\ sym = "expression" => s = y[val]
      /\ sym = "func" => s = CallPrinted(y, heap[val].name, heap[val].args)
      /\ sym = "list" => Len(val) # 0 /\ s = Listed(y, val)

(* Every entry of the stack prints the tokens it has. *)
PrintedSoFar(b, y) ==
  Spans(b) /\ PrintsExps(y) /\ \A k \in DOMAIN stack : Says(y, k, Span(b, k))

(* It does so while the parser reads, and at the end everything is read. *)
PrintInv ==
  /\ \E b, y : PrintedSoFar(b, y)
  /\ pc \notin {"parse", "exit"} => read = Len(text)

(* What is printed of a list is a sequence, and one more comes behind it. *)
LEMMA ListedIs ==
  ASSUME NEW args, args \in Seq(Nat), Len(args) # 0, NEW y,
         \A k \in DOMAIN args : y[heap[args[k]].exp] \in Prints
  PROVE  /\ Listed(y, args) \in Prints
         /\ Len(args) = 1 => Listed(y, args) = y[heap[args[1]].exp]
         /\ \A a \in Nat : y[heap[a].exp] \in Prints =>
              Listed(y, Append(args, a)) = Listed(y, args) \o << Comma >> \o y[heap[a].exp]
<1>1. PICK n \in Nat \ {0} : n = Len(args) /\ DOMAIN args = 1 .. n
  BY LenProperties
<1>2. PICK s : s = [k \in DOMAIN args |-> y[heap[args[k]].exp]]
  OBVIOUS
<1>3. DOMAIN s = 1 .. n /\ \A k \in 1 .. n : s[k] = y[heap[args[k]].exp] /\ s[k] \in Prints
  BY <1>1, <1>2
<1>4. s \in Seq(Prints) /\ Len(s) = n /\ s # << >>
  <2>1. s \in [1 .. n -> Prints]
    BY <1>1, <1>2, <1>3
  <2>2. s \in Seq(Prints)
    BY <2>1
  <2>. QED
    BY <1>1, <1>3, <2>2, LenProperties
<1>5. PICK sep : sep = << Comma >>
  OBVIOUS
<1>6. sep \in Prints
  BY <1>5 DEF Prints, Comma
<1>7. Listed(y, args) = FlattenSeq(Between(s, sep))
  BY <1>2, <1>5 DEF Listed
<1>8. Listed(y, args) \in Prints /\ (n = 1 => Listed(y, args) = s[1])
  BY <1>4, <1>6, <1>7, PrintedBetween
<1>9. ASSUME NEW a \in Nat, y[heap[a].exp] \in Prints
      PROVE  Listed(y, Append(args, a)) = Listed(y, args) \o sep \o y[heap[a].exp]
  <2>1. PICK more : more = Append(args, a)
    OBVIOUS
  <2>2. /\ DOMAIN more = 1 .. n + 1 /\ more[n + 1] = a
        /\ \A k \in 1 .. n : more[k] = args[k]
    BY <1>1, <2>1
  <2>3. PICK x : x = y[heap[a].exp]
    OBVIOUS
  <2>4. PICK t : t = Append(s, x)
    OBVIOUS
  <2>5. DOMAIN t = 1 .. n + 1 /\ t[n + 1] = x /\ (\A k \in 1 .. n : t[k] = s[k]) /\ t \in Seq(Prints)
    BY <1>4, <1>9, <2>3, <2>4
  <2>6. \A k \in 1 .. n + 1 : k \in 1 .. n \/ k = n + 1
    BY <1>1
  <2>7. \A k \in 1 .. n + 1 : t[k] = y[heap[more[k]].exp]
    BY <1>3, <2>2, <2>3, <2>5, <2>6
  <2>8. t = [k \in DOMAIN more |-> y[heap[more[k]].exp]]
    BY <2>2, <2>5, <2>7
  <2>9. FlattenSeq(Between(t, sep)) = FlattenSeq(Between(s, sep)) \o sep \o x
    BY <1>4, <1>6, <1>9, <2>3, <2>4, PrintedNext
  <2>10. Listed(y, more) = FlattenSeq(Between(t, sep))
    BY <1>5, <2>8 DEF Listed
  <2>. QED
    BY <1>7, <2>1, <2>3, <2>9, <2>10
<1>10. \A a \in Nat : y[heap[a].exp] \in Prints =>
         Listed(y, Append(args, a)) = Listed(y, args) \o << Comma >> \o y[heap[a].exp]
  BY <1>5, <1>9
<1>11. Len(args) = 1 => Listed(y, args) = y[heap[args[1]].exp]
  BY <1>1, <1>3, <1>8
<1>. QED
  BY <1>8, <1>10, <1>11

(* What is printed of the nodes there are does not change when others are  *)
(* allocated.                                                              *)
LEMMA ListedStays ==
  ASSUME HeapOK, NEW n \in Nat, Allocates(n), NEW y, NEW w, \A e \in Exps : w[e] = y[e],
         NEW args, \A k \in DOMAIN args : Is(args[k], "arg")
  PROVE  /\ Listed(w, args)' = Listed(y, args)
         /\ \A k \in DOMAIN args : heap[args[k]].exp \in Exps
<1>1. ASSUME NEW k \in DOMAIN args
      PROVE  heap'[args[k]] = heap[args[k]] /\ heap[args[k]].exp \in Exps
  <2>1. args[k] \in DOMAIN heap /\ heap[args[k]].kind = "arg"
    BY DEF Is
  <2>2. Is(heap[args[k]].exp, "exp")
    BY <2>1 DEF HeapOK, NodeOK
  <2>. QED
    BY <2>1, <2>2, NodesStay DEF Exps, Is
<1>2. [k \in DOMAIN args |-> w[heap'[args[k]].exp]] = [k \in DOMAIN args |-> y[heap[args[k]].exp]]
  BY <1>1
<1>. QED
  BY <1>1, <1>2 DEF Listed

(* A call is printed as before when more is allocated. *)
LEMMA CallPrintedStays ==
  ASSUME HeapOK, NEW n \in Nat, Allocates(n), NEW y, NEW w, \A e \in Exps : w[e] = y[e],
         NEW g, Is(g, "func")
  PROVE  CallPrinted(w, heap[g].name, heap[g].args)' = CallPrinted(y, heap[g].name, heap[g].args)
<1>1. g \in DOMAIN heap /\ NodeOK(g) /\ heap[g].kind = "func"
  BY DEF Is, HeapOK
<1>2. Is(heap[g].name, "str") /\ \A k \in DOMAIN heap[g].args : Is(heap[g].args[k], "arg")
  BY <1>1 DEF NodeOK
<1>3. heap'[g] = heap[g] /\ heap'[heap[g].name] = heap[heap[g].name]
  BY <1>1, <1>2, NodesStay DEF Is
<1>4. PICK args : args = heap[g].args
  OBVIOUS
<1>5. Listed(w, args)' = Listed(y, args)
  BY <1>2, <1>4, ListedStays
<1>6. PICK name : name = heap[g].name
  OBVIOUS
<1>7. CallPrinted(w, name, args)' = CallPrinted(y, name, args)
  BY <1>3, <1>5, <1>6 DEF CallPrinted
<1>. QED
  BY <1>3, <1>4, <1>6, <1>7

(* So what is printed of an expression stays, and of an entry of the stack. *)
LEMMA PrintsStay ==
  ASSUME HeapOK, NEW n \in Nat, Allocates(n), NEW y, PrintsExps(y), NEW w, \A e \in Exps : w[e] = y[e],
         \A e \in Exps' : e \notin Exps => w[e] \in Prints /\ w[e] = ExpPrinted(w, e)'
  PROVE  PrintsExps(w)'
<1>1. ASSUME NEW e \in Exps PROVE w[e] \in Prints /\ w[e] = ExpPrinted(w, e)'
  <2>1. e \in DOMAIN heap /\ Is(e, "exp") /\ heap'[e] = heap[e]
    BY NodesStay DEF Exps, Is
  <2>2. y[e] \in Prints /\ y[e] = ExpPrinted(y, e) /\ w[e] = y[e]
    BY DEF PrintsExps
  <2>3. PICK v : v = heap[e].val
    OBVIOUS
  <2>4. CASE heap[e].type = "STRING"
    <3>1. heap'[v] = heap[v]
      BY <2>1, <2>3, <2>4, ExpIs, NodesStay DEF Is
    <3>. QED
      BY <2>1, <2>2, <2>3, <2>4, <3>1 DEF ExpPrinted
  <2>5. CASE heap[e].type = "P13N"
    <3>1. heap'[v] = heap[v] /\ heap'[heap[v].name] = heap[heap[v].name]
      BY <2>1, <2>3, <2>5, ExpIs, NodesStay DEF Is
    <3>. QED
      BY <2>1, <2>2, <2>3, <2>5, <3>1 DEF ExpPrinted
  <2>6. CASE heap[e].type = "FUNC"
    <3>1. Is(v, "func") /\ heap'[v] = heap[v]
      BY <2>1, <2>3, <2>6, ExpIs, NodesStay DEF Is
    <3>2. CallPrinted(w, heap[v].name, heap[v].args)' = CallPrinted(y, heap[v].name, heap[v].args)
      BY <3>1, CallPrintedStays
    <3>3. ExpPrinted(y, e) = CallPrinted(y, heap[v].name, heap[v].args)
      BY <2>3, <2>6 DEF ExpPrinted, FuncOf, Args
    <3>4. ExpPrinted(w, e)' = CallPrinted(w, heap[v].name, heap[v].args)'
      BY <2>1, <2>3, <2>6 DEF ExpPrinted, FuncOf, Args
    <3>. QED
      BY <2>2, <3>2, <3>3, <3>4
  <2>. QED
    BY <2>1, <2>4, <2>5, <2>6, ExpIs
<1>. QED
  BY <1>1 DEF PrintsExps

(* What is below the top of the stack is printed as before. *)
LEMMA SaysStay ==
  ASSUME HeapOK, NEW n \in Nat, Allocates(n), NEW y, NEW w, \A e \in Exps : w[e] = y[e],
         NEW k, EntryOK(k), stack'[k] = stack[k], NEW s, Says(y, k, s)
  PROVE  Says(w, k, s)'
<1>1. PICK val : val = stack[k].val
  OBVIOUS
<1>2. PICK sym : sym = stack[k].sym
  OBVIOUS
<1>3. CASE sym \in {"IDENT", "STRING"}
  <2>1. heap'[val] = heap[val]
    BY <1>1, <1>2, <1>3, NodesStay DEF EntryOK, Is
  <2>. QED
    BY <1>1, <1>2, <1>3, <2>1 DEF Says
<1>4. CASE sym \in {"LEFT_PAREN", "RIGHT_PAREN", "COMMA"}
  BY <1>1, <1>2, <1>4 DEF Says
<1>5. CASE sym = "expression"
  <2>1. val \in Exps
    BY <1>1, <1>2, <1>5 DEF EntryOK, Is, Exps
  <2>. QED
    BY <1>1, <1>2, <1>5, <2>1 DEF Says
<1>6. CASE sym = "func"
  <2>1. Is(val, "func")
    BY <1>1, <1>2, <1>6 DEF EntryOK
  <2>2. heap'[val] = heap[val]
    BY <2>1, NodesStay DEF Is
  <2>3. CallPrinted(w, heap[val].name, heap[val].args)' = CallPrinted(y, heap[val].name, heap[val].args)
    BY <2>1, CallPrintedStays
  <2>4. s = CallPrinted(y, heap[val].name, heap[val].args)
    BY <1>1, <1>2, <1>6 DEF Says
  <2>5. s = CallPrinted(w, heap[val].name, heap[val].args)'
    BY <2>3, <2>4
  <2>. QED
    BY <1>1, <1>2, <1>6, <2>5 DEF Says
<1>7. CASE sym = "list"
  <2>1. \A m \in DOMAIN val : Is(val[m], "arg")
    BY <1>1, <1>2, <1>7 DEF EntryOK
  <2>2. Listed(w, val)' = Listed(y, val)
    BY <2>1, ListedStays
  <2>3. Len(val) # 0 /\ s = Listed(w, val)'
    BY <1>1, <1>2, <1>7, <2>2 DEF Says
  <2>. QED
    BY <1>1, <1>2, <1>7, <2>3 DEF Says
<1>8. CASE sym \notin {"IDENT", "STRING", "LEFT_PAREN", "RIGHT_PAREN", "COMMA", "expression", "func", "list"}
  BY <1>2, <1>8 DEF Says
<1>. QED
  BY <1>3, <1>4, <1>5, <1>6, <1>7, <1>8

(* The text, as it would be printed. *)
LEMMA StrsAre ==
  ASSUME TextOK
  PROVE  /\ Strs \in Prints /\ Len(Strs) = Len(text) /\ Len(text) \in Nat /\ read \in Nat
         /\ \A k \in 1 .. Len(text) : Strs[k] = text[k].str /\ text[k] \in Tokens
<1>1. PICK n \in Nat : n = Len(text) /\ DOMAIN text = 1 .. n /\ \A k \in 1 .. n : text[k] \in Tokens
  BY LenProperties DEF TextOK
<1>2. ASSUME NEW t \in Tokens PROVE t.str \in Seq(Nat)
  <2>1. Left \in Seq(Nat) /\ Right \in Seq(Nat) /\ Comma \in Seq(Nat)
    BY DEF Left, Right, Comma
  <2>2. CASE t \in [type : {"IDENT", "STRING"}, str : Seq(Nat)]
    BY <2>2
  <2>3. CASE t \in {Token("LEFT_PAREN", Left), Token("RIGHT_PAREN", Right), Token("COMMA", Comma)}
    BY <2>1, <2>3 DEF Token
  <2>. QED
    BY <2>2, <2>3 DEF Tokens
<1>3. PICK s : s = Strs
  OBVIOUS
<1>4. s = [k \in 1 .. n |-> text[k].str]
  BY <1>1, <1>3 DEF Strs
<1>5. \A k \in 1 .. n : text[k].str \in Seq(Nat)
  BY <1>1, <1>2
<1>6. s \in [1 .. n -> Seq(Nat)]
  BY <1>4, <1>5
<1>7. s \in Prints /\ Len(s) = n
  BY <1>6 DEF Prints
<1>. QED
  BY <1>1, <1>3, <1>4, <1>7 DEF TextOK

(* The tokens of the entries that go are the new one's. *)
LEMMA SpansJoin ==
  ASSUME TextOK, StackOK, NEW b, Spans(b), NEW m \in Nat, NEW sym, NEW val, Pushes(m, sym, val),
         NEW top, top = Len(stack) - m + 1, text' = text,
         \/ m = 0 /\ read < Len(text) /\ read' = read + 1
         \/ m # 0 /\ read' = read
  PROVE  \E c : /\ Spans(c)'
                /\ \A k \in 1 .. top - 1 : Span(c, k)' = Span(b, k)
                /\ Span(c, top)' = SubSeq(Strs, b[top - 1] + 1, read')
                /\ top - 1 \in 0 .. Len(stack) /\ b[top - 1] \in 0 .. Len(text)
                /\ \A k \in 0 .. top : c[k] = IF k < top THEN b[k] ELSE read'
<1>1. PICK n \in Nat : n = Len(stack)
  BY LenProperties DEF StackOK
<1>2. m <= n /\ top \in Nat \ {0} /\ top = n - m + 1 /\ Len(stack') = top
  BY <1>1 DEF Pushes
<1>3. PICK c : c = [k \in 0 .. top |-> IF k < top THEN b[k] ELSE read']
  OBVIOUS
<1>4. PICK l \in Nat : l = Len(text)
  BY StrsAre
<1>5. /\ b \in [0 .. n -> 0 .. l] /\ b[0] = 0 /\ b[n] = read /\ \A k \in 1 .. n : b[k - 1] < b[k]
  BY <1>1, <1>4 DEF Spans
<1>6. read \in Nat /\ read' \in 0 .. l
  BY <1>4, StrsAre DEF TextOK
<1>7. /\ DOMAIN c = 0 .. top /\ c[top] = read' /\ \A k \in 0 .. top - 1 : c[k] = b[k] /\ k \in 0 .. n
  <2>1. c = [k \in 0 .. top |-> IF k < top THEN b[k] ELSE read']
    BY <1>3
  <2>2. top \in 0 .. top /\ ~(top < top) /\ \A k \in 0 .. top - 1 : k \in 0 .. top /\ k < top /\ k \in 0 .. n
    BY <1>2
  <2>. QED
    BY <2>1, <2>2
<1>8. \A k \in 0 .. top : k \in 0 .. top - 1 \/ k = top
  BY <1>2
<1>9. c \in [0 .. top -> 0 .. l]
  <2>1. \A k \in 0 .. top : c[k] \in 0 .. l
    BY <1>5, <1>6, <1>7, <1>8
  <2>2. c = [k \in 0 .. top |-> IF k < top THEN b[k] ELSE read']
    BY <1>3
  <2>. QED
    BY <2>1, <2>2
<1>10. c[0] = 0
  <2>1. 0 \in 0 .. top - 1
    BY <1>2
  <2>. QED
    BY <1>5, <1>7, <2>1
<1>11. b[top - 1] < read'
  <2>1. CASE m = 0
    <3>1. top - 1 = n /\ read' = read + 1
      BY <1>2, <2>1
    <3>. QED
      BY <1>5, <1>6, <3>1
  <2>2. CASE m # 0
    <3>1. top \in 1 .. n /\ read' = read
      BY <1>2, <2>2
    <3> DEFINE S == {k \in Nat : k + top <= n => b[top - 1] < b[k + top]}
    <3>2. 0 \in S
      BY <1>2, <1>5, <3>1
    <3>3. ASSUME NEW k \in S \cap Nat PROVE k + 1 \in S
      <4>1. CASE k + 1 + top <= n
        <5>1. k + 1 + top \in 1 .. n /\ (k + 1 + top) - 1 = k + top /\ k + top <= n
          BY <1>2, <4>1
        <5>2. b[top - 1] < b[k + top]
          BY <5>1
        <5>3. b[k + top] < b[k + 1 + top]
          BY <1>5, <5>1
        <5>4. top - 1 \in 0 .. n /\ k + top \in 0 .. n /\ k + 1 + top \in 0 .. n
          BY <1>2, <3>1, <5>1
        <5>5. \A x \in 0 .. n : b[x] \in Nat
          BY <1>5
        <5>6. b[top - 1] \in Nat /\ b[k + top] \in Nat /\ b[k + 1 + top] \in Nat
          BY <5>4, <5>5
        <5>7. b[top - 1] < b[k + 1 + top]
          BY <5>2, <5>3, <5>6
        <5>. QED
          BY <5>7
      <4>2. CASE ~(k + 1 + top <= n)
        BY <4>2
      <4>. QED
        BY <4>1, <4>2
    <3> HIDE DEF S
    <3>4. Nat \subseteq S
      BY <3>2, <3>3, AllNumbers
    <3>5. n - top \in S
      BY <1>2, <3>1, <3>4
    <3>6. b[top - 1] < b[n - top + top] /\ n - top + top = n
      BY <1>2, <3>5 DEF S
    <3>. QED
      BY <1>5, <3>1, <3>6
  <2>. QED
    BY <2>1, <2>2
<1>12. ASSUME NEW k \in 1 .. top PROVE c[k - 1] < c[k] /\ c[k - 1] = b[k - 1]
  <2>1. k - 1 \in 0 .. top - 1 /\ (k = top \/ (k \in 0 .. top - 1 /\ k \in 1 .. n))
    BY <1>2
  <2>2. c[k - 1] = b[k - 1]
    BY <1>7, <2>1
  <2>3. CASE k = top
    BY <1>7, <1>11, <2>2, <2>3
  <2>4. CASE k \in 0 .. top - 1 /\ k \in 1 .. n
    BY <1>5, <1>7, <2>2, <2>4
  <2>. QED
    BY <2>1, <2>3, <2>4
<1>13. Spans(c)'
  BY <1>2, <1>4, <1>7, <1>9, <1>10, <1>12 DEF Spans
<1>14. Strs' = Strs
  BY DEF Strs
<1>15. ASSUME NEW k \in 1 .. top - 1 PROVE Span(c, k)' = Span(b, k)
  <2>1. k \in 1 .. top /\ k \in 0 .. top - 1
    BY <1>2
  <2>. QED
    BY <1>7, <1>12, <1>14, <2>1 DEF Span
<1>16. Span(c, top)' = SubSeq(Strs, b[top - 1] + 1, read')
  <2>1. top \in 1 .. top
    BY <1>2
  <2>2. c[top - 1] = b[top - 1] /\ c[top] = read'
    BY <1>7, <1>12, <2>1
  <2>. QED
    BY <1>14, <2>2 DEF Span
<1>17. top - 1 \in 0 .. Len(stack)
  BY <1>1, <1>2
<1>18. b[top - 1] \in 0 .. Len(text)
  BY <1>1, <1>4, <1>5, <1>17
<1>19. \A k \in 0 .. top : c[k] = IF k < top THEN b[k] ELSE read'
  BY <1>3
<1>. QED
  BY <1>13, <1>15, <1>16, <1>17, <1>18, <1>19

(* The spans come one after another, and join.                             *)
LEMMA SpansGrow ==
  ASSUME TextOK, StackOK, NEW b, Spans(b), NEW i \in 0 .. Len(stack)
  PROVE  \A j \in i .. Len(stack) : b[i] <= b[j] /\ b[i] \in 0 .. Len(text) /\ b[j] \in 0 .. Len(text)
<1>1. PICK n \in Nat : n = Len(stack)
  BY LenProperties DEF StackOK
<1>2. PICK l \in Nat : l = Len(text)
  BY StrsAre
<1>3. b \in [0 .. n -> 0 .. l] /\ \A k \in 1 .. n : b[k - 1] < b[k]
  BY <1>1, <1>2 DEF Spans
<1>4. \A x \in 0 .. n : b[x] \in 0 .. l /\ b[x] \in Nat
  BY <1>3
<1>5. i \in Nat /\ i <= n /\ i \in 0 .. n
  BY <1>1
<1> DEFINE S == {k \in Nat : i + k <= n => b[i] <= b[i + k]}
<1>6. 0 \in S
  BY <1>4, <1>5
<1>7. ASSUME NEW k \in S \cap Nat PROVE k + 1 \in S
  <2>1. CASE i + k + 1 <= n
    <3>1. /\ i + k + 1 \in 1 .. n /\ i + k + 1 \in 0 .. n /\ i + k \in 0 .. n /\ i + k <= n
          /\ (i + k + 1) - 1 = i + k /\ i + (k + 1) = i + k + 1
      BY <1>5, <2>1
    <3>2. b[i] <= b[i + k] /\ b[i + k] < b[i + k + 1]
      BY <1>3, <3>1
    <3>3. b[i] \in Nat /\ b[i + k] \in Nat /\ b[i + k + 1] \in Nat
      BY <1>4, <1>5, <3>1
    <3>4. b[i] <= b[i + k + 1]
      BY <3>2, <3>3
    <3>. QED
      BY <3>1, <3>4
  <2>2. CASE ~(i + k + 1 <= n)
    <3>1. ~(i + (k + 1) <= n)
      BY <1>1, <1>5, <2>2
    <3>. QED
      BY <3>1
  <2>. QED
    BY <2>1, <2>2
<1> HIDE DEF S
<1>8. Nat \subseteq S
  BY <1>6, <1>7, AllNumbers
<1>9. ASSUME NEW j \in i .. n PROVE b[i] <= b[j] /\ b[j] \in 0 .. l
  <2>1. j - i \in Nat /\ i + (j - i) = j /\ j <= n /\ j \in 0 .. n
    BY <1>1, <1>5
  <2>2. j - i \in S
    BY <1>8, <2>1
  <2>3. b[i] <= b[j]
    BY <2>1, <2>2 DEF S
  <2>. QED
    BY <1>4, <2>1, <2>3
<1>. QED
  BY <1>1, <1>2, <1>4, <1>5, <1>9

(* The tokens of an entry are behind those of the ones before it. *)
LEMMA SpansFollow ==
  ASSUME TextOK, StackOK, NEW b, Spans(b), NEW j \in 1 .. Len(stack), NEW i \in 0 .. j - 1
  PROVE  /\ Span(b, j) \in Prints
         /\ SubSeq(Strs, b[i] + 1, b[j]) = SubSeq(Strs, b[i] + 1, b[j - 1]) \o Span(b, j)
<1>1. PICK n \in Nat : n = Len(stack)
  BY LenProperties DEF StackOK
<1>2. i \in 0 .. n /\ j - 1 \in i .. n /\ j - 1 \in 0 .. n /\ j \in j - 1 .. n
  BY <1>1
<1>3. b[i] <= b[j - 1] /\ b[i] \in 0 .. Len(text) /\ b[j - 1] \in 0 .. Len(text)
  BY <1>1, <1>2, SpansGrow
<1>4. b[j - 1] <= b[j] /\ b[j] \in 0 .. Len(text)
  BY <1>1, <1>2, SpansGrow
<1>5. PICK T : Prints = Seq(T)
  BY DEF Prints
<1>6. PICK s : s = Strs
  OBVIOUS
<1>7. s \in Seq(T) /\ Len(s) = Len(text) /\ Len(text) \in Nat
  BY <1>5, <1>6, StrsAre
<1>8. PICK x \in Nat, z \in Nat, u \in Nat : x = b[i] /\ z = b[j - 1] /\ u = b[j]
  BY <1>3, <1>4
<1>a. x \in 0 .. Len(s) /\ z \in x .. Len(s) /\ u \in z .. Len(s)
  BY <1>3, <1>4, <1>7, <1>8
<1>9. SubSeq(s, x + 1, z) \o SubSeq(s, z + 1, u) = SubSeq(s, x + 1, u)
  BY <1>7, <1>a, PartsJoin
<1>10. SubSeq(s, z + 1, u) \in Seq(T)
  BY <1>7, <1>a
<1>. QED
  BY <1>5, <1>6, <1>8, <1>9, <1>10 DEF Span

(* What was printed so far is, after a step that pushes an entry for the   *)
(* tokens it stands for.                                                   *)
LEMMA PrintedNextStep ==
  ASSUME TextOK, HeapOK, StackOK, NEW b, NEW y, PrintedSoFar(b, y),
         NEW n \in Nat, Allocates(n), NEW m \in Nat, NEW sym, NEW val, Pushes(m, sym, val),
         NEW top, top = Len(stack) - m + 1, text' = text,
         \/ m = 0 /\ read < Len(text) /\ read' = read + 1
         \/ m # 0 /\ read' = read,
         NEW w, \A e \in Exps : w[e] = y[e],
         \A e \in Exps' : e \notin Exps => w[e] \in Prints /\ w[e] = ExpPrinted(w, e)',
         NEW s, s = SubSeq(Strs, b[top - 1] + 1, read'), Says(w, top, s)'
  PROVE  \E c, v : PrintedSoFar(c, v)'
<1>1. Spans(b) /\ PrintsExps(y) /\ \A k \in DOMAIN stack : Says(y, k, Span(b, k))
  BY DEF PrintedSoFar
<1>2. PICK c : /\ Spans(c)'
               /\ \A k \in 1 .. top - 1 : Span(c, k)' = Span(b, k)
               /\ Span(c, top)' = SubSeq(Strs, b[top - 1] + 1, read')
  BY <1>1, SpansJoin
<1>3. PrintsExps(w)'
  BY <1>1, PrintsStay
<1>4. /\ Len(stack) \in Nat /\ DOMAIN stack = 1 .. Len(stack) /\ m <= Len(stack)
      /\ DOMAIN stack' = 1 .. top /\ \A k \in 1 .. top - 1 : stack'[k] = stack[k]
  BY EntriesStay DEF Pushes
<1>5. ASSUME NEW k \in 1 .. top - 1 PROVE Says(w, k, Span(c, k))'
  <2>a. k \in 1 .. Len(stack)
    BY <1>4
  <2>1. k \in DOMAIN stack /\ stack'[k] = stack[k] /\ EntryOK(k)
    BY <1>4, <2>a DEF StackOK
  <2>2. PICK z : z = Span(b, k)
    OBVIOUS
  <2>3. Says(y, k, z)
    BY <1>1, <2>1, <2>2
  <2>4. Says(w, k, z)'
    BY <2>1, <2>3, SaysStay
  <2>5. Span(c, k)' = z
    BY <1>2, <2>2
  <2>. QED
    BY <2>4, <2>5 DEF Says
<1>6. Says(w, top, Span(c, top))'
  BY <1>2 DEF Says
<1>7. \A k \in DOMAIN stack' : k \in 1 .. top - 1 \/ k = top
  BY <1>4
<1>8. PrintedSoFar(c, w)'
  BY <1>2, <1>3, <1>5, <1>6, <1>7 DEF PrintedSoFar
<1>. QED
  BY <1>8

(* The tokens of the topmost entries. *)
LEMMA TopSpans ==
  ASSUME TextOK, StackOK, NEW b, Spans(b), NEW m \in Nat, m <= Len(stack), NEW top, top = Len(stack) - m + 1,
         NEW s, s = SubSeq(Strs, b[top - 1] + 1, read)
  PROVE  LET n == Len(stack)
         IN  /\ m = 1 => s = Span(b, n) /\ s \in Prints
             /\ m = 3 => s = Span(b, n - 2) \o Span(b, n - 1) \o Span(b, n)
             /\ m = 4 => s = Span(b, n - 3) \o Span(b, n - 2) \o Span(b, n - 1) \o Span(b, n)
<1>1. PICK n \in Nat : n = Len(stack)
  BY LenProperties DEF StackOK
<1>2. b[n] = read
  BY <1>1 DEF Spans
<1>3. \A j \in 1 .. n : \A i \in 0 .. j - 1 :
        /\ Span(b, j) \in Prints
        /\ SubSeq(Strs, b[i] + 1, b[j]) = SubSeq(Strs, b[i] + 1, b[j - 1]) \o Span(b, j)
  BY <1>1, SpansFollow
<1>4. ASSUME m = 1 PROVE s = Span(b, n) /\ s \in Prints
  <2>1. top = n /\ n \in 1 .. n /\ 0 \in 0 .. n - 1
    BY <1>1, <1>4
  <2>. QED
    BY <1>2, <1>3, <2>1 DEF Span
<1>5. ASSUME m = 3 PROVE s = Span(b, n - 2) \o Span(b, n - 1) \o Span(b, n)
  <2>1. PICK i \in Nat : i = n - 3
    BY <1>1, <1>5
  <2>a. PICK j \in Nat : j = n - 2
    BY <1>1, <1>5
  <2>b. PICK k \in Nat : k = n - 1
    BY <1>1, <1>5
  <2>2. /\ top - 1 = i /\ n - 2 = j /\ n - 1 = k
        /\ k \in 1 .. n /\ n \in 1 .. n /\ i \in 0 .. k - 1 /\ i \in 0 .. n - 1
        /\ j - 1 = i /\ k - 1 = j
    BY <1>1, <1>5, <2>1, <2>a, <2>b
  <2>3. SubSeq(Strs, b[i] + 1, b[n]) = SubSeq(Strs, b[i] + 1, b[k]) \o Span(b, n)
    BY <1>3, <2>2
  <2>4. SubSeq(Strs, b[i] + 1, b[k]) = SubSeq(Strs, b[i] + 1, b[j]) \o Span(b, k)
    BY <1>3, <2>2
  <2>5. SubSeq(Strs, b[i] + 1, b[j]) = Span(b, j)
    BY <2>2 DEF Span
  <2>. QED
    BY <1>2, <2>2, <2>3, <2>4, <2>5
<1>6. ASSUME m = 4 PROVE s = Span(b, n - 3) \o Span(b, n - 2) \o Span(b, n - 1) \o Span(b, n)
  <2>1. PICK i \in Nat : i = n - 4
    BY <1>1, <1>6
  <2>a. PICK h \in Nat : h = n - 3
    BY <1>1, <1>6
  <2>b. PICK j \in Nat : j = n - 2
    BY <1>1, <1>6
  <2>c. PICK k \in Nat : k = n - 1
    BY <1>1, <1>6
  <2>2. /\ top - 1 = i /\ n - 3 = h /\ n - 2 = j /\ n - 1 = k
        /\ j \in 1 .. n /\ k \in 1 .. n /\ n \in 1 .. n
        /\ i \in 0 .. j - 1 /\ i \in 0 .. k - 1 /\ i \in 0 .. n - 1
        /\ h - 1 = i /\ j - 1 = h /\ k - 1 = j
    BY <1>1, <1>6, <2>1, <2>a, <2>b, <2>c
  <2>3. SubSeq(Strs, b[i] + 1, b[n]) = SubSeq(Strs, b[i] + 1, b[k]) \o Span(b, n)
    BY <1>3, <2>2
  <2>4. SubSeq(Strs, b[i] + 1, b[k]) = SubSeq(Strs, b[i] + 1, b[j]) \o Span(b, k)
    BY <1>3, <2>2
  <2>5. SubSeq(Strs, b[i] + 1, b[j]) = SubSeq(Strs, b[i] + 1, b[h]) \o Span(b, j)
    BY <1>3, <2>2
  <2>6. SubSeq(Strs, b[i] + 1, b[h]) = Span(b, h)
    BY <2>2 DEF Span
  <2>. QED
    BY <1>2, <2>2, <2>3, <2>4, <2>5, <2>6
<1>. QED
  BY <1>1, <1>4, <1>5, <1>6

(* The token shifted. *)
LEMMA ShiftedSpan ==
  ASSUME TextOK, StackOK, NEW b, Spans(b), NEW top, top = Len(stack) - 0 + 1, read < Len(text),
         read' = read + 1, NEW s, s = SubSeq(Strs, b[top - 1] + 1, read')
  PROVE  s = << text[read + 1].str >>
<1>1. PICK n \in Nat : n = Len(stack) /\ top - 1 = n
  BY LenProperties DEF StackOK
<1>2. b[top - 1] = read
  BY <1>1 DEF Spans
<1>3. PICK t : t = Strs
  OBVIOUS
<1>4. t \in Prints /\ Len(t) = Len(text) /\ read \in Nat /\ Len(text) \in Nat
  BY <1>3, StrsAre
<1>5. read + 1 \in 1 .. Len(t) /\ t[read + 1] = text[read + 1].str
  BY <1>3, <1>4, StrsAre
<1>6. PICK i : i = read + 1
  OBVIOUS
<1>7. SubSeq(t, i, i) = << t[i] >>
  <2>1. PICK T : t \in Seq(T)
    BY <1>4 DEF Prints
  <2>2. i \in 1 .. Len(t) /\ i \in Nat
    BY <1>4, <1>5, <1>6
  <2>3. PICK u : u = SubSeq(t, i, i)
    OBVIOUS
  <2>4. u \in Seq(T) /\ Len(u) = 1 /\ u[1] = t[i]
    BY <2>1, <2>2, <2>3
  <2>5. u = [m \in 1 .. 1 |-> u[m]]
    BY <2>4, LenProperties
  <2>6. PICK x : x = t[i]
    OBVIOUS
  <2>7. << x >> = [m \in 1 .. 1 |-> x]
    OBVIOUS
  <2>8. u = << x >>
    BY <2>4, <2>5, <2>6, <2>7
  <2>. QED
    BY <2>3, <2>6, <2>8
<1>. QED
  BY <1>2, <1>3, <1>5, <1>6, <1>7

(* An expression is allocated for what the entry replaced stands for.      *)
LEMMA ExpressionSays ==
  ASSUME TextOK, HeapOK, StackOK, NEW b, NEW y, PrintedSoFar(b, y), UNCHANGED << text, read >>,
         NEW n \in Nat, NEW new, Allocates(n), Pushes(1, "expression", new),
         Exps' = Exps \cup {new}, new \notin Exps,
         NEW s, s = Span(b, Len(stack)), \A w : (\A e \in Exps : w[e] = y[e]) => ExpPrinted(w, new)' = s
  PROVE  \E c, v : PrintedSoFar(c, v)'
<1>1. PICK w : w = [e \in Exps \cup {new} |-> IF e \in Exps THEN y[e] ELSE s]
  OBVIOUS
<1>2. (\A e \in Exps : w[e] = y[e]) /\ w[new] = s
  BY <1>1
<1>3. PICK top : top = Len(stack) - 1 + 1
  OBVIOUS
<1>4. s = SubSeq(Strs, b[top - 1] + 1, read') /\ s \in Prints
  <2>1. PICK z : z = SubSeq(Strs, b[top - 1] + 1, read)
    OBVIOUS
  <2>2. Spans(b) /\ 1 <= Len(stack)
    BY DEF PrintedSoFar, Pushes
  <2>3. z = Span(b, Len(stack)) /\ z \in Prints
    BY <1>3, <2>1, <2>2, TopSpans
  <2>. QED
    BY <2>1, <2>3
<1>5. ExpPrinted(w, new)' = s
  BY <1>2
<1>6. \A e \in Exps' : e \notin Exps => w[e] \in Prints /\ w[e] = ExpPrinted(w, e)'
  <2>1. ASSUME NEW e \in Exps', e \notin Exps PROVE e = new
    BY <2>1
  <2>2. w[new] \in Prints /\ w[new] = ExpPrinted(w, new)'
    BY <1>2, <1>4, <1>5
  <2>. QED
    BY <2>1, <2>2
<1>7. Says(w, top, s)'
  <2>1. stack'[top].sym = "expression" /\ stack'[top].val = new
    BY <1>3 DEF Pushes, Symbol
  <2>. QED
    BY <1>2, <2>1 DEF Says
<1>8. text' = text /\ read' = read /\ 1 # 0 /\ 1 \in Nat
  OBVIOUS
<1>9. \E c, v : PrintedSoFar(c, v)'
  BY <1>2, <1>3, <1>4, <1>6, <1>7, <1>8, PrintedNextStep
<1>. QED
  BY <1>9

(* The expressions there are after a step: those there were, and the new   *)
(* ones.                                                                   *)
LEMMA ExpsAre ==
  ASSUME HeapOK, NEW n \in Nat, Allocates(n)
  PROVE  \A e : e \in Exps' <=>
           e \in Exps \/ (e \in Len(heap) + 1 .. Len(heap) + n /\ heap'[e].kind = "exp")
<1>1. PICK h \in Nat : h = Len(heap)
  BY NodesStay
<1>2. /\ DOMAIN heap = 1 .. h /\ DOMAIN heap' = 1 .. h + n
      /\ \A p \in DOMAIN heap : heap'[p] = heap[p]
  BY <1>1, NodesStay
<1>3. \A e : e \in 1 .. h + n <=> e \in 1 .. h \/ e \in h + 1 .. h + n
  BY <1>1
<1>4. \A e : e \in Exps' <=> e \in 1 .. h + n /\ heap'[e].kind = "exp"
  BY <1>2 DEF Exps
<1>5. \A e : e \in Exps <=> e \in 1 .. h /\ heap[e].kind = "exp"
  BY <1>2 DEF Exps
<1>. QED
  BY <1>1, <1>2, <1>3, <1>4, <1>5

(* Each step of the parser keeps what was printed.                         *)
LEMMA ShiftsNamePrints ==
  ASSUME TextOK, HeapOK, StackOK, NEW b, NEW y, PrintedSoFar(b, y), ShiftsName,
         read < Len(text), read' = read + 1, text' = text
  PROVE  \E c, v : PrintedSoFar(c, v)'
<1>1. PICK new : new = NewPtr
  OBVIOUS
<1>2. PICK token : token = text[read + 1]
  OBVIOUS
<1>3. PICK sym : sym = token.type
  OBVIOUS
<1>4. /\ Allocates(1) /\ heap'[new] = Name(token.str) /\ Pushes(0, sym, new)
      /\ sym \in {"IDENT", "STRING"}
  BY <1>1, <1>2, <1>3 DEF ShiftsName
<1>5. PICK top : top = Len(stack) - 0 + 1
  OBVIOUS
<1>6. PICK s : s = SubSeq(Strs, b[top - 1] + 1, read')
  OBVIOUS
<1>7. s = << token.str >>
  BY <1>2, <1>5, <1>6, ShiftedSpan DEF PrintedSoFar
<1>8. Says(y, top, s)'
  <2>1. stack'[top].sym = sym /\ stack'[top].val = new
    BY <1>4, <1>5 DEF Pushes, Symbol
  <2>. QED
    BY <1>4, <1>7, <2>1 DEF Says, Name
<1>9. \A e \in Exps' : e \in Exps
  <2>1. heap'[new].kind # "exp" /\ Len(heap) \in Nat /\ new = Len(heap) + 1
    BY <1>1, <1>4, NewPtrIs DEF Name
  <2>2. Len(heap) + 1 .. Len(heap) + 1 = {new}
    BY <2>1
  <2>. QED
    BY <1>4, <2>1, <2>2, ExpsAre
<1>10. \E c, v : PrintedSoFar(c, v)'
  BY <1>4, <1>5, <1>6, <1>8, <1>9, PrintedNextStep
<1>. QED
  BY <1>10

(* A parenthesis or a comma that is shifted is printed as it was read, *)
LEMMA ShiftsMarkPrints ==
  ASSUME TextOK, HeapOK, StackOK, NEW b, NEW y, PrintedSoFar(b, y), ShiftsMark,
         read < Len(text), read' = read + 1, text' = text
  PROVE  \E c, v : PrintedSoFar(c, v)'
<1>1. PICK token : token = text[read + 1]
  OBVIOUS
<1>2. PICK sym : sym = token.type
  OBVIOUS
<1>3. UNCHANGED heap /\ Pushes(0, sym, 0) /\ sym \in {"LEFT_PAREN", "RIGHT_PAREN", "COMMA"}
  BY <1>1, <1>2 DEF ShiftsMark
<1>4. Allocates(0)
  BY <1>3, LenProperties DEF HeapOK, Allocates
<1>5. PICK top : top = Len(stack) - 0 + 1
  OBVIOUS
<1>6. PICK s : s = SubSeq(Strs, b[top - 1] + 1, read')
  OBVIOUS
<1>7. s = << token.str >>
  BY <1>1, <1>5, <1>6, ShiftedSpan DEF PrintedSoFar
<1>8. token \in Tokens
  <2>1. read + 1 \in 1 .. Len(text)
    BY StrsAre
  <2>. QED
    BY <1>1, <2>1, StrsAre
<1>9. /\ sym = "LEFT_PAREN" => token.str = Left
      /\ sym = "RIGHT_PAREN" => token.str = Right
      /\ sym = "COMMA" => token.str = Comma
  BY <1>2, <1>3, <1>8 DEF Tokens, Token
<1>10. Says(y, top, s)'
  <2>1. stack'[top].sym = sym
    BY <1>3, <1>5 DEF Pushes, Symbol
  <2>. QED
    BY <1>3, <1>7, <1>9, <2>1 DEF Says
<1>11. \A e \in Exps' : e \in Exps
  BY <1>3 DEF Exps
<1>12. \E c, v : PrintedSoFar(c, v)'
  BY <1>3, <1>4, <1>5, <1>6, <1>10, <1>11, PrintedNextStep
<1>. QED
  BY <1>12

(* What a new expression adds to them. *)
LEMMA NewExps ==
  ASSUME HeapOK, NEW n \in {1, 2}, Allocates(n), NEW new, new = NewPtr,
         heap'[new].kind = "exp", n = 2 => heap'[new + 1].kind # "exp"
  PROVE  Exps' = Exps \cup {new} /\ new \notin Exps
<1>1. PICK h \in Nat : h = Len(heap) /\ DOMAIN heap = 1 .. h /\ new = h + 1
  BY NewPtrIs, NodesStay
<1>2. \A e \in h + 1 .. h + n : e = new \/ (n = 2 /\ e = new + 1)
  BY <1>1
<1>a. new \in h + 1 .. h + n
  BY <1>1
<1>3. new \notin Exps
  BY <1>1 DEF Exps
<1>4. \A e : e \in Exps' <=> e \in Exps \/ (e \in h + 1 .. h + n /\ heap'[e].kind = "exp")
  BY <1>1, ExpsAre
<1>. QED
  BY <1>2, <1>a, <1>3, <1>4

(* a string or a name as its token, *)
LEMMA MakesStringPrints ==
  ASSUME TextOK, HeapOK, StackOK, NEW b, NEW y, PrintedSoFar(b, y), MakesString, UNCHANGED << text, read >>
  PROVE  \E c, v : PrintedSoFar(c, v)'
<1>1. PICK new : new = NewPtr
  OBVIOUS
<1>2. PICK n : n = Len(stack)
  OBVIOUS
<1>3. PICK v : v = Top.val
  OBVIOUS
<1>4. /\ Allocates(1) /\ heap'[new] = Exp("STRING", v) /\ Pushes(1, "expression", new)
      /\ stack[n].sym \in {"IDENT", "STRING"}
  BY <1>1, <1>2, <1>3 DEF MakesString, At
<1>5. n \in Nat /\ 0 < n /\ n \in DOMAIN stack /\ EntryOK(n) /\ v = stack[n].val
  <2>1. n \in Nat /\ 1 <= n
    BY <1>2, <1>4, LenProperties DEF StackOK, Pushes
  <2>. QED
    BY <1>2, <1>3, <2>1, BelowIs
<1>6. PICK s : s = Span(b, n)
  OBVIOUS
<1>7. s = << heap[v].str >> /\ Is(v, "str")
  BY <1>4, <1>5, <1>6 DEF PrintedSoFar, Says, EntryOK
<1>8. heap'[v] = heap[v]
  BY <1>4, <1>7, NodesStay DEF Is
<1>9. Exps' = Exps \cup {new} /\ new \notin Exps
  BY <1>1, <1>4, NewExps DEF Exp
<1>10. ASSUME NEW w PROVE ExpPrinted(w, new)' = s
  BY <1>4, <1>7, <1>8 DEF ExpPrinted, Exp
<1>. QED
  BY <1>2, <1>4, <1>6, <1>9, <1>10, ExpressionSays

(* a field as its name, *)
LEMMA MakesFieldPrints ==
  ASSUME TextOK, HeapOK, StackOK, NEW b, NEW y, PrintedSoFar(b, y), MakesField, UNCHANGED << text, read >>
  PROVE  \E c, v : PrintedSoFar(c, v)'
<1>1. PICK new : new = NewPtr
  OBVIOUS
<1>2. PICK n : n = Len(stack)
  OBVIOUS
<1>3. PICK v : v = Top.val
  OBVIOUS
<1>4. /\ Allocates(2) /\ heap'[new] = Exp("P13N", new + 1) /\ Pushes(1, "expression", new)
      /\ heap'[new + 1].name = v /\ heap'[new + 1].kind = "p13n" /\ stack[n].sym = "IDENT"
  BY <1>1, <1>2, <1>3 DEF MakesField, At, P13n
<1>5. n \in Nat /\ 0 < n /\ n \in DOMAIN stack /\ EntryOK(n) /\ v = stack[n].val
  <2>1. n \in Nat /\ 1 <= n
    BY <1>2, <1>4, LenProperties DEF StackOK, Pushes
  <2>. QED
    BY <1>2, <1>3, <2>1, BelowIs
<1>6. PICK s : s = Span(b, n)
  OBVIOUS
<1>7. s = << heap[v].str >> /\ Is(v, "str")
  BY <1>4, <1>5, <1>6 DEF PrintedSoFar, Says, EntryOK
<1>8. heap'[v] = heap[v]
  BY <1>4, <1>7, NodesStay DEF Is
<1>9. Exps' = Exps \cup {new} /\ new \notin Exps
  BY <1>1, <1>4, NewExps DEF Exp
<1>10. ASSUME NEW w PROVE ExpPrinted(w, new)' = s
  BY <1>4, <1>7, <1>8 DEF ExpPrinted, Exp
<1>. QED
  BY <1>2, <1>4, <1>6, <1>9, <1>10, ExpressionSays

(* and an expression that is a call as the call. *)
LEMMA MakesFuncPrints ==
  ASSUME TextOK, HeapOK, StackOK, NEW b, NEW y, PrintedSoFar(b, y), MakesFunc, UNCHANGED << text, read >>
  PROVE  \E c, v : PrintedSoFar(c, v)'
<1>1. PICK new : new = NewPtr
  OBVIOUS
<1>2. PICK n : n = Len(stack)
  OBVIOUS
<1>3. PICK v : v = Top.val
  OBVIOUS
<1>4. /\ Allocates(1) /\ heap'[new] = Exp("FUNC", v) /\ Pushes(1, "expression", new)
      /\ stack[n].sym = "func"
  BY <1>1, <1>2, <1>3 DEF MakesFunc, At
<1>5. n \in Nat /\ 0 < n /\ n \in DOMAIN stack /\ EntryOK(n) /\ v = stack[n].val
  <2>1. n \in Nat /\ 1 <= n
    BY <1>2, <1>4, LenProperties DEF StackOK, Pushes
  <2>. QED
    BY <1>2, <1>3, <2>1, BelowIs
<1>6. PICK s : s = Span(b, n)
  OBVIOUS
<1>7. s = CallPrinted(y, heap[v].name, heap[v].args) /\ Is(v, "func")
  BY <1>4, <1>5, <1>6 DEF PrintedSoFar, Says, EntryOK
<1>8. heap'[v] = heap[v]
  BY <1>4, <1>7, NodesStay DEF Is
<1>9. Exps' = Exps \cup {new} /\ new \notin Exps
  BY <1>1, <1>4, NewExps DEF Exp
<1>10. ASSUME NEW w, \A e \in Exps : w[e] = y[e] PROVE ExpPrinted(w, new)' = s
  <2>1. CallPrinted(w, heap[v].name, heap[v].args)' = CallPrinted(y, heap[v].name, heap[v].args)
    BY <1>4, <1>7, <1>10, CallPrintedStays
  <2>2. ExpPrinted(w, new)' = CallPrinted(w, heap[v].name, heap[v].args)'
    BY <1>4 DEF ExpPrinted, Exp, FuncOf, Args
  <2>. QED
    BY <1>7, <2>1, <2>2
<1>. QED
  BY <1>2, <1>4, <1>6, <1>9, <1>10, ExpressionSays

(* Two sequences of one, joined. *)
LEMMA OnesJoin == ASSUME NEW x, NEW z PROVE << x >> \o << z >> = << x, z >>
<1>1. PICK T : T = {x, z}
  OBVIOUS
<1>2. << x >> \in Seq(T) /\ << z >> \in Seq(T) /\ << x, z >> \in Seq(T)
  BY <1>1
<1>3. PICK u : u = << x >> \o << z >>
  OBVIOUS
<1>4. u \in Seq(T) /\ Len(u) = 2 /\ u[1] = x /\ u[2] = z
  BY <1>2, <1>3
<1>5. PICK w : w = << x, z >>
  OBVIOUS
<1>6. w \in Seq(T) /\ Len(w) = 2 /\ w[1] = x /\ w[2] = z
  BY <1>2, <1>5
<1>7. \A k \in 1 .. 2 : k = 1 \/ k = 2
  OBVIOUS
<1>8. \A k \in 1 .. Len(u) : u[k] = w[k]
  BY <1>4, <1>6, <1>7
<1>9. u = w
  BY <1>4, <1>6, <1>8, SeqEqual
<1>. QED
  BY <1>3, <1>5, <1>9

(* A list of one argument is printed as the argument, *)
LEMMA MakesFirstPrints ==
  ASSUME TextOK, HeapOK, StackOK, NEW b, NEW y, PrintedSoFar(b, y), MakesFirst, UNCHANGED << text, read >>
  PROVE  \E c, v : PrintedSoFar(c, v)'
<1>1. PICK new : new = NewPtr
  OBVIOUS
<1>2. PICK n : n = Len(stack)
  OBVIOUS
<1>3. PICK v : v = Top.val
  OBVIOUS
<1>4. PICK args : args = << new >>
  OBVIOUS
<1>5. /\ Allocates(1) /\ heap'[new] = Arg(v) /\ Pushes(1, "list", args)
      /\ stack[n].sym = "expression"
  BY <1>1, <1>2, <1>3, <1>4 DEF MakesFirst, At
<1>6. n \in Nat /\ 0 < n /\ n \in DOMAIN stack /\ EntryOK(n) /\ v = stack[n].val
  <2>1. n \in Nat /\ 1 <= n
    BY <1>2, <1>5, LenProperties DEF StackOK, Pushes
  <2>. QED
    BY <1>2, <1>3, <2>1, BelowIs
<1>7. Is(v, "exp") /\ v \in Exps /\ y[v] \in Prints /\ Span(b, n) = y[v]
  BY <1>5, <1>6 DEF PrintedSoFar, PrintsExps, Says, EntryOK, Is, Exps
<1>8. PICK top : top = Len(stack) - 1 + 1
  OBVIOUS
<1>9. PICK s : s = SubSeq(Strs, b[top - 1] + 1, read')
  OBVIOUS
<1>10. s = y[v]
  <2>1. PICK z : z = SubSeq(Strs, b[top - 1] + 1, read)
    OBVIOUS
  <2>2. Spans(b) /\ 1 <= Len(stack)
    BY <1>5 DEF PrintedSoFar, Pushes
  <2>3. z = Span(b, n)
    BY <1>2, <1>8, <2>1, <2>2, TopSpans
  <2>. QED
    BY <1>7, <1>9, <2>1, <2>3
<1>11. Listed(y, args)' = y[v] /\ Len(args) # 0
  <2>1. heap'[new].exp = v /\ DOMAIN args = 1 .. 1 /\ args[1] = new /\ Len(args) = 1
    BY <1>4, <1>5 DEF Arg
  <2>2. PICK x : x = y[v]
    OBVIOUS
  <2>3. PICK q : q = << x >>
    OBVIOUS
  <2>4. q \in Seq(Prints) /\ Len(q) = 1 /\ q[1] = x /\ q # << >> /\ DOMAIN q = 1 .. 1
    BY <1>7, <2>2, <2>3
  <2>5. q = [k \in DOMAIN args |-> y[heap'[args[k]].exp]]
    BY <2>1, <2>2, <2>4
  <2>6. PICK sep : sep = << Comma >>
    OBVIOUS
  <2>7. sep \in Prints
    BY <2>6 DEF Prints, Comma
  <2>8. FlattenSeq(Between(q, sep)) = x
    BY <2>4, <2>7, PrintedBetween
  <2>. QED
    BY <2>1, <2>2, <2>5, <2>6, <2>8 DEF Listed
<1>12. Says(y, top, s)'
  <2>1. stack'[top].sym = "list" /\ stack'[top].val = args
    BY <1>5, <1>8 DEF Pushes, Symbol
  <2>. QED
    BY <1>10, <1>11, <2>1 DEF Says
<1>13. \A e \in Exps' : e \in Exps
  <2>1. heap'[new].kind # "exp" /\ Len(heap) \in Nat /\ new = Len(heap) + 1
    BY <1>1, <1>5, NewPtrIs DEF Arg
  <2>2. Len(heap) + 1 .. Len(heap) + 1 = {new}
    BY <2>1
  <2>. QED
    BY <1>5, <2>1, <2>2, ExpsAre
<1>14. text' = text /\ read' = read /\ 1 # 0 /\ 1 \in Nat
  OBVIOUS
<1>15. \E c, w : PrintedSoFar(c, w)'
  BY <1>5, <1>8, <1>9, <1>12, <1>13, <1>14, PrintedNextStep
<1>. QED
  BY <1>15

(* one more argument behind a comma, *)
LEMMA MakesNextPrints ==
  ASSUME TextOK, HeapOK, StackOK, NEW b, NEW y, PrintedSoFar(b, y), MakesNext, UNCHANGED << text, read >>
  PROVE  \E c, v : PrintedSoFar(c, v)'
<1>1. PICK new : new = NewPtr
  OBVIOUS
<1>2. PICK n : n = Len(stack)
  OBVIOUS
<1>3. PICK v : v = Top.val
  OBVIOUS
<1>4. PICK args : args = Below(2)
  OBVIOUS
<1>5. PICK more : more = Append(args, new)
  OBVIOUS
<1>6. /\ Allocates(1) /\ heap'[new] = Arg(v) /\ Pushes(3, "list", more)
      /\ stack[n].sym = "expression" /\ stack[n - 1].sym = "COMMA" /\ stack[n - 2].sym = "list"
  BY <1>1, <1>2, <1>3, <1>4, <1>5 DEF MakesNext, At
<1>7. n \in Nat /\ 3 <= n /\ n \in DOMAIN stack /\ n - 1 \in DOMAIN stack /\ n - 2 \in DOMAIN stack
  <2>1. n \in Nat /\ 3 <= n /\ DOMAIN stack = 1 .. n
    BY <1>2, <1>6, LenProperties DEF StackOK, Pushes
  <2>. QED
    BY <2>1
<1>8. EntryOK(n) /\ v = stack[n].val /\ EntryOK(n - 2) /\ args = stack[n - 2].val
  <2>1. 0 < n /\ 2 < n /\ n - 0 = n
    BY <1>7
  <2>. QED
    BY <1>2, <1>3, <1>4, <2>1, BelowIs
<1>9. Is(v, "exp") /\ v \in Exps /\ y[v] \in Prints /\ Span(b, n) = y[v]
  BY <1>6, <1>7, <1>8 DEF PrintedSoFar, PrintsExps, Says, EntryOK, Is, Exps
<1>10. Span(b, n - 1) = << Comma >>
  BY <1>6, <1>7 DEF PrintedSoFar, Says
<1>11. /\ args \in Seq(Nat) /\ (\A m \in DOMAIN args : Is(args[m], "arg"))
       /\ Len(args) # 0 /\ Span(b, n - 2) = Listed(y, args)
  BY <1>6, <1>7, <1>8 DEF PrintedSoFar, Says, EntryOK
<1>12. PICK top : top = Len(stack) - 3 + 1
  OBVIOUS
<1>13. PICK s : s = SubSeq(Strs, b[top - 1] + 1, read')
  OBVIOUS
<1>14. s = Listed(y, args) \o << Comma >> \o y[v]
  <2>1. PICK z : z = SubSeq(Strs, b[top - 1] + 1, read)
    OBVIOUS
  <2>2. Spans(b) /\ 3 <= Len(stack)
    BY <1>6 DEF PrintedSoFar, Pushes
  <2>3. z = Span(b, n - 2) \o Span(b, n - 1) \o Span(b, n)
    BY <1>2, <1>12, <2>1, <2>2, TopSpans
  <2>. QED
    BY <1>9, <1>10, <1>11, <1>13, <2>1, <2>3
<1>15. Listed(y, more)' = Listed(y, args) \o << Comma >> \o y[v] /\ Len(more) # 0
  <2>1. heap'[new].exp = v
    BY <1>6 DEF Arg
  <2>2. PICK m \in Nat \ {0} : m = Len(args) /\ DOMAIN args = 1 .. m
    BY <1>11, LenProperties
  <2>3. PICK x : x = y[v]
    OBVIOUS
  <2>4. PICK q : q = [k \in DOMAIN args |-> y[heap[args[k]].exp]]
    OBVIOUS
  <2>5. \A k \in 1 .. m : heap[args[k]].exp \in Exps /\ heap'[args[k]] = heap[args[k]]
    BY <1>6, <1>11, <2>2, ListedStays, NodesStay DEF Is
  <2>6. \A k \in 1 .. m : q[k] = y[heap'[args[k]].exp] /\ q[k] \in Prints
    BY <2>2, <2>4, <2>5 DEF PrintedSoFar, PrintsExps
  <2>7. q \in Seq(Prints) /\ Len(q) = m /\ q # << >> /\ DOMAIN q = 1 .. m
    <3>1. q \in [1 .. m -> Prints]
      BY <2>2, <2>4, <2>6
    <3>2. q \in Seq(Prints) /\ DOMAIN q = 1 .. m
      BY <3>1
    <3>. QED
      BY <2>2, <3>2, LenProperties
  <2>8. /\ DOMAIN more = 1 .. m + 1 /\ more[m + 1] = new /\ Len(more) = m + 1
        /\ \A k \in 1 .. m : more[k] = args[k]
    <3>1. new \in Nat
      BY <1>1, NewPtrIs
    <3>. QED
      BY <1>5, <1>11, <2>2, <3>1
  <2>9. PICK t : t = Append(q, x)
    OBVIOUS
  <2>10. DOMAIN t = 1 .. m + 1 /\ t[m + 1] = x /\ \A k \in 1 .. m : t[k] = q[k]
    BY <1>9, <2>3, <2>7, <2>9
  <2>11. \A k \in 1 .. m + 1 : k \in 1 .. m \/ k = m + 1
    BY <2>2
  <2>12. \A k \in 1 .. m + 1 : t[k] = y[heap'[more[k]].exp]
    BY <2>1, <2>3, <2>6, <2>8, <2>10, <2>11
  <2>13. t = [k \in DOMAIN more |-> y[heap'[more[k]].exp]]
    <3>1. t = [k \in 1 .. m + 1 |-> t[k]]
      <4>1. t \in Seq(Prints)
        BY <1>9, <2>3, <2>7, <2>9
      <4>. QED
        BY <2>10, <4>1, LenProperties
    <3>. QED
      BY <2>8, <2>12, <3>1
  <2>14. PICK sep : sep = << Comma >>
    OBVIOUS
  <2>15. sep \in Prints
    BY <2>14 DEF Prints, Comma
  <2>16. FlattenSeq(Between(t, sep)) = FlattenSeq(Between(q, sep)) \o sep \o x
    BY <1>9, <2>3, <2>7, <2>9, <2>15, PrintedNext
  <2>17. Listed(y, more)' = FlattenSeq(Between(t, sep))
    BY <2>13, <2>14 DEF Listed
  <2>18. Listed(y, args) = FlattenSeq(Between(q, sep))
    BY <2>4, <2>14 DEF Listed
  <2>. QED
    BY <2>2, <2>3, <2>8, <2>14, <2>16, <2>17, <2>18
<1>16. Says(y, top, s)'
  <2>1. stack'[top].sym = "list" /\ stack'[top].val = more
    BY <1>6, <1>12 DEF Pushes, Symbol
  <2>. QED
    BY <1>14, <1>15, <2>1 DEF Says
<1>17. \A e \in Exps' : e \in Exps
  <2>1. heap'[new].kind # "exp" /\ Len(heap) \in Nat /\ new = Len(heap) + 1
    BY <1>1, <1>6, NewPtrIs DEF Arg
  <2>2. Len(heap) + 1 .. Len(heap) + 1 = {new}
    BY <2>1
  <2>. QED
    BY <1>6, <2>1, <2>2, ExpsAre
<1>18. text' = text /\ read' = read /\ 3 # 0 /\ 3 \in Nat
  OBVIOUS
<1>19. \E c, w : PrintedSoFar(c, w)'
  BY <1>6, <1>12, <1>13, <1>16, <1>17, <1>18, PrintedNextStep
<1>. QED
  BY <1>19

(* and a call as its name and its list in parentheses. *)
LEMMA MakesCallPrints ==
  ASSUME TextOK, HeapOK, StackOK, NEW b, NEW y, PrintedSoFar(b, y), MakesCall, UNCHANGED << text, read >>
  PROVE  \E c, v : PrintedSoFar(c, v)'
<1>1. PICK new : new = NewPtr
  OBVIOUS
<1>2. PICK n : n = Len(stack)
  OBVIOUS
<1>3. PICK name : name = Below(3)
  OBVIOUS
<1>4. PICK args : args = Below(1)
  OBVIOUS
<1>5. /\ Allocates(1) /\ heap'[new] = Func(name, args) /\ Pushes(4, "func", new)
      /\ stack[n].sym = "RIGHT_PAREN" /\ stack[n - 1].sym = "list"
      /\ stack[n - 2].sym = "LEFT_PAREN" /\ stack[n - 3].sym = "IDENT"
  BY <1>1, <1>2, <1>3, <1>4 DEF MakesCall, At
<1>6. /\ n \in Nat /\ 4 <= n /\ n \in DOMAIN stack /\ n - 1 \in DOMAIN stack
      /\ n - 2 \in DOMAIN stack /\ n - 3 \in DOMAIN stack
  <2>1. n \in Nat /\ 4 <= n /\ DOMAIN stack = 1 .. n
    BY <1>2, <1>5, LenProperties DEF StackOK, Pushes
  <2>. QED
    BY <2>1
<1>7. EntryOK(n - 3) /\ name = stack[n - 3].val /\ EntryOK(n - 1) /\ args = stack[n - 1].val
  <2>1. 1 < n /\ 3 < n
    BY <1>6
  <2>. QED
    BY <1>2, <1>3, <1>4, <2>1, BelowIs
<1>8. Is(name, "str") /\ Span(b, n - 3) = << heap[name].str >>
  BY <1>5, <1>6, <1>7 DEF PrintedSoFar, Says, EntryOK
<1>9. Span(b, n - 2) = << Left >> /\ Span(b, n) = << Right >>
  BY <1>5, <1>6 DEF PrintedSoFar, Says
<1>10. /\ args \in Seq(Nat) /\ (\A m \in DOMAIN args : Is(args[m], "arg"))
       /\ Len(args) # 0 /\ Span(b, n - 1) = Listed(y, args)
  BY <1>5, <1>6, <1>7 DEF PrintedSoFar, Says, EntryOK
<1>11. PICK top : top = Len(stack) - 4 + 1
  OBVIOUS
<1>12. PICK s : s = SubSeq(Strs, b[top - 1] + 1, read')
  OBVIOUS
<1>13. PICK str : str = heap[name].str
  OBVIOUS
<1>14. s = << str, Left >> \o Listed(y, args) \o << Right >>
  <2>1. PICK z : z = SubSeq(Strs, b[top - 1] + 1, read)
    OBVIOUS
  <2>2. Spans(b) /\ 4 <= Len(stack)
    BY <1>5 DEF PrintedSoFar, Pushes
  <2>3. z = Span(b, n - 3) \o Span(b, n - 2) \o Span(b, n - 1) \o Span(b, n)
    BY <1>2, <1>11, <2>1, <2>2, TopSpans
  <2>4. << str >> \o << Left >> = << str, Left >>
    BY OnesJoin
  <2>. QED
    BY <1>8, <1>9, <1>10, <1>12, <1>13, <2>1, <2>3, <2>4
<1>15. CallPrinted(y, name, args)' = << str, Left >> \o Listed(y, args) \o << Right >>
  <2>1. heap'[name] = heap[name]
    BY <1>5, <1>8, NodesStay DEF Is
  <2>2. Listed(y, args)' = Listed(y, args)
    BY <1>5, <1>10, ListedStays
  <2>. QED
    BY <1>13, <2>1, <2>2 DEF CallPrinted
<1>16. Says(y, top, s)'
  <2>1. stack'[top].sym = "func" /\ stack'[top].val = new
    BY <1>5, <1>11 DEF Pushes, Symbol
  <2>2. heap'[new].name = name /\ heap'[new].args = args
    BY <1>5 DEF Func
  <2>3. s = CallPrinted(y, name, args)'
    BY <1>14, <1>15
  <2>. QED
    BY <2>1, <2>2, <2>3 DEF Says
<1>17. \A e \in Exps' : e \in Exps
  <2>1. heap'[new].kind # "exp" /\ Len(heap) \in Nat /\ new = Len(heap) + 1
    BY <1>1, <1>5, NewPtrIs DEF Func
  <2>2. Len(heap) + 1 .. Len(heap) + 1 = {new}
    BY <2>1
  <2>. QED
    BY <1>5, <2>1, <2>2, ExpsAre
<1>18. text' = text /\ read' = read /\ 4 # 0 /\ 4 \in Nat
  OBVIOUS
<1>19. \E c, w : PrintedSoFar(c, w)'
  BY <1>5, <1>11, <1>12, <1>16, <1>17, <1>18, PrintedNextStep
<1>. QED
  BY <1>19

(* Nothing is read, and nothing printed. *)
LEMMA PrintInit == Init => PrintInv
<1> SUFFICES ASSUME Init PROVE PrintInv
  OBVIOUS
<1>1. stack = << >> /\ heap = << >> /\ read = 0 /\ pc = "parse" /\ text \in Seq(Tokens)
  BY TransformAssumption DEF Init
<1>2. Len(text) \in Nat /\ DOMAIN stack = {} /\ DOMAIN heap = {} /\ Len(stack) = 0
  BY <1>1, LenProperties
<1>3. PICK b : b = [k \in 0 .. 0 |-> 0]
  OBVIOUS
<1>4. b \in [0 .. 0 -> 0 .. Len(text)] /\ b[0] = 0
  BY <1>2, <1>3
<1>5. Spans(b)
  BY <1>1, <1>2, <1>4 DEF Spans
<1>6. PrintsExps(b)
  BY <1>2 DEF PrintsExps, Exps
<1>7. PrintedSoFar(b, b)
  BY <1>2, <1>5, <1>6 DEF PrintedSoFar
<1>. QED
  BY <1>1, <1>7 DEF PrintInv

(* What is printed stays so while the tree does. *)
LEMMA PrintedStays ==
  ASSUME UNCHANGED << text, read, stack, heap >>, NEW b, NEW y, PrintedSoFar(b, y)
  PROVE  PrintedSoFar(b, y)'
<1>1. Strs' = Strs /\ Exps' = Exps
  BY DEF Strs, Exps
<1>2. \A k : Span(b, k)' = Span(b, k)
  BY <1>1 DEF Span
<1>3. Spans(b)'
  BY DEF PrintedSoFar, Spans
<1>4. \A args : Listed(y, args)' = Listed(y, args)
  BY DEF Listed
<1>5. \A name, args : CallPrinted(y, name, args)' = CallPrinted(y, name, args)
  BY <1>4 DEF CallPrinted
<1>6. \A e : ExpPrinted(y, e)' = ExpPrinted(y, e)
  BY <1>5 DEF ExpPrinted, FuncOf, Args
<1>7. PrintsExps(y)'
  BY <1>1, <1>6 DEF PrintsExps, PrintedSoFar
<1>8. \A k, s : Says(y, k, s) => Says(y, k, s)'
  BY <1>4, <1>5 DEF Says
<1>9. ASSUME NEW k \in DOMAIN stack PROVE Says(y, k, Span(b, k))'
  <2>1. PICK s : s = Span(b, k)
    OBVIOUS
  <2>2. Says(y, k, s)'
    BY <1>8, <2>1 DEF PrintedSoFar
  <2>. QED
    BY <1>2, <2>1, <2>2 DEF Says
<1>. QED
  BY <1>3, <1>7, <1>9 DEF PrintedSoFar

(* Every step of the program keeps what is printed the text. *)
LEMMA PrintStep == BaseInv /\ PrintInv /\ [Next]_vars => PrintInv'
<1> SUFFICES ASSUME BaseInv, PrintInv, [Next]_vars PROVE PrintInv'
  OBVIOUS
<1>1. HeapOK /\ StackOK /\ TextOK
  BY DEF BaseInv, TypesInv
<1>2. PICK b, y : PrintedSoFar(b, y)
  BY DEF PrintInv
<1>3. CASE pc = "parse" /\ Parses /\ UNCHANGED << pc, text, root, running >>
  <2>1. CASE (ShiftsName \/ ShiftsMark) /\ read < Len(text) /\ read' = read + 1
    <3>1. \E c, v : PrintedSoFar(c, v)'
      BY <1>1, <1>2, <1>3, <2>1, ShiftsNamePrints, ShiftsMarkPrints
    <3>. QED
      BY <1>3, <3>1 DEF PrintInv
  <2>2. CASE /\ MakesString \/ MakesField \/ MakesFunc \/ MakesFirst \/ MakesNext \/ MakesCall
             /\ UNCHANGED read
    <3>1. UNCHANGED << text, read >>
      BY <1>3, <2>2
    <3>2. \E c, v : PrintedSoFar(c, v)'
      BY <1>1, <1>2, <2>2, <3>1, MakesStringPrints, MakesFieldPrints, MakesFuncPrints, MakesFirstPrints,
         MakesNextPrints, MakesCallPrints
    <3>. QED
      BY <1>3, <3>2 DEF PrintInv
  <2>. QED
    BY <1>3, <2>1, <2>2 DEF Parses
<1>4. CASE UNCHANGED << text, read, stack, heap >> /\ (pc' \in {"parse", "exit"} \/ read = Len(text))
  <2>1. PrintedSoFar(b, y)'
    BY <1>2, <1>4, PrintedStays
  <2>2. pc' \notin {"parse", "exit"} => read' = Len(text)'
    BY <1>4
  <2>. QED
    BY <2>1, <2>2 DEF PrintInv
<1>5. CASE Accept
  <2>1. read = Len(text)
    <3>1. SUFFICES ASSUME read < Len(text) PROVE FALSE
      BY <1>1, StrsAre DEF TextOK
    <3>2. read + 1 \in 1 .. Len(text)
      BY <1>1, <3>1, StrsAre
    <3>3. text[read + 1] \in Tokens
      BY <1>1, <3>2, StrsAre
    <3>4. text[read + 1].type # "$end"
      BY <3>3 DEF Tokens, Token
    <3>. QED
      BY <1>5, <3>1, <3>4 DEF Accept, Ahead
  <2>. QED
    BY <1>4, <1>5, <2>1 DEF Accept
<1>6. CASE Error
  BY <1>4, <1>6 DEF Error, parsing
<1>7. CASE pc # "parse" /\ pc' # "parse" /\ UNCHANGED << text, parsing >>
  <2>1. Chain
    BY DEF BaseInv, RunInv
  <2>2. pc = "exit" => pc' = "exit"
    BY <1>7, <2>1, RunsAre DEF Exec, Destroy, ExecArg, DestroyArg, FreeArg, ExecDone, Destroyed
  <2>3. pc' \in {"parse", "exit"} \/ read = Len(text)
    BY <1>7, <2>2 DEF PrintInv
  <2>4. UNCHANGED << text, read, stack, heap >>
    BY <1>7 DEF parsing
  <2>. QED
    BY <1>4, <2>3, <2>4
<1>8. CASE UNCHANGED vars
  BY <1>4, <1>8 DEF vars, PrintInv
<1>. QED
  BY <1>1, <1>3, <1>5, <1>6, <1>7, <1>8, StepsAre

(* What frf_transform_pp prints of an expression is what y has for it: no  *)
(* expression is the least of which this is not so.                        *)
LEMMA PrintedIs ==
  ASSUME HeapOK, NEW y, PrintsExps(y), root \in Exps
  PROVE  Printed = y[root]
<1>1. ASSUME NEW e \in Exps
      PROVE  /\ e \in Nat /\ Is(e, "exp") /\ heap[e].type \in {"STRING", "P13N", "FUNC"}
             /\ heap[e].type = "FUNC" => \A k \in DOMAIN Args(e) : ArgExp(e, k) \in Exps /\ ArgExp(e, k) < e
  <2>1. Is(e, "exp")
    BY DEF Exps, Is
  <2>2. heap[e].type = "FUNC" => \A k \in DOMAIN Args(e) : Is(ArgExp(e, k), "exp") /\ ArgExp(e, k) < e
    BY <2>1, CallIs
  <2>. QED
    BY <2>1, <2>2, ExpIs DEF Exps, Is
<1>2. ASSUME NEW p, NEW e \in Exps,
             heap[e].type = "FUNC" => \A k \in DOMAIN Args(e) : p[ArgExp(e, k)] = y[ArgExp(e, k)]
      PROVE  PrintedExp(p, e) = y[e]
  <2>1. y[e] = ExpPrinted(y, e)
    BY DEF PrintsExps
  <2>2. CASE heap[e].type # "FUNC"
    BY <1>1, <2>1, <2>2 DEF ExpPrinted, PrintedExp
  <2>3. CASE heap[e].type = "FUNC"
    <3>1. [k \in DOMAIN Args(e) |-> p[ArgExp(e, k)]] = [k \in DOMAIN Args(e) |-> y[heap[Args(e)[k]].exp]]
      BY <1>2, <2>3 DEF ArgExp, Args
    <3>. QED
      BY <2>1, <2>3, <3>1 DEF ExpPrinted, PrintedExp, CallPrinted, Listed
  <2>. QED
    BY <2>2, <2>3
<1>3. PICK z : z = [e \in Exps |-> y[e]]
  OBVIOUS
<1>4. z = [e \in Exps |-> PrintedExp(z, e)]
  <2>1. ASSUME NEW e \in Exps PROVE PrintedExp(z, e) = y[e]
    BY <1>1, <1>2, <1>3
  <2>. QED
    BY <1>3, <2>1
<1>5. ASSUME NEW pp, pp = [e \in Exps |-> PrintedExp(pp, e)] PROVE pp[root] = y[root]
  <2>1. PICK U : U = {e \in Exps : pp[e] # y[e]}
    OBVIOUS
  <2>2. SUFFICES ASSUME U # {} PROVE FALSE
    BY <2>1
  <2>3. U \subseteq Nat
    BY <1>1, <2>1
  <2>4. PICK e \in U : \A x \in U : e <= x
    BY <2>2, <2>3, LeastNumber
  <2>5. e \in Exps /\ pp[e] # y[e]
    BY <2>1
  <2>6. ASSUME heap[e].type = "FUNC", NEW k \in DOMAIN Args(e) PROVE pp[ArgExp(e, k)] = y[ArgExp(e, k)]
    <3>1. PICK x : x = ArgExp(e, k)
      OBVIOUS
    <3>2. x \in Exps /\ x < e
      BY <1>1, <2>5, <2>6, <3>1
    <3>3. x \in Nat /\ e \in Nat
      BY <1>1, <2>5, <3>2
    <3>4. x \notin U
      BY <2>4, <3>2, <3>3
    <3>. QED
      BY <2>1, <3>1, <3>2, <3>4
  <2>7. PrintedExp(pp, e) = y[e]
    BY <1>2, <2>5, <2>6
  <2>8. pp[e] = PrintedExp(pp, e)
    BY <1>5, <2>5
  <2>. QED
    BY <2>5, <2>7, <2>8
<1>6. PICK pp : pp = CHOOSE f : f = [e \in Exps |-> PrintedExp(f, e)]
  OBVIOUS
<1>7. pp = [e \in Exps |-> PrintedExp(pp, e)]
  BY <1>4, <1>6
<1>8. root # 0
  BY LenProperties DEF HeapOK, Exps
<1>9. Printed = pp[root]
  BY <1>6, <1>8 DEF Printed
<1>. QED
  BY <1>5, <1>7, <1>9

(* What is compiled is printed as the text. *)
LEMMA PrintsBackHolds == BaseInv /\ PrintInv => PrintsBack
<1> SUFFICES ASSUME BaseInv, PrintInv, pc = "compiled" PROVE Printed = Strs
  BY DEF PrintsBack, Strs
<1>1. HeapOK /\ StackOK /\ TextOK /\ Quiet
  BY DEF BaseInv, TypesInv, RunInv
<1>2. read = Len(text)
  BY DEF PrintInv
<1>3. PICK b, y : PrintedSoFar(b, y)
  BY DEF PrintInv
<1>4. PICK s : s = Strs
  OBVIOUS
<1>5. PICK T : Prints = Seq(T)
  BY DEF Prints
<1>6. s \in Seq(T) /\ Len(s) = Len(text) /\ Len(text) \in Nat
  BY <1>1, <1>4, <1>5, StrsAre
<1>7. b[0] = 0 /\ b[Len(stack)] = Len(s)
  BY <1>2, <1>3, <1>6 DEF PrintedSoFar, Spans
<1>8. CASE stack = << >> /\ root = 0
  <2>1. Len(s) = 0
    BY <1>7, <1>8
  <2>2. s = << >>
    BY <1>6, <2>1
  <2>. QED
    BY <1>4, <1>8, <2>2 DEF Printed
<1>9. CASE Len(stack) = 1 /\ stack[1].sym = "expression" /\ root = stack[1].val
  <2>1. 1 \in DOMAIN stack
    BY <1>1, <1>9, LenProperties DEF StackOK
  <2>2. root \in Exps
    BY <1>1, <1>9, <2>1 DEF StackOK, EntryOK, Is, Exps
  <2>3. Span(b, 1) = y[root]
    BY <1>3, <1>9, <2>1 DEF PrintedSoFar, Says
  <2>4. Span(b, 1) = SubSeq(s, 1, Len(s))
    BY <1>4, <1>7, <1>9 DEF Span
  <2>5. SubSeq(s, 1, Len(s)) = s
    BY <1>6
  <2>6. Printed = y[root]
    BY <1>1, <1>3, <2>2, PrintedIs DEF PrintedSoFar
  <2>. QED
    BY <1>4, <2>3, <2>4, <2>5, <2>6
<1>. QED
  BY <1>1, <1>8, <1>9 DEF Quiet

(* The tree the parser makes is the text: printed, it is the tokens that   *)
(* were compiled.                                                          *)
THEOREM PrintsTheText == Spec => []PrintsBack
<1>1. Init => BaseInv /\ PrintInv
  BY BaseInit, PrintInit
<1>2. BaseInv /\ PrintInv /\ [Next]_vars => BaseInv' /\ PrintInv'
  BY BaseStep, PrintStep
<1>. QED
  BY <1>1, <1>2, PrintsBackHolds, PTL DEF Spec

-----------------------------------------------------------------------------
(* What an expression comes to for a row.                                  *)
RowValue(r, v, e) ==
  CASE heap[e].type = "STRING" -> heap[heap[e].val].str
    [] heap[e].type = "P13N"   -> r[heap[heap[e].val].offset]
    [] heap[e].type = "FUNC"   ->
         LET n == Len(Args(e))
             bad == {k \in 1 .. n : k > BufSize \/ v[ArgExp(e, k)] \in {NULL, Undefined}}
         IN  IF bad = {} THEN Apply(heap[FuncOf(e).name].str, [k \in 1 .. n |-> v[ArgExp(e, k)]])
             ELSE IF Min(bad) > BufSize THEN Undefined ELSE v[ArgExp(e, Min(bad))]

(* The least of some numbers. *)
LEMMA MinIs ==
  ASSUME NEW T, T \subseteq Nat, T # {}
  PROVE  Min(T) \in T /\ \A x \in T : Min(T) <= x
  BY LeastNumber DEF Min

(* It is decided by what the arguments come to, *)
LEMMA ValuesAgree ==
  ASSUME HeapOK, NEW e, Is(e, "exp"), NEW r, NEW v, NEW w,
         heap[e].type = "FUNC" => \A m \in 1 .. Len(Args(e)) : v[ArgExp(e, m)] = w[ArgExp(e, m)]
  PROVE  RowValue(r, v, e) = RowValue(r, w, e)
<1>1. CASE heap[e].type # "FUNC"
  BY <1>1, ExpIs DEF RowValue
<1>2. CASE heap[e].type = "FUNC"
  <2>1. PICK n \in Nat : n = Len(Args(e))
    BY <1>2, CallIs
  <2>2. \A m \in 1 .. n : v[ArgExp(e, m)] = w[ArgExp(e, m)]
    BY <1>2, <2>1
  <2>3. PICK bad : bad = {k \in 1 .. n : k > BufSize \/ v[ArgExp(e, k)] \in {NULL, Undefined}}
    OBVIOUS
  <2>4. bad = {k \in 1 .. n : k > BufSize \/ w[ArgExp(e, k)] \in {NULL, Undefined}}
    BY <2>2, <2>3
  <2>5. [k \in 1 .. n |-> v[ArgExp(e, k)]] = [k \in 1 .. n |-> w[ArgExp(e, k)]]
    BY <2>2
  <2>6. bad # {} => v[ArgExp(e, Min(bad))] = w[ArgExp(e, Min(bad))]
    <3>1. bad \subseteq Nat
      BY <2>3
    <3>2. bad # {} => Min(bad) \in bad
      BY <3>1, MinIs
    <3>. QED
      BY <2>2, <2>3, <3>2
  <2>7. RowValue(r, v, e) =
          IF bad = {} THEN Apply(heap[FuncOf(e).name].str, [k \in 1 .. n |-> v[ArgExp(e, k)]])
          ELSE IF Min(bad) > BufSize THEN Undefined ELSE v[ArgExp(e, Min(bad))]
    BY <1>2, <2>1, <2>3 DEF RowValue
  <2>8. RowValue(r, w, e) =
          IF bad = {} THEN Apply(heap[FuncOf(e).name].str, [k \in 1 .. n |-> w[ArgExp(e, k)]])
          ELSE IF Min(bad) > BufSize THEN Undefined ELSE w[ArgExp(e, Min(bad))]
    BY <1>2, <2>1, <2>4 DEF RowValue
  <2>. QED
    BY <2>5, <2>6, <2>7, <2>8
<1>. QED
  BY <1>1, <1>2

(* so every expression comes to something. *)
LEMMA ValuesExist ==
  ASSUME HeapOK, NEW r
  PROVE  \E v : \A e \in Exps : v[e] = RowValue(r, v, e)
<1> DEFINE Solves(v, n) == \A e \in Exps : e <= n => v[e] = RowValue(r, v, e)
           S == {n \in Nat : \E v : Solves(v, n)}
<1>1. ASSUME NEW e \in Exps PROVE e \in Nat /\ e # 0 /\ Is(e, "exp")
  BY LenProperties DEF HeapOK, Exps, Is
<1>2. 0 \in S
  <2>1. Solves(0, 0)
    BY <1>1
  <2>. QED
    BY <2>1
<1>3. ASSUME NEW n \in S \cap Nat PROVE n + 1 \in S
  <2>1. PICK v : Solves(v, n)
    OBVIOUS
  <2>2. PICK w : w = [e \in Exps |-> IF e <= n THEN v[e] ELSE RowValue(r, v, e)]
    OBVIOUS
  <2>3. ASSUME NEW e \in Exps, e <= n + 1 PROVE w[e] = RowValue(r, w, e)
    <3>1. e \in Nat /\ Is(e, "exp")
      BY <1>1
    <3>2. ASSUME heap[e].type = "FUNC", NEW m \in 1 .. Len(Args(e)) PROVE v[ArgExp(e, m)] = w[ArgExp(e, m)]
      <4>1. PICK x : x = ArgExp(e, m)
        OBVIOUS
      <4>2. x \in Exps /\ x \in Nat /\ x < e
        BY <3>1, <3>2, <4>1, CallIs DEF Exps, Is
      <4>3. x <= n
        BY <2>3, <3>1, <4>2
      <4>. QED
        BY <2>2, <4>1, <4>2, <4>3
    <3>3. RowValue(r, v, e) = RowValue(r, w, e)
      BY <3>1, <3>2, ValuesAgree
    <3>4. w[e] = RowValue(r, v, e)
      BY <2>1, <2>2
    <3>. QED
      BY <3>3, <3>4
  <2>4. Solves(w, n + 1)
    BY <2>3
  <2> HIDE DEF Solves
  <2>. QED
    BY <2>4
<1> HIDE DEF S
<1>4. Nat \subseteq S
  BY <1>2, <1>3, AllNumbers
<1>5. Len(heap) \in Nat /\ \A e \in Exps : e <= Len(heap)
  BY LenProperties DEF HeapOK, Exps
<1>6. PICK v : Solves(v, Len(heap))
  BY <1>4, <1>5 DEF S
<1>. QED
  BY <1>5, <1>6

(* What Value says of the root is what any of them says: no expression is  *)
(* the least of which this is not so.                                      *)
LEMMA ValueIs ==
  ASSUME HeapOK, NEW y, \A e \in Exps : y[e] = ExpValue(y, e), root \in Exps
  PROVE  Value = y[root]
<1>1. \A v, e : ExpValue(v, e) = RowValue(p13n, v, e)
  BY DEF ExpValue, RowValue
<1>2. ASSUME NEW e \in Exps
      PROVE  /\ e \in Nat /\ Is(e, "exp")
             /\ heap[e].type = "FUNC" =>
                  \A m \in 1 .. Len(Args(e)) : ArgExp(e, m) \in Exps /\ ArgExp(e, m) < e
  <2>1. e \in Nat /\ Is(e, "exp")
    BY LenProperties DEF HeapOK, Exps, Is
  <2>. QED
    BY <2>1, CallIs DEF Exps, Is
<1>3. PICK z : z = [e \in Exps |-> y[e]]
  OBVIOUS
<1>4. z = [e \in Exps |-> ExpValue(z, e)]
  <2>1. ASSUME NEW e \in Exps PROVE ExpValue(z, e) = y[e]
    <3>1. RowValue(p13n, z, e) = RowValue(p13n, y, e)
      BY <1>2, <1>3, ValuesAgree
    <3>. QED
      BY <1>1, <3>1
  <2>. QED
    BY <1>3, <2>1
<1>5. ASSUME NEW v, v = [e \in Exps |-> ExpValue(v, e)] PROVE v[root] = y[root]
  <2>1. PICK U : U = {e \in Exps : v[e] # y[e]}
    OBVIOUS
  <2>2. SUFFICES ASSUME U # {} PROVE FALSE
    BY <2>1
  <2>3. U \subseteq Nat
    BY <1>2, <2>1
  <2>4. PICK e \in U : \A x \in U : e <= x
    BY <2>2, <2>3, LeastNumber
  <2>5. e \in Exps /\ v[e] # y[e]
    BY <2>1
  <2>6. ASSUME heap[e].type = "FUNC", NEW m \in 1 .. Len(Args(e)) PROVE v[ArgExp(e, m)] = y[ArgExp(e, m)]
    <3>1. PICK x : x = ArgExp(e, m)
      OBVIOUS
    <3>2. x \in Exps /\ x < e
      BY <1>2, <2>5, <2>6, <3>1
    <3>3. x \in Nat /\ e \in Nat
      BY <1>2, <2>5, <3>2
    <3>4. x \notin U
      BY <2>4, <3>2, <3>3
    <3>. QED
      BY <2>1, <3>1, <3>2, <3>4
  <2>7. RowValue(p13n, v, e) = RowValue(p13n, y, e)
    BY <1>2, <2>5, <2>6, ValuesAgree
  <2>8. v[e] = ExpValue(v, e)
    BY <1>5, <2>5
  <2>. QED
    BY <1>1, <2>5, <2>7, <2>8
<1>6. PICK v : v = CHOOSE f : f = [e \in Exps |-> ExpValue(f, e)]
  OBVIOUS
<1>7. v = [e \in Exps |-> ExpValue(v, e)]
  BY <1>4, <1>6
<1>8. Value = v[root]
  BY <1>6 DEF Value
<1>. QED
  BY <1>5, <1>7, <1>8

(* A call whose argument has no value has what the first such one has, or  *)
(* no meaning if it was beyond the buffer;                                 *)
LEMMA CallWithout ==
  ASSUME HeapOK, NEW y, NEW e, Is(e, "exp"), heap[e].type = "FUNC", NEW i \in Nat, i < Len(Args(e)),
         i <= BufSize, \A m \in 1 .. i : y[ArgExp(e, m)] \notin {NULL, Undefined},
         i + 1 > BufSize \/ y[ArgExp(e, i + 1)] \in {NULL, Undefined}
  PROVE  ExpValue(y, e) = IF i + 1 > BufSize THEN Undefined ELSE y[ArgExp(e, i + 1)]
<1>1. PICK n \in Nat : n = Len(Args(e))
  BY CallIs
<1>2. PICK bad : bad = {k \in 1 .. n : k > BufSize \/ y[ArgExp(e, k)] \in {NULL, Undefined}}
  OBVIOUS
<1>3. BufSize \in Nat
  BY TransformAssumption
<1>4. i + 1 \in bad /\ bad # {}
  BY <1>1, <1>2
<1>5. \A m \in bad : m \in Nat /\ i + 1 <= m
  <2>1. \A m \in 1 .. n : m \in 1 .. i \/ i + 1 <= m
    BY <1>1
  <2>2. \A m \in 1 .. i : m \notin bad
    BY <1>2, <1>3
  <2>. QED
    BY <1>2, <2>1, <2>2
<1>6. Min(bad) = i + 1
  <2>1. bad \subseteq Nat
    BY <1>5
  <2>2. Min(bad) \in bad /\ Min(bad) <= i + 1
    BY <1>4, <2>1, MinIs
  <2>. QED
    BY <1>5, <2>2
<1>. QED
  BY <1>1, <1>2, <1>4, <1>6 DEF ExpValue

(* and one that has all of them is the transform of them. *)
LEMMA CallWith ==
  ASSUME HeapOK, NEW y, NEW e, Is(e, "exp"), heap[e].type = "FUNC", NEW i \in Nat, i = Len(Args(e)),
         i <= BufSize, \A m \in 1 .. i : y[ArgExp(e, m)] \notin {NULL, Undefined}
  PROVE  ExpValue(y, e) = Apply(heap[FuncOf(e).name].str, [k \in 1 .. i |-> y[ArgExp(e, k)]])
<1>1. BufSize \in Nat
  BY TransformAssumption
<1>2. {k \in 1 .. i : k > BufSize \/ y[ArgExp(e, k)] \in {NULL, Undefined}} = {}
  BY <1>1
<1>. QED
  BY <1>2 DEF ExpValue

-----------------------------------------------------------------------------
(* A frame has what its arguments so far come to, and all of them came to  *)
(* something.                                                              *)
FrameHas(y, k) ==
  LET f == frames[k]
  IN  heap[f.e].type = "FUNC" =>
        /\ f.i <= BufSize /\ f.buf = [m \in 1 .. f.i |-> y[ArgExp(f.e, m)]]
        /\ \A m \in 1 .. f.i : y[ArgExp(f.e, m)] \notin {NULL, Undefined}

(* What is over was what the frame below waits for, or the root. *)
Due == IF frames = << >> THEN root ELSE ArgExp(Calls.e, Calls.i + 1)

(* y has what every expression comes to, and the calls are on the way to   *)
(* what the root does.                                                     *)
Evaluates(y) ==
  /\ \A e \in Exps : y[e] = ExpValue(y, e)
  /\ \A k \in DOMAIN frames : FrameHas(y, k)
  /\ rval # << >> => rval = << y[Due] >> /\ y[Due] # Undefined
  /\ frames = << >> => rval # << >>
  /\ pc = "undefined" => y[root] = Undefined

(* It does so from the moment a row is given. *)
ExecInv ==
  /\ p13n \in P13nRows
  /\ pc \in {"exec", "executed", "undefined"} => root # 0 /\ \E y : Evaluates(y)

(* The arguments a call has stay so while its frame does. *)
LEMMA HasStays ==
  ASSUME UNCHANGED heap, NEW y, NEW k, FrameHas(y, k), frames'[k] = frames[k]
  PROVE  FrameHas(y, k)'
<1>1. \A e, m : ArgExp(e, m)' = ArgExp(e, m)
  BY DEF ArgExp, FuncOf
<1>. QED
  BY <1>1 DEF FrameHas

(* What an expression comes to depends on the tree and the row. *)
LEMMA ValueStays ==
  ASSUME UNCHANGED << heap, p13n >>
  PROVE  Exps' = Exps /\ \A v, e : ExpValue(v, e)' = ExpValue(v, e)
<1>1. \A e : Args(e)' = Args(e) /\ FuncOf(e)' = FuncOf(e)
  BY DEF Args, FuncOf
<1>2. \A e, m : ArgExp(e, m)' = ArgExp(e, m)
  BY DEF ArgExp, FuncOf
<1>. QED
  BY <1>1, <1>2 DEF Exps, ExpValue

(* The expression the last frame is of, and how far it is. *)
LEMMA LastFrame ==
  ASSUME HeapOK, Chain, frames # << >>
  PROVE  \E n \in Nat \ {0}, e \in Nat, i \in Nat :
           /\ n = Len(frames) /\ DOMAIN frames = 1 .. n /\ n \in DOMAIN frames
           /\ Calls = frames[n] /\ e = Calls.e /\ i = Calls.i /\ Node = heap[e] /\ Is(e, "exp") /\ e \in Exps
           /\ heap[e].type = "FUNC" => i <= Len(Args(e)) /\ Args(e) = FuncOf(e).args
<1>1. PICK n \in Nat \ {0} :
        /\ n = Len(frames) /\ DOMAIN frames = 1 .. n /\ n \in DOMAIN frames
        /\ \A k \in 1 .. n : frames[k].e \in Nat /\ frames[k].i \in Nat
        /\ Calls = frames[n]
  BY FramesAre
<1>2. PICK e \in Nat : e = Calls.e
  BY <1>1
<1>3. PICK i \in Nat : i = Calls.i
  BY <1>1
<1>4. FrameOK(n)
  BY <1>1 DEF Chain
<1>5. Is(e, "exp") /\ (heap[e].type = "FUNC" => i <= Len(Args(e)))
  BY <1>1, <1>2, <1>3, <1>4 DEF FrameOK
<1>6. e \in Exps /\ Node = heap[e] /\ Args(e) = FuncOf(e).args
  BY <1>2, <1>5 DEF Is, Exps, Node, Args
<1>. QED
  BY <1>1, <1>2, <1>3, <1>5, <1>6

(* Once an argument has no meaning, no call it is in has one. *)
LEMMA NoMeaning ==
  ASSUME HeapOK, Chain, NEW y, \A e \in Exps : y[e] = ExpValue(y, e),
         \A k \in DOMAIN frames : FrameHas(y, k), frames # << >>, y[Calls.e] = Undefined
  PROVE  y[root] = Undefined
<1>1. PICK n \in Nat \ {0} :
        /\ n = Len(frames) /\ DOMAIN frames = 1 .. n /\ n \in DOMAIN frames /\ 1 \in DOMAIN frames
        /\ \A k \in 1 .. n : frames[k].e \in Nat /\ frames[k].i \in Nat
        /\ Calls = frames[n]
  BY FramesAre
<1> DEFINE S == {d \in Nat : d < n => y[frames[n - d].e] = Undefined}
<1>2. 0 \in S
  <2>1. n - 0 = n
    BY <1>1
  <2>. QED
    BY <1>1, <2>1
<1>3. ASSUME NEW d \in S \cap Nat PROVE d + 1 \in S
  <2>1. SUFFICES ASSUME d + 1 < n PROVE y[frames[n - (d + 1)].e] = Undefined
    OBVIOUS
  <2>2. PICK k \in Nat : k = n - (d + 1)
    BY <2>1
  <2>3. k \in 1 .. n /\ k < n /\ k + 1 = n - d /\ d < n
    BY <2>1, <2>2
  <2>4. y[frames[k + 1].e] = Undefined
    BY <2>3
  <2>5. PICK e : e = frames[k].e
    OBVIOUS
  <2>6. PICK i \in Nat : i = frames[k].i
    BY <1>1, <2>3
  <2>7. FrameOK(k) /\ AtArg(k) /\ frames[k + 1].e = ArgExp(e, i + 1)
    BY <1>1, <2>3, <2>5, <2>6 DEF Chain
  <2>8. Is(e, "exp") /\ heap[e].type = "FUNC" /\ i < Len(Args(e))
    BY <2>5, <2>6, <2>7 DEF FrameOK, AtArg
  <2>9. i <= BufSize /\ \A m \in 1 .. i : y[ArgExp(e, m)] \notin {NULL, Undefined}
    BY <1>1, <2>3, <2>5, <2>6, <2>8 DEF FrameHas
  <2>10. y[ArgExp(e, i + 1)] = Undefined
    BY <2>4, <2>7
  <2>11. ExpValue(y, e) = IF i + 1 > BufSize THEN Undefined ELSE y[ArgExp(e, i + 1)]
    BY <2>8, <2>9, <2>10, CallWithout
  <2>12. e \in Exps
    BY <2>8 DEF Is, Exps
  <2>. QED
    BY <2>2, <2>5, <2>10, <2>11, <2>12
<1> HIDE DEF S
<1>4. n - 1 \in S
  <2>1. Nat \subseteq S
    BY <1>2, <1>3, AllNumbers
  <2>. QED
    BY <1>1, <2>1
<1>5. y[frames[1].e] = Undefined
  <2>1. n - 1 < n /\ n - (n - 1) = 1
    BY <1>1
  <2>. QED
    BY <1>4, <2>1 DEF S
<1>. QED
  BY <1>1, <1>5 DEF Chain

(* A call begins, for any row. *)
LEMMA StartsEvaluates ==
  ASSUME HeapOK, Starts, UNCHANGED << heap, root >>, pc' = "exec"
  PROVE  \E y : Evaluates(y)'
<1>1. PICK r : r = p13n'
  OBVIOUS
<1>2. PICK y : \A e \in Exps : y[e] = RowValue(r, y, e)
  BY ValuesExist
<1>3. (\A e \in Exps : y[e] = ExpValue(y, e))'
  <2>1. \A e : Args(e)' = Args(e) /\ FuncOf(e)' = FuncOf(e)
    BY DEF Args, FuncOf
  <2>2. \A e, m : ArgExp(e, m)' = ArgExp(e, m)
    BY DEF ArgExp, FuncOf
  <2>3. \A v, e : ExpValue(v, e)' = RowValue(r, v, e)
    BY <1>1, <2>1, <2>2 DEF ExpValue, RowValue
  <2>4. Exps' = Exps
    BY DEF Exps
  <2>. QED
    BY <1>2, <2>3, <2>4
<1>4. PICK f : f = Frame(root)
  OBVIOUS
<1>5. frames' = << f >> /\ rval' = << >> /\ f.i = 0 /\ f.buf = << >>
  BY <1>4 DEF Starts, Frame
<1>6. DOMAIN frames' = {1} /\ frames'[1] = f /\ frames' # << >>
  BY <1>5
<1>7. FrameHas(y, 1)'
  <2>1. BufSize \in Nat
    BY TransformAssumption
  <2>2. 1 .. 0 = {} /\ \A z : << >> = [m \in 1 .. 0 |-> z[m]]
    OBVIOUS
  <2>3. f.buf = [m \in 1 .. f.i |-> y[ArgExp(f.e, m)']]
    BY <1>5
  <2>. QED
    BY <1>5, <1>6, <2>1, <2>2, <2>3 DEF FrameHas
<1>8. Evaluates(y)'
  BY <1>3, <1>5, <1>6, <1>7 DEF Evaluates
<1>. QED
  BY <1>8

(* A call for an argument has no value yet. *)
LEMMA DescendsEvaluates ==
  ASSUME HeapOK, Chain, Descends, UNCHANGED << heap, root, p13n, pc >>, NEW y, Evaluates(y)
  PROVE  Evaluates(y)'
<1>1. (\A e \in Exps : y[e] = ExpValue(y, e))'
  BY ValueStays DEF Evaluates
<1>2. PICK n \in Nat : n = Len(frames) /\ DOMAIN frames = 1 .. n /\ Calls = frames[n]
  BY FramesAre DEF Descends
<1>3. PICK x : x = ArgExp(Calls.e, Calls.i + 1)
  OBVIOUS
<1>4. PICK f : f = Frame(x)
  OBVIOUS
<1>5. f.i = 0 /\ f.buf = << >>
  BY <1>4 DEF Frame
<1>6. frames' = Append(frames, f) /\ rval' = << >>
  BY <1>3, <1>4 DEF Descends
<1>7. /\ DOMAIN frames' = 1 .. n + 1 /\ frames'[n + 1] = f /\ frames' # << >>
      /\ \A k \in 1 .. n : frames'[k] = frames[k]
  <2>1. PICK B : frames \in Seq(Frames(B))
    BY DEF Chain
  <2>. QED
    BY <1>2, <1>6, <2>1
<1>8. PICK new : new = n + 1
  OBVIOUS
<1>9. FrameHas(y, new)'
  <2>1. BufSize \in Nat
    BY TransformAssumption
  <2>2. f.buf = [m \in 1 .. f.i |-> y[ArgExp(f.e, m)']]
    BY <1>5
  <2>. QED
    BY <1>5, <1>7, <1>8, <2>1, <2>2 DEF FrameHas
<1>10. \A k \in 1 .. n : FrameHas(y, k)'
  BY <1>2, <1>7, HasStays DEF Evaluates
<1>11. \A k \in 1 .. n + 1 : k \in 1 .. n \/ k = new
  BY <1>8
<1>12. (\A k \in DOMAIN frames : FrameHas(y, k))'
  BY <1>7, <1>9, <1>10, <1>11
<1>. QED
  BY <1>1, <1>6, <1>7, <1>12 DEF Evaluates

(* A call is over with what it should come to. *)
LEMMA ReturnsEvaluates ==
  ASSUME HeapOK, Chain, NEW val, Returns(val), UNCHANGED << heap, root, p13n, pc >>, NEW y, Evaluates(y),
         y[Calls.e] = val, val # Undefined
  PROVE  Evaluates(y)'
<1>1. (\A e \in Exps : y[e] = ExpValue(y, e))'
  BY ValueStays DEF Evaluates
<1>2. PICK n \in Nat \ {0} : n = Len(frames) /\ DOMAIN frames = 1 .. n /\ Calls = frames[n] /\ frames # << >>
  BY FramesAre DEF Returns
<1>3. PICK m \in Nat : m = n - 1
  BY <1>2
<1>4. Chain' /\ Len(frames') = m /\ \A k \in 1 .. m : frames'[k] = frames[k] /\ k \in 1 .. n
  BY <1>2, <1>3, ReturnsChain
<1>5. DOMAIN frames' = 1 .. m /\ (m = 0 <=> frames' = << >>)
  <2>1. PICK B : frames' \in Seq(Frames(B))
    BY <1>4 DEF Chain
  <2>. QED
    BY <1>3, <1>4, <2>1, LenProperties, EmptySeq
<1>6. (\A k \in DOMAIN frames : FrameHas(y, k))'
  BY <1>2, <1>4, <1>5, HasStays DEF Evaluates
<1>7. rval' = << val >>
  BY DEF Returns, Return
<1>8. Due' = Calls.e
  <2>1. CASE m = 0
    <3>a. n = 1
      BY <1>2, <1>3, <2>1
    <3>1. n = 1 /\ frames' = << >>
      BY <1>5, <2>1, <3>a
    <3>2. Calls.e = root
      BY <1>2, <3>1 DEF Chain
    <3>. QED
      BY <3>1, <3>2 DEF Due
  <2>2. CASE m # 0
    <3>1. m \in 1 .. m /\ m \in 1 .. n /\ m < n /\ m + 1 = n /\ frames' # << >>
      BY <1>2, <1>3, <1>5, <2>2
    <3>2. Calls' = frames[m]
      BY <1>4, <3>1 DEF Calls, Last
    <3>3. frames[m + 1].e = ArgExp(frames[m].e, frames[m].i + 1)
      BY <1>2, <3>1 DEF Chain
    <3>4. Due' = ArgExp(frames[m].e, frames[m].i + 1)
      BY <3>1, <3>2 DEF Due, ArgExp, FuncOf
    <3>. QED
      BY <1>2, <3>1, <3>3, <3>4
  <2>. QED
    BY <2>1, <2>2
<1>9. pc = "undefined" => y[root] = Undefined
  BY DEF Evaluates
<1>. QED
  BY <1>1, <1>6, <1>7, <1>8, <1>9 DEF Evaluates

(* Two sequences joined, the second of one value. *)
LEMMA OneJoins ==
  ASSUME NEW T, NEW u \in Seq(T), NEW v \in Seq(T), NEW i \in Nat, Len(u) = i, Len(v) = 1, NEW w, w = u \o v
  PROVE  w \in Seq(T) /\ Len(w) = i + 1 /\ w[i + 1] = v[1] /\ \A m \in 1 .. i : w[m] = u[m]
<1>1. /\ w \in Seq(T) /\ Len(w) = Len(u) + Len(v)
      /\ \A m \in 1 .. Len(u) + Len(v) : w[m] = IF m <= Len(u) THEN u[m] ELSE v[m - Len(u)]
  BY ConcatProperties
<1>2. Len(w) = i + 1 /\ i + 1 \in 1 .. Len(u) + Len(v) /\ ~(i + 1 <= Len(u)) /\ i + 1 - Len(u) = 1
  BY <1>1
<1>3. \A m \in 1 .. i : m \in 1 .. Len(u) + Len(v) /\ m <= Len(u)
  OBVIOUS
<1>. QED
  BY <1>1, <1>2, <1>3

(* What a function on 1 .. i is: its values. *)
Has(u, i) == u = [m \in 1 .. i |-> u[m]]

(* One value put behind the others. *)
Longer(w, u, z) == w = u \o << z >>

(* One value more behind the others. *)
LEMMA OneMore ==
  ASSUME NEW i \in Nat, NEW u, Has(u, i), NEW z, NEW w, Longer(w, u, z)
  PROVE  w = [m \in 1 .. i + 1 |-> IF m \in 1 .. i THEN u[m] ELSE z]
<1>1. PICK T : T = {u[m] : m \in 1 .. i} \cup {z}
  OBVIOUS
<1>2. PICK v : v = << z >>
  OBVIOUS
<1>3. v \in Seq(T) /\ Len(v) = 1 /\ v[1] = z
  BY <1>1, <1>2
<1>4. u \in [1 .. i -> T]
  BY <1>1 DEF Has
<1>5. u \in Seq(T) /\ Len(u) = i
  BY <1>4
<1>6. w = u \o v
  BY <1>2 DEF Longer
<1>7. w \in Seq(T) /\ Len(w) = i + 1 /\ w[i + 1] = v[1] /\ \A m \in 1 .. i : w[m] = u[m]
  BY <1>3, <1>5, <1>6, OneJoins
<1>8. \A m \in 1 .. i : w[m] = u[m]
  BY <1>7
<1>9. w[i + 1] = z
  BY <1>3, <1>7
<1>10. \A m \in 1 .. i + 1 : w[m] = IF m \in 1 .. i THEN u[m] ELSE z
  <2>1. \A m \in 1 .. i + 1 : m \in 1 .. i \/ (m = i + 1 /\ m \notin 1 .. i)
    OBVIOUS
  <2>. QED
    BY <1>8, <1>9, <2>1
<1>. QED
  BY <1>7, <1>10, LenProperties

(* A value is stored behind the others. *)
LEMMA StoresEvaluates ==
  ASSUME HeapOK, Chain, ExecStore, Advances, UNCHANGED << heap, root, p13n, pc >>, NEW y, Evaluates(y),
         frames'[Len(frames)].buf = SubSeq(Calls.buf, 1, Calls.i) \o << rval[1] >>,
         ~Refused(rval[1]), Room(Calls.i)
  PROVE  Evaluates(y)'
<1>1. (\A e \in Exps : y[e] = ExpValue(y, e))'
  BY ValueStays DEF Evaluates
<1>2. PICK n \in Nat \ {0}, e \in Nat, i \in Nat :
        /\ n = Len(frames) /\ DOMAIN frames = 1 .. n /\ n \in DOMAIN frames
        /\ Calls = frames[n] /\ e = Calls.e /\ i = Calls.i /\ Is(e, "exp") /\ frames # << >>
  BY LastFrame DEF Advances
<1>3. AtArg(n) /\ rval # << >>
  BY <1>2 DEF Chain, Advances
<1>4. heap[e].type = "FUNC"
  BY <1>2, <1>3 DEF AtArg
<1>5. i < BufSize /\ BufSize \in Nat
  BY <1>2, TransformAssumption DEF Room
<1>6. PICK x : x = ArgExp(e, i + 1)
  OBVIOUS
<1>7. rval = << y[x] >> /\ y[x] # Undefined /\ y[x] # NULL /\ rval[1] = y[x]
  <2>1. Due = x
    BY <1>2, <1>6 DEF Due
  <2>. QED
    BY <1>3, <2>1 DEF Evaluates, Refused
<1>8. /\ Calls.buf = [m \in 1 .. i |-> y[ArgExp(e, m)]]
      /\ \A m \in 1 .. i : y[ArgExp(e, m)] \notin {NULL, Undefined}
  <2>1. FrameHas(y, n)
    BY <1>2 DEF Evaluates
  <2>2. frames[n].e = e /\ frames[n].i = i
    BY <1>2
  <2>. QED
    BY <1>2, <1>4, <2>1, <2>2 DEF FrameHas
<1>9. PICK fs : fs = frames'
  OBVIOUS
<1>10. /\ Len(fs) = n /\ fs[n].e = e /\ fs[n].i = i + 1 /\ DOMAIN fs = 1 .. n
       /\ \A k \in 1 .. n : k < n => fs[k] = frames[k]
  <2>1. PICK B : frames' \in Seq(Frames(B))
    BY DEF Advances
  <2>2. Len(fs) = n /\ fs[n].e = e /\ fs[n].i = i + 1 /\ \A k \in 1 .. n : k < n => fs[k] = frames[k]
    BY <1>2, <1>9 DEF Advances
  <2>3. DOMAIN fs = 1 .. n
    BY <1>9, <2>1, <2>2, LenProperties
  <2>. QED
    BY <2>2, <2>3
<1>11. fs[n].buf = [m \in 1 .. i + 1 |-> y[ArgExp(e, m)]]
  <2>1. PICK u : u = Calls.buf
    OBVIOUS
  <2>3. u = [m \in 1 .. i |-> u[m]]
    BY <1>8, <2>1
  <2>5. SubSeq(u, 1, i) = u
    <3>1. PICK T : T = {u[m] : m \in 1 .. i}
      OBVIOUS
    <3>2. u \in [1 .. i -> T]
      BY <2>3, <3>1
    <3>. QED
      BY <3>2
  <2>6. PICK z, w : z = y[x] /\ w = u \o << z >>
    OBVIOUS
  <2>7. w = [m \in 1 .. i + 1 |-> IF m \in 1 .. i THEN u[m] ELSE z]
    <3>1. Has(u, i) /\ Longer(w, u, z)
      BY <2>3, <2>6 DEF Has, Longer
    <3>. QED
      BY <3>1, OneMore
  <2>8. \A m \in 1 .. i + 1 : m \in 1 .. i \/ (m = i + 1 /\ m \notin 1 .. i)
    OBVIOUS
  <2>9. \A m \in 1 .. i + 1 : (IF m \in 1 .. i THEN u[m] ELSE z) = y[ArgExp(e, m)]
    BY <1>6, <1>8, <2>1, <2>6, <2>8
  <2>10. w = [m \in 1 .. i + 1 |-> y[ArgExp(e, m)]]
    BY <2>7, <2>9
  <2>11. fs[n].buf = SubSeq(u, 1, i) \o << y[x] >>
    BY <1>2, <1>7, <1>9, <2>1
  <2>. QED
    BY <2>5, <2>6, <2>10, <2>11
<1>12. \A d, m : ArgExp(d, m)' = ArgExp(d, m)
  BY DEF ArgExp, FuncOf
<1>13. FrameHas(y, n)'
  <2>1. \A m \in 1 .. i + 1 : y[ArgExp(e, m)] \notin {NULL, Undefined}
    <3>1. \A m \in 1 .. i + 1 : m \in 1 .. i \/ m = i + 1
      OBVIOUS
    <3>. QED
      BY <1>6, <1>7, <1>8, <3>1
  <2>2. i + 1 <= BufSize
    BY <1>5
  <2>3. fs[n].buf = [m \in 1 .. fs[n].i |-> y[ArgExp(fs[n].e, m)']]
    BY <1>10, <1>11, <1>12
  <2>. QED
    BY <1>9, <1>10, <1>12, <2>1, <2>2, <2>3 DEF FrameHas
<1>14. \A k \in 1 .. n : k < n => FrameHas(y, k)'
  BY <1>2, <1>9, <1>10, HasStays DEF Evaluates
<1>15. (\A k \in DOMAIN frames : FrameHas(y, k))'
  <2>1. \A k \in 1 .. n : k < n \/ k = n
    OBVIOUS
  <2>. QED
    BY <1>9, <1>10, <1>13, <1>14, <2>1
<1>16. rval' = << >> /\ frames' # << >>
  <2>1. frames' # << >>
    BY <1>9, <1>10
  <2>. QED
    BY <2>1 DEF Advances
<1>17. pc = "undefined" => y[root] = Undefined
  BY DEF Evaluates
<1>. QED
  BY <1>1, <1>15, <1>16, <1>17 DEF Evaluates

(* There is no room for an argument: the call has no meaning. *)
LEMMA NoRoom ==
  ASSUME HeapOK, Chain, frames # << >>, rval # << >>, ~Room(Calls.i), NEW y, Evaluates(y)
  PROVE  y[Calls.e] = Undefined
<1>1. PICK n \in Nat \ {0}, e \in Nat, i \in Nat :
        /\ n = Len(frames) /\ DOMAIN frames = 1 .. n /\ n \in DOMAIN frames
        /\ Calls = frames[n] /\ e = Calls.e /\ i = Calls.i /\ Is(e, "exp") /\ e \in Exps
  BY LastFrame
<1>2. AtArg(n)
  BY <1>1 DEF Chain
<1>3. heap[e].type = "FUNC" /\ i < Len(Args(e))
  BY <1>1, <1>2 DEF AtArg
<1>4. i <= BufSize /\ \A m \in 1 .. i : y[ArgExp(e, m)] \notin {NULL, Undefined}
  BY <1>1, <1>3 DEF Evaluates, FrameHas
<1>5. i + 1 > BufSize
  BY <1>1, <1>4, TransformAssumption DEF Room
<1>6. ExpValue(y, e) = Undefined
  BY <1>1, <1>3, <1>4, <1>5, CallWithout
<1>. QED
  BY <1>1, <1>6 DEF Evaluates

(* An argument refuses: so does the call. *)
LEMMA Refuses ==
  ASSUME HeapOK, Chain, frames # << >>, rval # << >>, Room(Calls.i), Refused(rval[1]), NEW y, Evaluates(y)
  PROVE  y[Calls.e] = NULL /\ NULL # Undefined
<1>1. PICK n \in Nat \ {0}, e \in Nat, i \in Nat :
        /\ n = Len(frames) /\ DOMAIN frames = 1 .. n /\ n \in DOMAIN frames
        /\ Calls = frames[n] /\ e = Calls.e /\ i = Calls.i /\ Is(e, "exp") /\ e \in Exps
  BY LastFrame
<1>2. AtArg(n)
  BY <1>1 DEF Chain
<1>3. heap[e].type = "FUNC" /\ i < Len(Args(e))
  BY <1>1, <1>2 DEF AtArg
<1>4. i <= BufSize /\ \A m \in 1 .. i : y[ArgExp(e, m)] \notin {NULL, Undefined}
  BY <1>1, <1>3 DEF Evaluates, FrameHas
<1>5. ~(i + 1 > BufSize)
  BY <1>1, TransformAssumption DEF Room
<1>6. PICK x : x = ArgExp(e, i + 1)
  OBVIOUS
<1>7. y[x] = NULL /\ y[x] # Undefined
  <2>1. Due = x
    BY <1>1, <1>6 DEF Due
  <2>. QED
    BY <2>1 DEF Evaluates, Refused
<1>8. ExpValue(y, e) = y[x]
  BY <1>1, <1>3, <1>4, <1>5, <1>6, <1>7, CallWithout
<1>. QED
  BY <1>1, <1>7, <1>8 DEF Evaluates

(* A string and a field are what they are, *)
LEMMA Leaves ==
  ASSUME HeapOK, Chain, ExecLeaf, p13n \in P13nRows, NEW y, Evaluates(y), NEW val, Returns(val)
  PROVE  y[Calls.e] = rval'[1] /\ rval'[1] # Undefined /\ rval'[1] = val
<1>1. PICK n \in Nat \ {0}, e \in Nat, i \in Nat :
        e = Calls.e /\ Node = heap[e] /\ Is(e, "exp") /\ e \in Exps
  BY LastFrame DEF ExecLeaf
<1>2. rval' = << val >> /\ rval'[1] = val
  BY DEF Returns, Return
<1>3. y[e] = ExpValue(y, e)
  BY <1>1 DEF Evaluates
<1>4. CASE heap[e].type = "STRING"
  <2>1. Is(heap[e].val, "str")
    BY <1>1, <1>4, ExpIs
  <2>2. heap[heap[e].val].str \in Seq(Nat)
    BY <2>1 DEF HeapOK, Is, Nodes
  <2>3. rval' = << heap[heap[e].val].str >>
    BY <1>1, <1>4 DEF ExecLeaf, Return
  <2>4. ExpValue(y, e) = heap[heap[e].val].str
    BY <1>4 DEF ExpValue
  <2>. QED
    BY <1>1, <1>2, <1>3, <2>2, <2>3, <2>4, TransformAssumption
<1>5. CASE heap[e].type = "P13N"
  <2>1. heap[heap[e].val].offset \in Range(FieldOf)
    BY <1>1, <1>5, ExpIs
  <2>2. PICK name \in DOMAIN FieldOf : heap[heap[e].val].offset = FieldOf[name]
    BY <2>1 DEF Range
  <2>3. p13n[heap[heap[e].val].offset] \in Seq(Nat)
    BY <2>2, TransformAssumption
  <2>4. rval' = << p13n[heap[heap[e].val].offset] >>
    BY <1>1, <1>5 DEF ExecLeaf, Return
  <2>5. ExpValue(y, e) = p13n[heap[heap[e].val].offset]
    BY <1>5 DEF ExpValue
  <2>. QED
    BY <1>1, <1>2, <1>3, <2>3, <2>4, <2>5, TransformAssumption
<1>. QED
  BY <1>1, <1>4, <1>5 DEF ExecLeaf

(* and a call that has all its arguments is the transform of them. *)
LEMMA Applies ==
  ASSUME HeapOK, Chain, ExecCall, NEW y, Evaluates(y)
  PROVE  y[Calls.e] = Apply(heap[FuncOf(Calls.e).name].str, Calls.buf)
<1>1. PICK n \in Nat \ {0}, e \in Nat, i \in Nat :
        /\ n \in DOMAIN frames /\ Calls = frames[n] /\ Node = heap[e]
        /\ e = Calls.e /\ i = Calls.i /\ Is(e, "exp") /\ e \in Exps
        /\ heap[e].type = "FUNC" => Args(e) = FuncOf(e).args
  BY LastFrame DEF ExecCall
<1>2. heap[e].type = "FUNC" /\ i = Len(Args(e))
  BY <1>1 DEF ExecCall
<1>3. /\ i <= BufSize /\ Calls.buf = [m \in 1 .. i |-> y[ArgExp(e, m)]]
      /\ \A m \in 1 .. i : y[ArgExp(e, m)] \notin {NULL, Undefined}
  BY <1>1, <1>2 DEF Evaluates, FrameHas
<1>4. ExpValue(y, e) = Apply(heap[FuncOf(e).name].str, Calls.buf)
  BY <1>1, <1>2, <1>3, CallWith
<1>. QED
  BY <1>1, <1>4 DEF Evaluates

(* There is a row, and no call. *)
LEMMA ExecInit == Init => ExecInv
  BY DEF Init, ExecInv

(* Every step of the program keeps the calls on their way. *)
LEMMA ExecStep == BaseInv /\ ExecInv /\ [Next]_vars => ExecInv'
<1> SUFFICES ASSUME BaseInv, ExecInv, [Next]_vars PROVE ExecInv'
  OBVIOUS
<1>1. HeapOK /\ StackOK /\ TextOK /\ Chain /\ Quiet /\ (root # 0 => Is(root, "exp"))
  BY DEF BaseInv, TypesInv, RunInv
<1>2. CASE pc = "parse"
  <2>1. p13n' = p13n /\ pc' \in {"parse", "compiled", "exit"}
    BY <1>1, <1>2, StepsAre DEF Accept, Error, running, vars
  <2>. QED
    BY <2>1 DEF ExecInv
<1>3. CASE pc # "parse"
  <2>1. UNCHANGED << heap, root >>
    BY <1>1, <1>3, RunsAre DEF parsing
  <2>2. CASE Exec /\ Starts
    <3>1. p13n' \in P13nRows /\ pc' = "exec" /\ root # 0
      BY <2>2 DEF Exec
    <3>2. \E y : Evaluates(y)'
      BY <1>1, <2>1, <2>2, <3>1, StartsEvaluates
    <3>. QED
      BY <2>1, <3>1, <3>2 DEF ExecInv
  <2>3. CASE pc' \notin {"exec", "executed", "undefined"} /\ UNCHANGED p13n
    BY <2>3 DEF ExecInv
  <2>4. CASE ExecArg /\ Descends
    <3>1. UNCHANGED << p13n, pc >> /\ pc = "exec"
      BY <2>4 DEF ExecArg
    <3>2. PICK y : Evaluates(y)
      BY <3>1 DEF ExecInv
    <3>3. Evaluates(y)'
      BY <1>1, <2>1, <2>4, <3>1, <3>2, DescendsEvaluates
    <3>. QED
      BY <2>1, <3>1, <3>3 DEF ExecInv
  <2>5. CASE ExecStore /\ UNCHANGED pc
    <3>1. UNCHANGED << p13n, pc >> /\ pc = "exec" /\ frames # << >> /\ rval # << >>
      BY <2>5 DEF ExecStore
    <3>2. PICK y : Evaluates(y)
      BY <3>1 DEF ExecInv
    <3>3. CASE Returns(NULL) /\ Refused(rval[1])
      <4>1. Room(Calls.i)
        BY <2>5, <3>1 DEF ExecStore
      <4>2. y[Calls.e] = NULL /\ NULL # Undefined
        BY <1>1, <3>1, <3>2, <3>3, <4>1, Refuses
      <4>3. Evaluates(y)'
        BY <1>1, <2>1, <3>1, <3>2, <3>3, <4>2, ReturnsEvaluates
      <4>. QED
        BY <2>1, <3>1, <4>3 DEF ExecInv
    <3>4. CASE /\ Advances
               /\ frames'[Len(frames)].buf = SubSeq(Calls.buf, 1, Calls.i) \o << rval[1] >>
               /\ ~Refused(rval[1]) /\ Room(Calls.i)
      <4>1. Evaluates(y)'
        BY <1>1, <2>1, <2>5, <3>1, <3>2, <3>4, StoresEvaluates
      <4>. QED
        BY <2>1, <3>1, <4>1 DEF ExecInv
    <3>. QED
      BY <1>1, <2>5, <3>3, <3>4, Stores
  <2>6. CASE (ExecLeaf \/ ExecCall) /\ UNCHANGED pc /\ \E val : Returns(val)
    <3>1. UNCHANGED << p13n, pc >> /\ pc = "exec" /\ p13n \in P13nRows
      BY <2>6 DEF ExecLeaf, ExecCall, ExecInv
    <3>2. PICK y : Evaluates(y)
      BY <3>1 DEF ExecInv
    <3>3. PICK val : Returns(val)
      BY <2>6
    <3>4. CASE ExecLeaf
      <4>1. y[Calls.e] = val /\ val # Undefined
        BY <1>1, <3>1, <3>2, <3>3, <3>4, Leaves
      <4>2. Evaluates(y)'
        BY <1>1, <2>1, <3>1, <3>2, <3>3, <4>1, ReturnsEvaluates
      <4>. QED
        BY <2>1, <3>1, <4>2 DEF ExecInv
    <3>5. CASE ExecCall
      <4>1. PICK v : v = Apply(heap[FuncOf(Calls.e).name].str, Calls.buf)
        OBVIOUS
      <4>2. Returns(v) /\ v # Undefined
        BY <2>6, <3>1, <3>5, <4>1 DEF ExecCall, Returns
      <4>3. y[Calls.e] = v
        BY <1>1, <3>2, <3>5, <4>1, Applies
      <4>4. Evaluates(y)'
        BY <1>1, <2>1, <3>1, <3>2, <4>2, <4>3, ReturnsEvaluates
      <4>. QED
        BY <2>1, <3>1, <4>4 DEF ExecInv
    <3>. QED
      BY <2>6, <3>4, <3>5
  <2>7. CASE /\ UNCHANGED << frames, rval, p13n >> /\ pc = "exec" /\ pc' = "undefined" /\ frames # << >>
             /\ ExecStore \/ ExecCall
    <3>1. PICK y : Evaluates(y)
      BY <2>7 DEF ExecInv
    <3>2. y[Calls.e] = Undefined
      <4>1. CASE ExecStore
        <5>1. rval # << >> /\ ~Room(Calls.i)
          BY <2>7, <4>1 DEF ExecStore
        <5>. QED
          BY <1>1, <2>7, <3>1, <5>1, NoRoom
      <4>2. CASE ExecCall
        <5>1. Apply(heap[FuncOf(Calls.e).name].str, Calls.buf) = Undefined
          BY <2>7, <4>2 DEF ExecCall
        <5>. QED
          BY <1>1, <3>1, <4>2, <5>1, Applies
      <4>. QED
        BY <2>7, <4>1, <4>2
    <3>3. y[root] = Undefined
      BY <1>1, <2>7, <3>1, <3>2, NoMeaning DEF Evaluates
    <3>4. Evaluates(y)'
      <4>1. (\A e \in Exps : y[e] = ExpValue(y, e))'
        BY <2>1, <2>7, <3>1, ValueStays DEF Evaluates
      <4>2. (\A k \in DOMAIN frames : FrameHas(y, k))'
        BY <2>1, <2>7, <3>1, HasStays DEF Evaluates
      <4>3. Due' = Due
        BY <2>1, <2>7 DEF Due, Calls, ArgExp, FuncOf
      <4>. QED
        BY <2>1, <2>7, <3>1, <3>3, <4>1, <4>2, <4>3 DEF Evaluates
    <3>. QED
      BY <2>1, <2>7, <3>4 DEF ExecInv
  <2>8. CASE /\ UNCHANGED << frames, rval, p13n >>
             /\ \/ ExecDone
                \/ (UNCHANGED pc) /\ pc \in {"exec", "executed", "undefined"}
    <3>1. pc \in {"exec", "executed", "undefined"} /\ (pc' = "undefined" => pc = "undefined")
      BY <2>8 DEF ExecDone
    <3>2. PICK y : Evaluates(y)
      BY <3>1 DEF ExecInv
    <3>3. Evaluates(y)'
      <4>1. (\A e \in Exps : y[e] = ExpValue(y, e))'
        BY <2>1, <2>8, <3>2, ValueStays DEF Evaluates
      <4>2. (\A k \in DOMAIN frames : FrameHas(y, k))'
        BY <2>1, <2>8, <3>2, HasStays DEF Evaluates
      <4>3. Due' = Due
        BY <2>1, <2>8 DEF Due, Calls, ArgExp, FuncOf
      <4>. QED
        BY <2>1, <2>8, <3>1, <3>2, <4>1, <4>2, <4>3 DEF Evaluates
    <3>. QED
      BY <2>1, <2>8, <3>1, <3>3 DEF ExecInv
  <2>9. Destroy \/ DestroyArg \/ FreeArg \/ FreeExp \/ Destroyed =>
          pc' \notin {"exec", "executed", "undefined"} /\ UNCHANGED p13n
    BY DEF Destroy, DestroyArg, FreeArg, FreeExp, Destroyed, running
  <2>10. Destroy \/ DestroyArg \/ FreeArg \/ FreeExp \/ Destroyed => ExecInv'
    BY <2>3, <2>9
  <2>11. (ExecLeaf \/ ExecCall) /\ UNCHANGED pc /\ (\E val : Returns(val)) => ExecInv'
    BY <2>6
  <2>12. ASSUME UNCHANGED << frames, rval, freed, p13n >>,
                \/ pc = "exec" /\ pc' = "undefined" /\ frames # << >> /\ (ExecStore \/ ExecCall)
                \/ ExecDone \/ Destroyed
                \/ UNCHANGED pc
         PROVE  ExecInv'
    <3>1. UNCHANGED << frames, rval, p13n >> /\ p13n' = p13n
      BY <2>12
    <3>2. UNCHANGED pc /\ pc \notin {"exec", "executed", "undefined"} =>
            pc' \notin {"exec", "executed", "undefined"}
      OBVIOUS
    <3>3. CASE pc = "exec" /\ pc' = "undefined" /\ frames # << >> /\ (ExecStore \/ ExecCall)
      BY <2>7, <3>1, <3>3
    <3>4. CASE ExecDone
      BY <2>8, <3>1, <3>4
    <3>5. CASE Destroyed
      BY <2>10, <3>5
    <3>6. CASE UNCHANGED pc
      <4>1. CASE pc \in {"exec", "executed", "undefined"}
        BY <2>8, <3>1, <3>6, <4>1
      <4>2. CASE pc \notin {"exec", "executed", "undefined"}
        BY <2>3, <3>1, <3>2, <3>6, <4>2
      <4>. QED
        BY <4>1, <4>2
    <3>. QED
      BY <2>12, <3>3, <3>4, <3>5, <3>6
  <2>. QED
    BY <1>1, <1>3, <2>2, <2>4, <2>5, <2>10, <2>11, <2>12, RunsAre
<1>. QED
  BY <1>2, <1>3

(* When no call is left the value is that of the root. *)
LEMMA ExecYieldsHolds == BaseInv /\ ExecInv => ExecYields
<1> SUFFICES ASSUME BaseInv, ExecInv, pc \in {"executed", "undefined"}
             PROVE  /\ pc = "executed" => rval = << Value >>
                    /\ pc = "undefined" => Value = Undefined
  BY DEF ExecYields
<1>1. HeapOK /\ Quiet /\ (root # 0 => Is(root, "exp"))
  BY DEF BaseInv, TypesInv, RunInv
<1>2. PICK y : Evaluates(y)
  BY DEF ExecInv
<1>3. root \in Exps
  BY <1>1 DEF ExecInv, Is, Exps
<1>4. Value = y[root]
  BY <1>1, <1>2, <1>3, ValueIs DEF Evaluates
<1>5. ASSUME pc = "executed" PROVE rval = << y[root] >>
  <2>1. frames = << >>
    BY <1>1, <1>5 DEF Quiet
  <2>. QED
    BY <1>2, <2>1 DEF Evaluates, Due
<1>. QED
  BY <1>2, <1>4, <1>5 DEF Evaluates

(* For any row, and in whatever order rows come, a call comes to what its  *)
(* tree stands for; the program is lost only when that has no meaning.     *)
THEOREM ExecYieldsTheValue == Spec => []ExecYields
<1>1. Init => BaseInv /\ ExecInv
  BY BaseInit, ExecInit
<1>2. BaseInv /\ ExecInv /\ [Next]_vars => BaseInv' /\ ExecInv'
  BY BaseStep, ExecStep
<1>. QED
  BY <1>1, <1>2, ExecYieldsHolds, PTL DEF Spec

-----------------------------------------------------------------------------
(* The expressions and lists of the grammar, by their length, *)
Phrases == CHOOSE f : f = [n \in 1 .. Len(text) |-> PartsOf(f, n)]

(* and where they are: from the i-th token to the j-th. *)
IsExp(i, j) == i \in 1 .. Len(text) /\ j \in i .. Len(text) /\ i \in Phrases[j - i + 1].expressions

(* A list from the i-th token to the j-th. *)
IsList(i, j) == i \in 1 .. Len(text) /\ j \in i .. Len(text) /\ i \in Phrases[j - i + 1].lists

(* The parts of a length depend on the shorter ones only. *)
LEMMA PartsAgree ==
  ASSUME NEW f, NEW g, NEW n \in Nat, \A m \in 1 .. n - 1 : f[m] = g[m]
  PROVE  PartsOf(f, n) = PartsOf(g, n)
<1>1. n >= 4 => n - 3 \in 1 .. n - 1
  OBVIOUS
<1>2. \A m \in 1 .. n - 2 : m \in 1 .. n - 1 /\ n - m - 1 \in 1 .. n - 1
  OBVIOUS
<1>3. n >= 4 => f[n - 3].lists = g[n - 3].lists
  BY <1>1
<1>4. \A m \in 1 .. n - 2 : f[m].lists = g[m].lists /\ f[n - m - 1].expressions = g[n - m - 1].expressions
  BY <1>2
<1>. QED
  BY <1>3, <1>4 DEF PartsOf

(* So there are such parts of any length. *)
LEMMA PartsExist == \A n \in Nat : \E f : f = [m \in 1 .. n |-> PartsOf(f, m)]
<1> DEFINE OfAll(f, n) == f = [m \in 1 .. n |-> PartsOf(f, m)]
           S == {n \in Nat : \E f : OfAll(f, n)}
<1>1. 0 \in S
  <2>1. OfAll([m \in 1 .. 0 |-> 0], 0)
    OBVIOUS
  <2>. QED
    BY <2>1
<1>2. ASSUME NEW n \in S \cap Nat PROVE n + 1 \in S
  <2>1. PICK f : OfAll(f, n)
    OBVIOUS
  <2>2. PICK last : last = PartsOf(f, n + 1)
    OBVIOUS
  <2>3. PICK g : g = [m \in 1 .. n + 1 |-> IF m = n + 1 THEN last ELSE f[m]]
    OBVIOUS
  <2>4. n + 1 \in 1 .. n + 1 /\ \A m \in 1 .. n : m \in 1 .. n + 1 /\ m # n + 1
    OBVIOUS
  <2>5. g[n + 1] = last /\ \A m \in 1 .. n : g[m] = f[m]
    BY <2>3, <2>4
  <2>6. ASSUME NEW m \in 1 .. n + 1 PROVE g[m] = PartsOf(g, m)
    <3>1. m \in Nat /\ \A k \in 1 .. m - 1 : k \in 1 .. n
      OBVIOUS
    <3>2. PartsOf(g, m) = PartsOf(f, m)
      <4>1. \A k \in 1 .. m - 1 : g[k] = f[k]
        BY <2>5, <3>1
      <4>. QED
        BY <3>1, <4>1, PartsAgree
    <3>3. CASE m = n + 1
      BY <2>2, <2>5, <3>2, <3>3
    <3>4. CASE m # n + 1
      <4>1. m \in 1 .. n
        BY <3>4
      <4>2. f[m] = PartsOf(f, m)
        BY <2>1, <4>1
      <4>. QED
        BY <2>5, <3>2, <4>1, <4>2
    <3>. QED
      BY <3>3, <3>4
  <2>7. g = [m \in 1 .. n + 1 |-> PartsOf(g, m)]
    BY <2>3, <2>6
  <2>. QED
    BY <2>7
<1> HIDE DEF S
<1>3. Nat \subseteq S
  BY <1>1, <1>2, AllNumbers
<1>. QED
  BY <1>3 DEF S

(* The parts are those of a sentence. *)
LEMMA SentenceIs ==
  ASSUME TextOK
  PROVE  /\ \A n \in 1 .. Len(text) : Phrases[n] = PartsOf(Phrases, n)
         /\ IsSentence <=> text = << >> \/ IsExp(1, Len(text))
<1>1. PICK len \in Nat : len = Len(text)
  BY LenProperties DEF TextOK
<1>2. \E f : f = [n \in 1 .. len |-> PartsOf(f, n)]
  BY PartsExist
<1>3. PICK p : p = CHOOSE f : f = [n \in 1 .. len |-> PartsOf(f, n)]
  OBVIOUS
<1>4. p = [n \in 1 .. len |-> PartsOf(p, n)]
  BY <1>2, <1>3
<1>5. Phrases = p
  BY <1>1, <1>3 DEF Phrases
<1>6. IsSentence <=> text = << >> \/ 1 \in p[len].expressions
  BY <1>1, <1>3 DEF IsSentence
<1>7. text # << >> => 1 \in 1 .. len /\ len \in 1 .. len /\ len - 1 + 1 = len
  BY <1>1 DEF TextOK
<1>8. IsExp(1, len) <=> text # << >> /\ 1 \in p[len].expressions
  BY <1>1, <1>5, <1>7 DEF IsExp
<1>. QED
  BY <1>1, <1>4, <1>5, <1>6, <1>8

(* The type of a token. *)
Type(k) == text[k].type

(* What the grammar says of an expression, *)
LEMMA ExpressionIs ==
  ASSUME TextOK, NEW i, NEW j, i \in 1 .. Len(text), j \in i .. Len(text)
  PROVE  IsExp(i, j) <=>
           \/ i = j /\ Type(i) \in {"IDENT", "STRING"}
           \/ /\ j >= i + 3 /\ Type(i) = "IDENT" /\ Type(i + 1) = "LEFT_PAREN" /\ Type(j) = "RIGHT_PAREN"
              /\ text[i].str \in Transforms /\ IsList(i + 2, j - 1)
<1>1. PICK len \in Nat : len = Len(text)
  BY LenProperties DEF TextOK
<1>2. PICK n \in Nat : n = j - i + 1
  BY <1>1
<1>3. n \in 1 .. len /\ i \in 1 .. len - n + 1 /\ i + n - 1 = j
  BY <1>1, <1>2
<1>4. Phrases[n] = PartsOf(Phrases, n)
  BY <1>1, <1>3, SentenceIs
<1>5. (n = 1 <=> i = j) /\ (n >= 4 <=> j >= i + 3)
  BY <1>1, <1>2
<1>6. IsExp(i, j) <=> i \in Phrases[n].expressions
  BY <1>2 DEF IsExp
<1>7. i \in PartsOf(Phrases, n).expressions <=>
        \/ n = 1 /\ Type(i) \in {"IDENT", "STRING"}
        \/ /\ n >= 4
           /\ Type(i) = "IDENT" /\ Type(i + 1) = "LEFT_PAREN" /\ Type(j) = "RIGHT_PAREN"
           /\ text[i].str \in Transforms
           /\ i + 2 \in Phrases[n - 3].lists
  BY <1>1, <1>3 DEF PartsOf, Type
<1>8. j >= i + 3 => (IsList(i + 2, j - 1) <=> i + 2 \in Phrases[n - 3].lists)
  <2>1. ASSUME j >= i + 3
        PROVE  i + 2 \in 1 .. len /\ j - 1 \in i + 2 .. len /\ (j - 1) - (i + 2) + 1 = n - 3
    BY <1>1, <1>2, <2>1
  <2>. QED
    BY <1>1, <2>1 DEF IsList
<1>. QED
  BY <1>4, <1>5, <1>6, <1>7, <1>8

(* and of a list. *)
LEMMA ListIs ==
  ASSUME TextOK, NEW i, NEW j, i \in 1 .. Len(text), j \in i .. Len(text)
  PROVE  IsList(i, j) <=>
           \/ IsExp(i, j)
           \/ \E k \in i + 1 .. j - 1 : Type(k) = "COMMA" /\ IsList(i, k - 1) /\ IsExp(k + 1, j)
<1>1. PICK len \in Nat : len = Len(text)
  BY LenProperties DEF TextOK
<1>2. PICK n \in Nat : n = j - i + 1
  BY <1>1
<1>3. n \in 1 .. len /\ i \in 1 .. len - n + 1 /\ i + n - 1 = j
  BY <1>1, <1>2
<1>4. Phrases[n] = PartsOf(Phrases, n)
  BY <1>1, <1>3, SentenceIs
<1>5. IsList(i, j) <=> i \in Phrases[n].lists
  BY <1>2 DEF IsList
<1>6. IsExp(i, j) <=> i \in Phrases[n].expressions
  BY <1>2 DEF IsExp
<1>7. i \in PartsOf(Phrases, n).lists <=>
        \/ i \in PartsOf(Phrases, n).expressions
        \/ \E m \in 1 .. n - 2 : /\ Type(i + m) = "COMMA" /\ i \in Phrases[m].lists
                                 /\ i + m + 1 \in Phrases[n - m - 1].expressions
  BY <1>1, <1>3 DEF PartsOf, Type
<1>8. ASSUME NEW m \in 1 .. n - 2
      PROVE  /\ IsList(i, i + m - 1) <=> i \in Phrases[m].lists
             /\ IsExp(i + m + 1, j) <=> i + m + 1 \in Phrases[n - m - 1].expressions
  <2>1. /\ i + m - 1 \in i .. len /\ (i + m - 1) - i + 1 = m
        /\ i + m + 1 \in 1 .. len /\ j \in i + m + 1 .. len /\ j - (i + m + 1) + 1 = n - m - 1
    BY <1>1, <1>2
  <2>. QED
    BY <1>1, <2>1 DEF IsList, IsExp
<1>9. ASSUME NEW m \in 1 .. n - 2, Type(i + m) = "COMMA", i \in Phrases[m].lists,
             i + m + 1 \in Phrases[n - m - 1].expressions
      PROVE  \E k \in i + 1 .. j - 1 : Type(k) = "COMMA" /\ IsList(i, k - 1) /\ IsExp(k + 1, j)
  <2>1. PICK k : k = i + m
    OBVIOUS
  <2>2. k \in i + 1 .. j - 1 /\ k - 1 = i + m - 1 /\ k + 1 = i + m + 1
    BY <1>1, <1>2, <2>1
  <2>3. IsList(i, k - 1) /\ IsExp(k + 1, j) /\ Type(k) = "COMMA"
    BY <1>8, <1>9, <2>1, <2>2
  <2>. QED
    BY <2>2, <2>3
<1>10. ASSUME NEW k \in i + 1 .. j - 1, Type(k) = "COMMA", IsList(i, k - 1), IsExp(k + 1, j)
       PROVE  \E m \in 1 .. n - 2 : /\ Type(i + m) = "COMMA" /\ i \in Phrases[m].lists
                                    /\ i + m + 1 \in Phrases[n - m - 1].expressions
  <2>1. PICK m : m = k - i
    OBVIOUS
  <2>2. m \in 1 .. n - 2 /\ i + m = k /\ i + m - 1 = k - 1 /\ i + m + 1 = k + 1
    BY <1>1, <1>2, <2>1
  <2>3. i \in Phrases[m].lists /\ i + m + 1 \in Phrases[n - m - 1].expressions /\ Type(i + m) = "COMMA"
    BY <1>8, <1>10, <2>2
  <2>. QED
    BY <2>2, <2>3
<1>. QED
  BY <1>4, <1>5, <1>6, <1>7, <1>9, <1>10

(* Where a list ends inside another part that begins with it: an           *)
(* expression is longer than its name only if a parenthesis follows, and a *)
(* list goes on behind a comma.                                            *)
Tells(i, j, l) ==
  IsList(i, j) /\ j < l =>
    /\ IsExp(i, l) => j = i /\ Type(i) = "IDENT" /\ Type(i + 1) = "LEFT_PAREN"
    /\ IsList(i, l) => \/ Type(j) = "IDENT" /\ Type(j + 1) = "LEFT_PAREN"
                       \/ Type(j + 1) = "COMMA" /\ IsList(j + 2, l)

(* What is true of shorter parts is so of these. *)
LEMMA TellsNext ==
  ASSUME TextOK, NEW n \in Nat,
         \A i, j, l \in 1 .. Len(text) : (j - i) + (l - i) < n => Tells(i, j, l),
         NEW i \in 1 .. Len(text), NEW j \in 1 .. Len(text), NEW l \in 1 .. Len(text),
         (j - i) + (l - i) = n
  PROVE  Tells(i, j, l)
<1> SUFFICES ASSUME IsList(i, j), j < l
             PROVE  /\ IsExp(i, l) => j = i /\ Type(i) = "IDENT" /\ Type(i + 1) = "LEFT_PAREN"
                    /\ IsList(i, l) => \/ Type(j) = "IDENT" /\ Type(j + 1) = "LEFT_PAREN"
                                       \/ Type(j + 1) = "COMMA" /\ IsList(j + 2, l)
  BY DEF Tells
<1>1. PICK len \in Nat : len = Len(text)
  BY LenProperties DEF TextOK
<1>2. i \in Nat /\ j \in Nat /\ l \in Nat /\ i <= j /\ j < l /\ l <= len /\ 1 <= i
  BY <1>1 DEF IsList
<1>3. i \in 1 .. len /\ j \in i .. len /\ l \in i .. len /\ i # l
  BY <1>1, <1>2
<1>4. ASSUME IsExp(i, l) PROVE j = i /\ Type(i) = "IDENT" /\ Type(i + 1) = "LEFT_PAREN"
  <2>1. /\ l >= i + 3 /\ Type(i) = "IDENT" /\ Type(i + 1) = "LEFT_PAREN" /\ Type(l) = "RIGHT_PAREN"
        /\ IsList(i + 2, l - 1)
    BY <1>1, <1>3, <1>4, ExpressionIs
  <2>2. ASSUME NEW k \in i + 1 .. j - 1, Type(k) = "COMMA", IsList(i, k - 1) PROVE FALSE
    <3>1. k - 1 \in 1 .. len /\ ((k - 1) - i) + (l - i) < n /\ k - 1 < l
      BY <1>1, <1>2
    <3>2. Tells(i, k - 1, l)
      BY <1>1, <3>1
    <3>3. k - 1 = i
      BY <1>4, <2>2, <3>1, <3>2 DEF Tells
    <3>4. k = i + 1
      BY <1>2, <3>3
    <3>. QED
      BY <2>1, <2>2, <3>4
  <2>3. ASSUME j >= i + 3, Type(j) = "RIGHT_PAREN", IsList(i + 2, j - 1) PROVE FALSE
    <3>1. /\ i + 2 \in 1 .. len /\ j - 1 \in 1 .. len /\ l - 1 \in 1 .. len /\ j - 1 < l - 1
          /\ ((j - 1) - (i + 2)) + ((l - 1) - (i + 2)) < n /\ (j - 1) + 1 = j
      BY <1>1, <1>2, <2>3
    <3>2. Tells(i + 2, j - 1, l - 1)
      BY <1>1, <3>1
    <3>3. Type(j) \in {"LEFT_PAREN", "COMMA"}
      BY <2>1, <2>3, <3>1, <3>2 DEF Tells
    <3>. QED
      BY <2>3, <3>3
  <2>4. CASE IsExp(i, j)
    <3>1. i = j \/ (j >= i + 3 /\ Type(j) = "RIGHT_PAREN" /\ IsList(i + 2, j - 1))
      BY <1>1, <1>3, <2>4, ExpressionIs
    <3>. QED
      BY <2>1, <2>3, <3>1
  <2>. QED
    BY <1>1, <1>3, <2>2, <2>4, ListIs
<1>5. ASSUME IsList(i, l), ~IsExp(i, l)
      PROVE  \/ Type(j) = "IDENT" /\ Type(j + 1) = "LEFT_PAREN"
             \/ Type(j + 1) = "COMMA" /\ IsList(j + 2, l)
  <2>1. PICK k \in i + 1 .. l - 1 : Type(k) = "COMMA" /\ IsList(i, k - 1) /\ IsExp(k + 1, l)
    BY <1>1, <1>3, <1>5, ListIs
  <2>2. k \in Nat /\ i + 1 <= k /\ k + 1 <= l
    BY <1>2
  <2>3. CASE j = k - 1
    <3>1. j + 1 = k /\ j + 2 = k + 1 /\ k + 1 \in 1 .. len /\ l \in k + 1 .. len
      BY <1>2, <2>2, <2>3
    <3>2. IsList(k + 1, l)
      BY <1>1, <2>1, <3>1, ListIs
    <3>. QED
      BY <2>1, <3>1, <3>2
  <2>4. CASE j < k - 1
    <3>1. k - 1 \in 1 .. len /\ (j - i) + ((k - 1) - i) < n
      BY <1>1, <1>2, <2>2
    <3>2. Tells(i, j, k - 1)
      BY <1>1, <3>1
    <3>3. ASSUME Type(j + 1) = "COMMA", IsList(j + 2, k - 1) PROVE IsList(j + 2, l)
      <4>1. j + 2 <= k - 1
        BY <1>2, <2>2, <3>3 DEF IsList
      <4>2. j + 2 \in 1 .. len /\ l \in j + 2 .. len /\ k \in (j + 2) + 1 .. l - 1
        BY <1>2, <2>2, <4>1
      <4>. QED
        BY <1>1, <2>1, <3>3, <4>2, ListIs
    <3>. QED
      BY <2>1, <2>4, <3>2, <3>3 DEF Tells
  <2>5. CASE j > k - 1
    <3>1. k - 1 \in 1 .. len /\ ((k - 1) - i) + (j - i) < n /\ k - 1 < j /\ (k - 1) + 1 = k /\ (k - 1) + 2 = k + 1
      BY <1>1, <1>2, <2>2, <2>5
    <3>2. Tells(i, k - 1, j)
      BY <1>1, <3>1
    <3>3. IsList(k + 1, j)
      BY <2>1, <3>1, <3>2 DEF Tells
    <3>4. k + 1 \in 1 .. len /\ (j - (k + 1)) + (l - (k + 1)) < n
      BY <1>2, <2>2
    <3>5. Tells(k + 1, j, l)
      BY <1>1, <3>4
    <3>6. j = k + 1 /\ Type(k + 1) = "IDENT" /\ Type((k + 1) + 1) = "LEFT_PAREN"
      BY <1>2, <2>1, <3>3, <3>5 DEF Tells
    <3>. QED
      BY <3>6
  <2>. QED
    BY <1>2, <2>2, <2>3, <2>4, <2>5
<1>. QED
  BY <1>4, <1>5

(* It is so of all. *)
LEMMA PartsTell ==
  ASSUME TextOK
  PROVE  \A i, j, l : IsList(i, j) /\ l \in 1 .. Len(text) => Tells(i, j, l)
<1> DEFINE S == {n \in Nat : \A i, j, l \in 1 .. Len(text) : (j - i) + (l - i) < n => Tells(i, j, l)}
<1>1. PICK len \in Nat : len = Len(text)
  BY LenProperties DEF TextOK
<1>2. ASSUME NEW i \in 1 .. len, NEW j \in 1 .. len, NEW l \in 1 .. len, (j - i) + (l - i) < 0
      PROVE  Tells(i, j, l)
  <2>1. IsList(i, j) /\ j < l => i <= j /\ i < l
    BY <1>1, <1>2 DEF IsList
  <2>. QED
    BY <1>1, <1>2, <2>1 DEF Tells
<1>3. 0 \in S
  BY <1>1, <1>2
<1>4. ASSUME NEW n \in S \cap Nat PROVE n + 1 \in S
  <2>1. \A i, j, l \in 1 .. Len(text) : (j - i) + (l - i) < n => Tells(i, j, l)
    OBVIOUS
  <2>2. \A i, j, l \in 1 .. Len(text) : (j - i) + (l - i) = n => Tells(i, j, l)
    BY <2>1, TellsNext
  <2>3. ASSUME NEW i \in 1 .. Len(text), NEW j \in 1 .. Len(text), NEW l \in 1 .. Len(text),
               (j - i) + (l - i) < n + 1
        PROVE  Tells(i, j, l)
    <3>1. (j - i) + (l - i) < n \/ (j - i) + (l - i) = n
      BY <1>1, <2>3
    <3>. QED
      BY <2>1, <2>2, <3>1
  <2>4. n + 1 \in Nat
    OBVIOUS
  <2>. QED
    BY <2>3, <2>4
<1>5. Nat \subseteq S
  <2> HIDE DEF S
  <2>. QED
    BY <1>3, <1>4, AllNumbers
<1>6. ASSUME NEW i, NEW j, NEW l, IsList(i, j), l \in 1 .. len PROVE Tells(i, j, l)
  <2>1. i \in 1 .. len /\ j \in 1 .. len
    BY <1>1, <1>6 DEF IsList
  <2>2. CASE j < l
    <3>1. (j - i) + (l - i) \in Nat /\ (j - i) + (l - i) + 1 \in Nat
          /\ (j - i) + (l - i) < (j - i) + (l - i) + 1
      BY <1>1, <1>6, <2>1, <2>2 DEF IsList
    <3>2. PICK n \in Nat : n = (j - i) + (l - i) + 1
      BY <3>1
    <3>3. n \in S
      BY <1>5
    <3>. QED
      BY <1>1, <1>6, <2>1, <3>1, <3>2, <3>3
  <2>3. CASE ~(j < l)
    BY <2>3 DEF Tells
  <2>. QED
    BY <2>2, <2>3
<1>. QED
  BY <1>1, <1>6

(* A list begins with an expression that it ends with, or that a comma     *)
(* follows.                                                                *)
Begins(s, t) == \E e \in s .. t : IsExp(s, e) /\ (e = t \/ Type(e + 1) = "COMMA")

(* Every list begins so. *)
LEMMA FirstOne ==
  ASSUME TextOK
  PROVE  \A s, t : IsList(s, t) => Begins(s, t)
<1> DEFINE S == {n \in Nat : \A s, t : IsList(s, t) /\ t - s < n => Begins(s, t)}
<1>1. PICK len \in Nat : len = Len(text)
  BY LenProperties DEF TextOK
<1>2. 0 \in S
  BY <1>1 DEF IsList
<1>3. ASSUME NEW n \in S \cap Nat PROVE n + 1 \in S
  <2>1. ASSUME NEW s, NEW t, IsList(s, t), t - s < n + 1 PROVE Begins(s, t)
    <3>1. s \in 1 .. len /\ t \in s .. len
      BY <1>1, <2>1 DEF IsList
    <3>2. CASE IsExp(s, t)
      BY <3>1, <3>2 DEF Begins
    <3>3. CASE ~IsExp(s, t)
      <4>1. PICK k \in s + 1 .. t - 1 : Type(k) = "COMMA" /\ IsList(s, k - 1)
        BY <1>1, <2>1, <3>1, <3>3, ListIs
      <4>2. k \in Nat /\ (k - 1) - s < n /\ k - 1 < t /\ (k - 1) + 1 = k
        BY <2>1, <3>1
      <4>3. Begins(s, k - 1)
        BY <4>1, <4>2
      <4>4. PICK e \in s .. k - 1 : IsExp(s, e) /\ (e = k - 1 \/ Type(e + 1) = "COMMA")
        BY <4>3 DEF Begins
      <4>5. e \in s .. t /\ (e = k - 1 => e + 1 = k)
        BY <3>1, <4>2
      <4>. QED
        BY <4>1, <4>4, <4>5 DEF Begins
    <3>. QED
      BY <3>2, <3>3
  <2>. QED
    BY <2>1
<1> HIDE DEF S
<1>4. Nat \subseteq S
  BY <1>2, <1>3, AllNumbers
<1>5. ASSUME NEW s, NEW t, IsList(s, t) PROVE Begins(s, t)
  <2>1. t - s + 1 \in Nat /\ t - s < t - s + 1
    BY <1>1, <1>5 DEF IsList
  <2>2. t - s + 1 \in S
    BY <1>4, <2>1
  <2>. QED
    BY <1>5, <2>1, <2>2 DEF S
<1>. QED
  BY <1>5

(* So with a name or a string, *)
LEMMA FirstToken ==
  ASSUME TextOK, NEW s, NEW t, IsList(s, t)
  PROVE  s \in 1 .. Len(text) /\ Type(s) \in {"IDENT", "STRING"}
<1>1. s \in 1 .. Len(text) /\ t \in s .. Len(text)
  BY DEF IsList
<1>2. PICK e \in s .. t : IsExp(s, e)
  BY FirstOne DEF Begins
<1>3. e \in s .. Len(text)
  BY <1>2 DEF IsExp
<1>. QED
  BY <1>1, <1>2, <1>3, ExpressionIs

(* and when a parenthesis follows a name there is a call. *)
LEMMA CallOpens ==
  ASSUME TextOK, NEW s, NEW t, IsList(s, t), Type(s) = "IDENT", s + 1 <= Len(text),
         Type(s + 1) = "LEFT_PAREN", t = Len(text) \/ Type(t + 1) = "RIGHT_PAREN"
  PROVE  /\ text[s].str \in Transforms
         /\ \E e : IsList(s + 2, e) /\ e < Len(text) /\ Type(e + 1) = "RIGHT_PAREN"
<1>1. PICK len \in Nat : len = Len(text)
  BY LenProperties DEF TextOK
<1>2. s \in 1 .. len /\ t \in s .. len
  BY <1>1 DEF IsList
<1>3. PICK e \in s .. t : IsExp(s, e) /\ (e = t \/ Type(e + 1) = "COMMA")
  BY FirstOne DEF Begins
<1>4. e \in s .. len
  BY <1>2
<1>5. e # s
  BY <1>1, <1>2, <1>3
<1>6. /\ e >= s + 3 /\ Type(e) = "RIGHT_PAREN" /\ text[s].str \in Transforms /\ IsList(s + 2, e - 1)
  BY <1>1, <1>2, <1>3, <1>4, <1>5, ExpressionIs
<1>7. e - 1 < len /\ (e - 1) + 1 = e
  BY <1>2, <1>4
<1>. QED
  BY <1>1, <1>6, <1>7

(* The name of a call, before its parenthesis. *)
Opens(j) == j < Len(text) /\ Type(j) = "IDENT" /\ Type(j + 1) = "LEFT_PAREN"

(* Before a parenthesis a list ends, or goes on behind a comma. *)
LEMMA ListGoesOn ==
  ASSUME TextOK, NEW s, NEW m, NEW t, IsList(s, m), IsList(s, t), t < Len(text), Type(t + 1) = "RIGHT_PAREN",
         ~Opens(m)
  PROVE  m = t \/ (m < t /\ Type(m + 1) = "COMMA" /\ IsList(m + 2, t))
<1>1. PICK len \in Nat : len = Len(text)
  BY LenProperties DEF TextOK
<1>2. s \in 1 .. len /\ m \in s .. len /\ t \in s .. len
  BY <1>1 DEF IsList
<1>3. CASE m < t
  <2>1. t \in 1 .. Len(text)
    BY <1>1, <1>2
  <2>2. Tells(s, m, t)
    BY <2>1, PartsTell
  <2>3. m < len
    BY <1>2, <1>3
  <2>. QED
    BY <1>1, <1>3, <2>2, <2>3 DEF Tells, Opens
<1>4. CASE t < m
  <2>1. m \in 1 .. Len(text)
    BY <1>1, <1>2
  <2>2. Tells(s, t, m)
    BY <2>1, PartsTell
  <2>. QED
    BY <1>4, <2>2 DEF Tells
<1>. QED
  BY <1>2, <1>3, <1>4

(* What the text is does not change with the rest. *)
LEMMA TextStays ==
  ASSUME text' = text
  PROVE  /\ \A i, j : (IsExp(i, j)' <=> IsExp(i, j)) /\ (IsList(i, j)' <=> IsList(i, j))
         /\ \A j : (Opens(j)' <=> Opens(j)) /\ Type(j)' = Type(j)
         /\ IsSentence' <=> IsSentence
<1>1. \A f, n : PartsOf(f, n)' = PartsOf(f, n)
  BY DEF PartsOf
<1>2. Phrases' = Phrases
  BY <1>1 DEF Phrases
<1>3. IsSentence' <=> IsSentence
  BY <1>1 DEF IsSentence
<1>. QED
  BY <1>2, <1>3 DEF IsExp, IsList, Opens, Type

-----------------------------------------------------------------------------
(* What an entry for the tokens from i to j is to the grammar, *)
DerivesAs(i, j, sym, val) ==
  /\ sym \in {"IDENT", "STRING", "LEFT_PAREN", "RIGHT_PAREN", "COMMA"} => i = j /\ Type(j) = sym
  /\ sym = "IDENT" => heap[val].str = text[j].str
  /\ sym \in {"expression", "func"} => IsExp(i, j)
  /\ sym = "list" => IsList(i, j)
  /\ sym \in {"expression", "func", "list"} => ~Opens(j)

(* and what it comes after. *)
MayFollow(before, sym) ==
  /\ sym \in {"IDENT", "STRING", "expression", "func"} => before \in {"start", "LEFT_PAREN", "COMMA"}
  /\ sym = "LEFT_PAREN" => before = "IDENT"
  /\ sym \in {"RIGHT_PAREN", "COMMA"} => before = "list"
  /\ sym = "list" => before = "LEFT_PAREN"

(* The symbol before an entry. *)
Before(k) == IF k = 1 THEN "start" ELSE stack[k - 1].sym

(* The stack has what was read, and may become a sentence. *)
Derived(b) ==
  /\ Spans(b)
  /\ \A k \in DOMAIN stack : /\ DerivesAs(b[k - 1] + 1, b[k], stack[k].sym, stack[k].val)
                             /\ MayFollow(Before(k), stack[k].sym)

(* An entry that stays is what it was. *)
LEMMA DerivesStay ==
  ASSUME HeapOK, NEW n \in Nat, Allocates(n), text' = text, NEW i, NEW j, NEW k \in DOMAIN stack, EntryOK(k),
         NEW sym, sym = stack[k].sym, NEW val, val = stack[k].val, DerivesAs(i, j, sym, val)
  PROVE  DerivesAs(i, j, sym, val)'
<1>1. sym = "IDENT" => heap'[val] = heap[val]
  BY NodesStay DEF EntryOK, Is
<1>2. /\ (IsExp(i, j)' <=> IsExp(i, j)) /\ (IsList(i, j)' <=> IsList(i, j))
      /\ (Opens(j)' <=> Opens(j)) /\ Type(j)' = Type(j)
  BY TextStays
<1>. QED
  BY <1>1, <1>2 DEF DerivesAs

(* The stack has what was read after a step that pushes what the tokens    *)
(* of the new entry are.                                                   *)
LEMMA DerivedNextStep ==
  ASSUME TextOK, HeapOK, StackOK, NEW b, Derived(b),
         NEW n \in Nat, Allocates(n), NEW m \in Nat, NEW sym, NEW val, Pushes(m, sym, val),
         NEW top, top = Len(stack) - m + 1, text' = text,
         \/ m = 0 /\ read < Len(text) /\ read' = read + 1
         \/ m # 0 /\ read' = read,
         NEW i, i = b[top - 1] + 1, NEW j, j = read',
         DerivesAs(i, j, sym, val)', MayFollow(Before(top), sym)
  PROVE  \E c : Derived(c)'
<1>1. PICK c : Spans(c)' /\ \A k \in 0 .. top : c[k] = IF k < top THEN b[k] ELSE read'
  BY SpansJoin DEF Derived
<1>2. /\ Len(stack) \in Nat /\ DOMAIN stack = 1 .. Len(stack) /\ m <= Len(stack)
      /\ DOMAIN stack' = 1 .. top /\ \A k \in 1 .. top - 1 : stack'[k] = stack[k]
      /\ stack'[top].sym = sym /\ stack'[top].val = val
  BY EntriesStay DEF Pushes, Symbol
<1>3. top \in Nat /\ top - 1 <= Len(stack)
  BY <1>2
<1>4. ASSUME NEW k \in 1 .. top PROVE Before(k)' = Before(k)
  <2>1. k # 1 => k - 1 \in 1 .. top - 1
    BY <1>3
  <2>. QED
    BY <1>2, <2>1 DEF Before
<1>5. ASSUME NEW k \in 1 .. top - 1
      PROVE  /\ DerivesAs(c[k - 1] + 1, c[k], stack[k].sym, stack[k].val)'
             /\ MayFollow(Before(k), stack[k].sym)'
  <2>1. k \in DOMAIN stack /\ k \in 1 .. top /\ k \in 0 .. top /\ k - 1 \in 0 .. top /\ k < top /\ k - 1 < top
    BY <1>2, <1>3
  <2>2. c[k] = b[k] /\ c[k - 1] = b[k - 1] /\ stack'[k] = stack[k] /\ Before(k)' = Before(k)
    BY <1>1, <1>2, <1>4, <2>1
  <2>3. PICK x, y, s, v : x = b[k - 1] + 1 /\ y = b[k] /\ s = stack[k].sym /\ v = stack[k].val
    OBVIOUS
  <2>4. DerivesAs(x, y, s, v) /\ MayFollow(Before(k), s)
    BY <2>1, <2>3 DEF Derived
  <2>5. DerivesAs(x, y, s, v)'
    BY <2>1, <2>3, <2>4, DerivesStay DEF StackOK
  <2>6. x = c[k - 1] + 1 /\ y = c[k] /\ s = stack'[k].sym /\ v = stack'[k].val
    BY <2>2, <2>3
  <2>7. DerivesAs(c[k - 1] + 1, c[k], stack[k].sym, stack[k].val)'
    BY <2>5, <2>6
  <2>8. MayFollow(Before(k), stack[k].sym)'
    BY <2>2, <2>3, <2>4 DEF MayFollow
  <2>. QED
    BY <2>7, <2>8
<1>6. DerivesAs(c[top - 1] + 1, c[top], stack[top].sym, stack[top].val)'
  <2>1. top \in 0 .. top /\ top - 1 \in 0 .. top /\ top - 1 < top /\ ~(top < top)
    BY <1>2, <1>3
  <2>2. i = c[top - 1] + 1 /\ j = c[top] /\ sym = stack'[top].sym /\ val = stack'[top].val
    BY <1>1, <1>2, <2>1
  <2>. QED
    BY <2>2
<1>7. MayFollow(Before(top), stack[top].sym)'
  <2>1. top \in 1 .. top
    BY <1>2, <1>3
  <2>. QED
    BY <1>2, <1>4, <2>1 DEF MayFollow
<1>8. \A k \in DOMAIN stack' : k \in 1 .. top - 1 \/ k = top
  BY <1>2, <1>3
<1>. QED
  BY <1>1, <1>5, <1>6, <1>7, <1>8 DEF Derived

(* What may be shifted, and reduced, by the topmost symbols. *)
LEMMA ShiftableIs ==
  ASSUME StackOK, NEW n, n = Len(stack)
  PROVE  Shiftable <=>
           \/ n = 0 /\ Ahead \in {"IDENT", "STRING"}
           \/ n >= 1 /\ stack[n].sym = "IDENT" /\ Ahead = "LEFT_PAREN"
           \/ n >= 1 /\ stack[n].sym \in {"LEFT_PAREN", "COMMA"} /\ Ahead \in {"IDENT", "STRING"}
           \/ n >= 1 /\ stack[n].sym = "list" /\ Ahead \in {"COMMA", "RIGHT_PAREN"}
<1>1. stack \in Seq(Entries)
  BY DEF StackOK
<1>2. \A a \in {"IDENT", "LEFT_PAREN", "COMMA", "list"} : Handle(<< a >>) <=> n >= 1 /\ stack[n].sym = a
  BY <1>1, Handles DEF At, Syms
<1>3. stack = << >> <=> n = 0
  BY <1>1
<1>. QED
  BY <1>2, <1>3 DEF Shiftable

(* What may be reduced, by the topmost symbols. *)
LEMMA ReducibleIs ==
  ASSUME StackOK, NEW n, n = Len(stack)
  PROVE  Reducible <=>
           \/ n >= 1 /\ stack[n].sym = "IDENT" /\ Ahead # "LEFT_PAREN"
           \/ n >= 1 /\ stack[n].sym \in {"STRING", "func", "RIGHT_PAREN"}
           \/ n >= 2 /\ stack[n - 1].sym = "LEFT_PAREN" /\ stack[n].sym = "expression"
           \/ n >= 3 /\ stack[n - 2].sym = "list" /\ stack[n - 1].sym = "COMMA" /\ stack[n].sym = "expression"
<1>1. stack \in Seq(Entries)
  BY DEF StackOK
<1>2. \A a \in {"IDENT", "STRING", "func", "RIGHT_PAREN"} : Handle(<< a >>) <=> n >= 1 /\ stack[n].sym = a
  BY <1>1, Handles DEF At, Syms
<1>3. /\ Handle(<< "LEFT_PAREN", "expression" >>) <=>
           n >= 2 /\ stack[n - 1].sym = "LEFT_PAREN" /\ stack[n].sym = "expression"
      /\ Handle(<< "list", "COMMA", "expression" >>) <=>
           n >= 3 /\ stack[n - 2].sym = "list" /\ stack[n - 1].sym = "COMMA" /\ stack[n].sym = "expression"
  BY <1>1, Handles DEF At
<1>. QED
  BY <1>2, <1>3 DEF Reducible

(* An entry of the stack, and the tokens it has. *)
LEMMA EntryDerives ==
  ASSUME TextOK, StackOK, NEW b, Derived(b), NEW k \in 1 .. Len(stack)
  PROVE  /\ DerivesAs(b[k - 1] + 1, b[k], stack[k].sym, stack[k].val)
         /\ MayFollow(Before(k), stack[k].sym)
         /\ b[k - 1] \in Nat /\ b[k] \in 1 .. Len(text) /\ b[k - 1] < b[k]
<1>1. Len(stack) \in Nat /\ DOMAIN stack = 1 .. Len(stack) /\ Len(text) \in Nat
  BY LenProperties DEF StackOK, TextOK
<1>2. /\ b \in [0 .. Len(stack) -> 0 .. Len(text)] /\ \A x \in 1 .. Len(stack) : b[x - 1] < b[x]
      /\ k - 1 \in 0 .. Len(stack) /\ k \in 0 .. Len(stack)
  BY <1>1 DEF Derived, Spans
<1>3. b[k - 1] \in 0 .. Len(text) /\ b[k] \in 0 .. Len(text) /\ b[k - 1] < b[k]
  BY <1>2
<1>. QED
  BY <1>1, <1>3 DEF Derived

(* Each step of the parser derives. *)
LEMMA ShiftsNameDerives ==
  ASSUME TextOK, HeapOK, StackOK, NEW b, Derived(b), ShiftsName,
         read < Len(text), read' = read + 1, text' = text
  PROVE  \E c : Derived(c)'
<1>1. PICK new : new = NewPtr
  OBVIOUS
<1>2. PICK sym : sym = text[read + 1].type
  OBVIOUS
<1>3. PICK n \in Nat : n = Len(stack) /\ n + 1 = Len(stack) - 0 + 1
  BY LenProperties DEF StackOK
<1>4. PICK j : j = read + 1
  OBVIOUS
<1>5. /\ Allocates(1) /\ heap'[new].str = text[j].str /\ Pushes(0, sym, new)
      /\ sym \in {"IDENT", "STRING"} /\ Shiftable /\ Ahead = sym
  BY <1>1, <1>2, <1>4 DEF ShiftsName, Name, Ahead
<1>6. j = b[(n + 1) - 1] + 1 /\ (n + 1) - 1 = n
  BY <1>3, <1>4 DEF Derived, Spans
<1>7. DerivesAs(j, j, sym, new)'
  BY <1>2, <1>4, <1>5 DEF DerivesAs, Type
<1>8. MayFollow(Before(n + 1), sym)
  <2>1. n = 0 \/ (n >= 1 /\ stack[n].sym \in {"LEFT_PAREN", "COMMA"})
    BY <1>3, <1>5, ShiftableIs
  <2>2. n + 1 = 1 <=> n = 0
    BY <1>3
  <2>. QED
    BY <1>3, <1>5, <1>6, <2>1, <2>2 DEF MayFollow, Before
<1>9. PICK top : top = n + 1
  OBVIOUS
<1>10. \E c : Derived(c)'
  BY <1>3, <1>4, <1>5, <1>6, <1>7, <1>8, <1>9, DerivedNextStep
<1>. QED
  BY <1>10

(* A parenthesis or a comma is itself. *)
LEMMA ShiftsMarkDerives ==
  ASSUME TextOK, HeapOK, StackOK, NEW b, Derived(b), ShiftsMark,
         read < Len(text), read' = read + 1, text' = text
  PROVE  \E c : Derived(c)'
<1>2. PICK sym : sym = text[read + 1].type
  OBVIOUS
<1>3. PICK n \in Nat : n = Len(stack) /\ n + 1 = Len(stack) - 0 + 1
  BY LenProperties DEF StackOK
<1>4. PICK j : j = read + 1
  OBVIOUS
<1>5. /\ UNCHANGED heap /\ Pushes(0, sym, 0)
      /\ sym \in {"LEFT_PAREN", "RIGHT_PAREN", "COMMA"} /\ Shiftable /\ Ahead = sym
  BY <1>2, <1>4 DEF ShiftsMark, Ahead
<1>6. j = b[(n + 1) - 1] + 1 /\ (n + 1) - 1 = n
  BY <1>3, <1>4 DEF Derived, Spans
<1>7. DerivesAs(j, j, sym, 0)'
  BY <1>2, <1>4, <1>5 DEF DerivesAs, Type
<1>8. MayFollow(Before(n + 1), sym)
  <2>1. /\ n >= 1
        /\ sym = "LEFT_PAREN" => stack[n].sym = "IDENT"
        /\ sym # "LEFT_PAREN" => stack[n].sym = "list"
    BY <1>3, <1>5, ShiftableIs
  <2>2. n + 1 # 1
    BY <1>3, <2>1
  <2>. QED
    BY <1>3, <1>5, <1>6, <2>1, <2>2 DEF MayFollow, Before
<1>9. PICK top : top = n + 1
  OBVIOUS
<1>10. Allocates(0)
  BY <1>5, LenProperties DEF HeapOK, Allocates
<1>11. \E c : Derived(c)'
  BY <1>3, <1>4, <1>5, <1>6, <1>7, <1>8, <1>9, <1>10, DerivedNextStep
<1>. QED
  BY <1>11

(* An expression in the place of one entry. *)
LEMMA ExpressionDerives ==
  ASSUME TextOK, HeapOK, StackOK, NEW b, Derived(b), UNCHANGED << text, read >>,
         NEW h \in Nat, Allocates(h), NEW new, Pushes(1, "expression", new),
         NEW n, n = Len(stack), n \in DOMAIN stack,
         stack[n].sym = "func" \/ (stack[n].sym = "IDENT" /\ Ahead # "LEFT_PAREN") \/ stack[n].sym = "STRING"
  PROVE  \E c : Derived(c)'
<1>1. n \in 1 .. Len(stack) /\ Len(stack) - 1 + 1 = n /\ Len(text) \in Nat
  BY LenProperties DEF StackOK, TextOK
<1>2. PICK i, j : i = b[n - 1] + 1 /\ j = b[n]
  OBVIOUS
<1>3. j = read /\ j = read'
  BY <1>2 DEF Derived, Spans
<1>4. /\ DerivesAs(i, j, stack[n].sym, stack[n].val) /\ MayFollow(Before(n), stack[n].sym)
      /\ i \in 1 .. Len(text) /\ j \in i .. Len(text)
  BY <1>1, <1>2, EntryDerives
<1>5. IsExp(i, j)
  BY <1>4, ExpressionIs DEF DerivesAs
<1>6. ~Opens(j)
  BY <1>3, <1>4 DEF DerivesAs, Opens, Ahead, Type
<1>7. DerivesAs(i, j, "expression", new)'
  BY <1>5, <1>6, TextStays DEF DerivesAs
<1>8. MayFollow(Before(n), "expression")
  BY <1>4 DEF MayFollow
<1>9. 1 # 0 /\ 1 \in Nat /\ read' = read /\ text' = text
  OBVIOUS
<1>10. \E c : Derived(c)'
  BY <1>1, <1>2, <1>3, <1>7, <1>8, <1>9, DerivedNextStep
<1>. QED
  BY <1>10

(* A name, a string or a call becomes an expression for the same tokens. *)
LEMMA MakesExpressionDerives ==
  ASSUME TextOK, HeapOK, StackOK, NEW b, Derived(b), MakesString \/ MakesField \/ MakesFunc,
         UNCHANGED << text, read >>
  PROVE  \E c : Derived(c)'
<1>1. PICK n : n = Len(stack)
  OBVIOUS
<1>2. PICK new : new = NewPtr
  OBVIOUS
<1>3. PICK h \in {1, 2} : Allocates(h)
  BY DEF MakesString, MakesField, MakesFunc
<1>4. /\ Pushes(1, "expression", new)
      /\ stack[n].sym = "func" \/ (stack[n].sym = "IDENT" /\ Ahead # "LEFT_PAREN") \/ stack[n].sym = "STRING"
  BY <1>1, <1>2 DEF MakesString, MakesField, MakesFunc, At
<1>5. n \in DOMAIN stack
  BY <1>1, <1>4, LenProperties DEF StackOK, Pushes
<1>6. h \in Nat
  OBVIOUS
<1>7. \E c : Derived(c)'
  BY <1>1, <1>3, <1>4, <1>5, <1>6, ExpressionDerives
<1>. QED
  BY <1>7

(* An expression is a list of one. *)
LEMMA MakesFirstDerives ==
  ASSUME TextOK, HeapOK, StackOK, NEW b, Derived(b), MakesFirst, UNCHANGED << text, read >>
  PROVE  \E c : Derived(c)'
<1>1. PICK n : n = Len(stack)
  OBVIOUS
<1>2. PICK val : val = << NewPtr >>
  OBVIOUS
<1>3. /\ Allocates(1) /\ Pushes(1, "list", val) /\ n >= 2
      /\ stack[n - 1].sym = "LEFT_PAREN" /\ stack[n].sym = "expression"
  BY <1>1, <1>2 DEF MakesFirst, At
<1>4. n \in 1 .. Len(stack) /\ Len(stack) - 1 + 1 = n /\ Len(text) \in Nat
  BY <1>1, <1>3, LenProperties DEF StackOK, TextOK
<1>5. PICK i, j : i = b[n - 1] + 1 /\ j = b[n]
  OBVIOUS
<1>6. j = read'
  BY <1>1, <1>5 DEF Derived, Spans
<1>7. DerivesAs(i, j, "expression", stack[n].val) /\ i \in 1 .. Len(text) /\ j \in i .. Len(text)
  BY <1>3, <1>4, <1>5, EntryDerives
<1>8. IsList(i, j) /\ ~Opens(j)
  BY <1>7, ListIs DEF DerivesAs
<1>9. DerivesAs(i, j, "list", val)'
  BY <1>8, TextStays DEF DerivesAs
<1>10. MayFollow(Before(n), "list")
  BY <1>3 DEF MayFollow, Before
<1>11. 1 # 0 /\ 1 \in Nat /\ read' = read /\ text' = text
  OBVIOUS
<1>12. \E c : Derived(c)'
  BY <1>1, <1>3, <1>4, <1>5, <1>6, <1>9, <1>10, <1>11, DerivedNextStep
<1>. QED
  BY <1>12

(* A list, a comma and an expression are a list. *)
LEMMA MakesNextDerives ==
  ASSUME TextOK, HeapOK, StackOK, NEW b, Derived(b), MakesNext, UNCHANGED << text, read >>
  PROVE  \E c : Derived(c)'
<1>1. PICK n : n = Len(stack)
  OBVIOUS
<1>2. PICK val : val = Append(Below(2), NewPtr)
  OBVIOUS
<1>3. /\ Allocates(1) /\ Pushes(3, "list", val)
      /\ stack[n - 2].sym = "list" /\ stack[n - 1].sym = "COMMA" /\ stack[n].sym = "expression"
  BY <1>1, <1>2 DEF MakesNext, At
<1>4. n \in Nat /\ n >= 3 /\ Len(text) \in Nat
  BY <1>1, <1>3, LenProperties DEF StackOK, TextOK, Pushes
<1>5. PICK top : top = n - 2
  OBVIOUS
<1>6. /\ top \in 1 .. Len(stack) /\ n - 1 \in 1 .. Len(stack) /\ n \in 1 .. Len(stack)
      /\ top = Len(stack) - 3 + 1 /\ (n - 1) - 1 = top
  BY <1>1, <1>4, <1>5
<1>7. PICK i, m, k, j : i = b[top - 1] + 1 /\ m = b[top] /\ k = b[n - 1] /\ j = b[n]
  OBVIOUS
<1>8. j = read'
  BY <1>1, <1>7 DEF Derived, Spans
<1>9. /\ DerivesAs(i, m, "list", stack[top].val) /\ MayFollow(Before(top), "list")
      /\ i \in 1 .. Len(text) /\ m \in i .. Len(text)
  <2>1. stack[top].sym = "list"
    BY <1>3, <1>5
  <2>2. DerivesAs(i, m, "list", stack[top].val) /\ MayFollow(Before(top), "list")
    BY <1>6, <1>7, <2>1, EntryDerives
  <2>3. b[top - 1] \in Nat /\ m \in 1 .. Len(text) /\ b[top - 1] < m
    BY <1>6, <1>7, EntryDerives
  <2>. QED
    BY <1>4, <1>7, <2>2, <2>3
<1>10. DerivesAs(m + 1, k, "COMMA", stack[n - 1].val)
  BY <1>3, <1>6, <1>7, EntryDerives
<1>11. DerivesAs(k + 1, j, "expression", stack[n].val) /\ j \in 1 .. Len(text) /\ k < j
  BY <1>3, <1>6, <1>7, EntryDerives
<1>12. IsList(i, m) /\ m + 1 = k /\ Type(k) = "COMMA" /\ IsExp(k + 1, j) /\ ~Opens(j)
  BY <1>9, <1>10, <1>11 DEF DerivesAs
<1>13. IsList(i, j)
  <2>1. j \in i .. Len(text) /\ k \in i + 1 .. j - 1 /\ k - 1 = m
    BY <1>4, <1>9, <1>11, <1>12
  <2>. QED
    BY <1>9, <1>12, <2>1, ListIs
<1>14. DerivesAs(i, j, "list", val)'
  BY <1>12, <1>13, TextStays DEF DerivesAs
<1>15. 3 # 0 /\ 3 \in Nat /\ read' = read /\ text' = text
  OBVIOUS
<1>16. \E c : Derived(c)'
  BY <1>3, <1>6, <1>7, <1>8, <1>9, <1>14, <1>15, DerivedNextStep
<1>. QED
  BY <1>16

(* A name the library knows, and a list in parentheses, are a call. *)
LEMMA MakesCallDerives ==
  ASSUME TextOK, HeapOK, StackOK, NEW b, Derived(b), MakesCall, UNCHANGED << text, read >>
  PROVE  \E c : Derived(c)'
<1>1. PICK n : n = Len(stack)
  OBVIOUS
<1>2. PICK new : new = NewPtr
  OBVIOUS
<1>3. /\ Allocates(1) /\ Pushes(4, "func", new)
      /\ stack[n - 3].sym = "IDENT" /\ stack[n - 2].sym = "LEFT_PAREN"
      /\ stack[n - 1].sym = "list" /\ stack[n].sym = "RIGHT_PAREN"
      /\ heap[stack[n - 3].val].str \in Transforms
  BY <1>1, <1>2 DEF MakesCall, At, Below
<1>4. n \in Nat /\ n >= 4 /\ Len(text) \in Nat
  BY <1>1, <1>3, LenProperties DEF StackOK, TextOK, Pushes
<1>5. PICK top : top = n - 3
  OBVIOUS
<1>6. /\ top \in 1 .. Len(stack) /\ n - 2 \in 1 .. Len(stack) /\ n - 1 \in 1 .. Len(stack)
      /\ n \in 1 .. Len(stack) /\ top = Len(stack) - 4 + 1 /\ (n - 2) - 1 = top /\ (n - 1) - 1 = n - 2
  BY <1>1, <1>4, <1>5
<1>7. PICK i, p, q, m, j : i = b[top - 1] + 1 /\ p = b[top] /\ q = b[n - 2] /\ m = b[n - 1] /\ j = b[n]
  OBVIOUS
<1>8. j = read'
  BY <1>1, <1>7 DEF Derived, Spans
<1>9. /\ DerivesAs(i, p, "IDENT", stack[top].val) /\ MayFollow(Before(top), "IDENT")
      /\ i \in 1 .. Len(text)
  <2>1. stack[top].sym = "IDENT"
    BY <1>3, <1>5
  <2>2. DerivesAs(i, p, "IDENT", stack[top].val) /\ MayFollow(Before(top), "IDENT")
    BY <1>6, <1>7, <2>1, EntryDerives
  <2>3. b[top - 1] \in Nat /\ p \in 1 .. Len(text) /\ b[top - 1] < p
    BY <1>6, <1>7, EntryDerives
  <2>. QED
    BY <1>4, <1>7, <2>2, <2>3
<1>10. DerivesAs(p + 1, q, "LEFT_PAREN", stack[n - 2].val)
  BY <1>3, <1>6, <1>7, EntryDerives
<1>11. DerivesAs(q + 1, m, "list", stack[n - 1].val) /\ q < m /\ m \in Nat
  BY <1>3, <1>4, <1>6, <1>7, EntryDerives
<1>12. DerivesAs(m + 1, j, "RIGHT_PAREN", stack[n].val) /\ j \in 1 .. Len(text)
  BY <1>3, <1>6, <1>7, EntryDerives
<1>13. /\ p = i /\ q = i + 1 /\ m + 1 = j /\ Type(i) = "IDENT" /\ Type(i + 1) = "LEFT_PAREN"
       /\ Type(j) = "RIGHT_PAREN" /\ IsList(q + 1, m) /\ heap[stack[top].val].str = text[i].str
  BY <1>9, <1>10, <1>11, <1>12 DEF DerivesAs
<1>14. IsExp(i, j)
  <2>1. j \in i .. Len(text) /\ j >= i + 3 /\ q + 1 = i + 2 /\ m = j - 1
    BY <1>4, <1>9, <1>11, <1>12, <1>13
  <2>2. text[i].str \in Transforms
    BY <1>3, <1>5, <1>13
  <2>. QED
    BY <1>9, <1>13, <2>1, <2>2, ExpressionIs
<1>15. DerivesAs(i, j, "func", new)'
  BY <1>13, <1>14, TextStays DEF DerivesAs, Opens
<1>16. MayFollow(Before(top), "func")
  BY <1>9 DEF MayFollow
<1>17. 4 # 0 /\ 4 \in Nat /\ read' = read /\ text' = text
  OBVIOUS
<1>18. \E c : Derived(c)'
  BY <1>3, <1>6, <1>7, <1>8, <1>15, <1>16, <1>17, DerivedNextStep
<1>. QED
  BY <1>18

(* In a sentence the stack's open parentheses and commas are of calls the  *)
(* library knows, with a list to come that ends at a parenthesis.          *)
Hopes(b, k) ==
  /\ \E t : /\ IsList(b[k] + 1, t)
            /\ k = 0 => t = Len(text)
            /\ k > 0 => t < Len(text) /\ Type(t + 1) = "RIGHT_PAREN"
  /\ k > 0 /\ stack[k].sym = "LEFT_PAREN" => text[b[k - 1]].str \in Transforms

(* A parenthesis opens a call, *)
LEMMA ParenthesisHopes ==
  ASSUME TextOK, StackOK, NEW b, Derived(b), NEW k \in 1 .. Len(stack), stack[k].sym = "LEFT_PAREN",
         \A x \in 0 .. k - 1 : x = 0 \/ stack[x].sym \in {"LEFT_PAREN", "COMMA"} => Hopes(b, x)
  PROVE  Hopes(b, k)
<1>1. PICK len \in Nat : len = Len(text)
  BY LenProperties DEF TextOK
<1>2. PICK n \in Nat : n = Len(stack)
  BY LenProperties DEF StackOK
<1>3. MayFollow(Before(k), "LEFT_PAREN") /\ DerivesAs(b[k - 1] + 1, b[k], "LEFT_PAREN", stack[k].val)
  BY EntryDerives
<1>4. k \in Nat /\ k >= 2 /\ stack[k - 1].sym = "IDENT"
  BY <1>2, <1>3 DEF MayFollow, Before
<1>5. k - 1 \in 1 .. Len(stack) /\ (k - 1) - 1 = k - 2 /\ k - 2 \in 0 .. k - 1
  BY <1>2, <1>4
<1>6. MayFollow(Before(k - 1), "IDENT") /\ DerivesAs(b[k - 2] + 1, b[k - 1], "IDENT", stack[k - 1].val)
  BY <1>4, <1>5, EntryDerives
<1>7. k - 2 = 0 \/ stack[k - 2].sym \in {"LEFT_PAREN", "COMMA"}
  <2>1. k - 1 = 1 => k - 2 = 0
    BY <1>4
  <2>2. k - 1 # 1 => Before(k - 1) = stack[k - 2].sym
    BY <1>5 DEF Before
  <2>3. Before(k - 1) \in {"start", "LEFT_PAREN", "COMMA"}
    BY <1>6 DEF MayFollow
  <2>4. k - 1 # 1 => stack[k - 2].sym # "start"
    <3>1. k - 1 # 1 => k - 2 \in DOMAIN stack
      BY <1>2, <1>4, LenProperties DEF StackOK
    <3>2. k - 1 # 1 => stack[k - 2] \in Entries
      BY <3>1 DEF StackOK
    <3>. QED
      BY <3>2 DEF Entries, Syms
  <2>. QED
    BY <2>1, <2>2, <2>3, <2>4
<1>8. Hopes(b, k - 2)
  BY <1>5, <1>7
<1>9. PICK t : /\ IsList(b[k - 2] + 1, t)
               /\ k - 2 = 0 => t = len
               /\ k - 2 > 0 => t < len /\ Type(t + 1) = "RIGHT_PAREN"
  BY <1>1, <1>8 DEF Hopes
<1>10. PICK s : s = b[k - 1]
  OBVIOUS
<1>11. /\ b[k - 2] + 1 = s /\ Type(s) = "IDENT" /\ s + 1 = b[k] /\ Type(s + 1) = "LEFT_PAREN"
  BY <1>3, <1>6, <1>10 DEF DerivesAs
<1>12. s \in Nat /\ s + 1 <= len /\ b[k] + 1 = s + 2
  <2>1. b[k] \in 1 .. Len(text)
    BY EntryDerives
  <2>2. s \in 1 .. Len(text)
    BY <1>5, <1>10, EntryDerives
  <2>. QED
    BY <1>1, <1>11, <2>1, <2>2
<1>13. t = len \/ Type(t + 1) = "RIGHT_PAREN"
  BY <1>4, <1>9
<1>14. /\ text[s].str \in Transforms
       /\ \E e : IsList(s + 2, e) /\ e < len /\ Type(e + 1) = "RIGHT_PAREN"
  BY <1>1, <1>9, <1>11, <1>12, <1>13, CallOpens
<1>15. ~(k = 0) /\ k > 0
  BY <1>4
<1>. QED
  BY <1>1, <1>10, <1>12, <1>14, <1>15 DEF Hopes

(* and after a comma its list goes on. *)
LEMMA CommaHopes ==
  ASSUME TextOK, StackOK, NEW b, Derived(b), NEW k \in 1 .. Len(stack), stack[k].sym = "COMMA",
         \A x \in 0 .. k - 1 : x = 0 \/ stack[x].sym \in {"LEFT_PAREN", "COMMA"} => Hopes(b, x)
  PROVE  Hopes(b, k)
<1>1. PICK len \in Nat : len = Len(text)
  BY LenProperties DEF TextOK
<1>2. PICK n \in Nat : n = Len(stack)
  BY LenProperties DEF StackOK
<1>3. MayFollow(Before(k), "COMMA") /\ DerivesAs(b[k - 1] + 1, b[k], "COMMA", stack[k].val)
  BY EntryDerives
<1>4. k \in Nat /\ k >= 2 /\ stack[k - 1].sym = "list"
  BY <1>2, <1>3 DEF MayFollow, Before
<1>5. k - 1 \in 1 .. Len(stack) /\ (k - 1) - 1 = k - 2 /\ k - 2 \in 0 .. k - 1
  BY <1>2, <1>4
<1>6. MayFollow(Before(k - 1), "list") /\ DerivesAs(b[k - 2] + 1, b[k - 1], "list", stack[k - 1].val)
  BY <1>4, <1>5, EntryDerives
<1>7. k - 2 > 0 /\ stack[k - 2].sym = "LEFT_PAREN"
  BY <1>4, <1>5, <1>6 DEF MayFollow, Before
<1>8. Hopes(b, k - 2)
  BY <1>5, <1>7
<1>9. PICK t : IsList(b[k - 2] + 1, t) /\ t < len /\ Type(t + 1) = "RIGHT_PAREN"
  BY <1>1, <1>7, <1>8 DEF Hopes
<1>10. PICK m : m = b[k - 1]
  OBVIOUS
<1>11. IsList(b[k - 2] + 1, m) /\ ~Opens(m) /\ m + 1 = b[k] /\ Type(m + 1) = "COMMA"
  BY <1>3, <1>6, <1>10 DEF DerivesAs
<1>12. m # t
  BY <1>9, <1>11
<1>13. IsList(m + 2, t)
  BY <1>1, <1>9, <1>11, <1>12, ListGoesOn
<1>14. b[k] + 1 = m + 2
  <2>1. m \in 1 .. Len(text)
    BY <1>5, <1>10, EntryDerives
  <2>. QED
    BY <1>1, <1>11, <2>1
<1>15. ~(k = 0) /\ k > 0 /\ stack[k].sym # "LEFT_PAREN"
  BY <1>4
<1>. QED
  BY <1>1, <1>9, <1>13, <1>14, <1>15 DEF Hopes

(* So it is with each of them, since each depends on those before it. *)
LEMMA AllHope ==
  ASSUME TextOK, StackOK, NEW b, Derived(b), IsExp(1, Len(text))
  PROVE  \A k \in 0 .. Len(stack) : k = 0 \/ stack[k].sym \in {"LEFT_PAREN", "COMMA"} => Hopes(b, k)
<1> DEFINE H(k) == k \in 0 .. Len(stack) /\ (k = 0 \/ stack[k].sym \in {"LEFT_PAREN", "COMMA"}) => Hopes(b, k)
           S == {k \in Nat : \A x \in 0 .. k : H(x)}
<1>1. PICK len \in Nat : len = Len(text)
  BY LenProperties DEF TextOK
<1>2. PICK n \in Nat : n = Len(stack)
  BY LenProperties DEF StackOK
<1>3. Hopes(b, 0)
  <2>1. 1 \in 1 .. len /\ len \in 1 .. len
    BY <1>1 DEF IsExp
  <2>2. IsList(1, len)
    BY <1>1, <2>1, ListIs
  <2>3. b[0] + 1 = 1
    BY DEF Derived, Spans
  <2>4. ~(0 > 0)
    OBVIOUS
  <2>. QED
    BY <1>1, <2>2, <2>3, <2>4 DEF Hopes
<1>4. 0 \in S
  BY <1>3
<1>5. ASSUME NEW k \in S \cap Nat PROVE k + 1 \in S
  <2>1. \A x \in 0 .. k : H(x)
    OBVIOUS
  <2>2. ASSUME k + 1 \in 0 .. n, stack[k + 1].sym \in {"LEFT_PAREN", "COMMA"} PROVE Hopes(b, k + 1)
    <3>1. PICK y : y = k + 1
      OBVIOUS
    <3>2. y \in 1 .. Len(stack) /\ y - 1 = k /\ \A x \in 0 .. k : x \in 0 .. n
      BY <1>2, <2>2, <3>1
    <3>3. \A x \in 0 .. y - 1 : x = 0 \/ stack[x].sym \in {"LEFT_PAREN", "COMMA"} => Hopes(b, x)
      BY <1>2, <2>1, <3>2
    <3>. QED
      BY <2>2, <3>1, <3>2, <3>3, ParenthesisHopes, CommaHopes
  <2>3. H(k + 1)
    BY <1>2, <2>2
  <2>4. \A x \in 0 .. k + 1 : x \in 0 .. k \/ x = k + 1
    OBVIOUS
  <2>5. \A x \in 0 .. k + 1 : H(x)
    BY <2>1, <2>3, <2>4
  <2>. QED
    BY <2>5
<1>6. Nat \subseteq S
  <2> HIDE DEF S
  <2>. QED
    BY <1>4, <1>5, AllNumbers
<1>7. ASSUME NEW k \in 0 .. Len(stack), k = 0 \/ stack[k].sym \in {"LEFT_PAREN", "COMMA"}
      PROVE  Hopes(b, k)
  <2>1. k \in Nat /\ k \in 0 .. k
    BY <1>2
  <2>2. H(k)
    BY <1>6, <2>1
  <2>. QED
    BY <1>7, <2>2
<1>. QED
  BY <1>7

(* What the parser accepts is a sentence. *)
LEMMA AcceptsSentences ==
  ASSUME TextOK, StackOK, NEW b, Derived(b), read = Len(text),
         stack = << >> \/ (Len(stack) = 1 /\ stack[1].sym = "expression")
  PROVE  IsSentence
<1>1. PICK len \in Nat : len = Len(text)
  BY LenProperties DEF TextOK
<1>2. b[0] = 0 /\ b[Len(stack)] = len
  BY <1>1 DEF Derived, Spans
<1>3. CASE stack = << >>
  <2>1. len = 0
    BY <1>2, <1>3
  <2>2. text = << >>
    BY <1>1, <2>1, EmptySeq DEF TextOK
  <2>. QED
    BY <2>2, SentenceIs
<1>4. CASE Len(stack) = 1 /\ stack[1].sym = "expression"
  <2>1. 1 \in 1 .. Len(stack) /\ 1 - 1 = 0
    BY <1>4
  <2>2. DerivesAs(b[1 - 1] + 1, b[1], "expression", stack[1].val)
    BY <1>4, <2>1, EntryDerives
  <2>3. b[1 - 1] + 1 = 1 /\ b[1] = len
    BY <1>2, <1>4, <2>1
  <2>4. IsExp(1, len)
    BY <2>2, <2>3 DEF DerivesAs
  <2>. QED
    BY <1>1, <2>4, SentenceIs
<1>. QED
  BY <1>3, <1>4

(* Of a sentence every call is one the library knows, *)
LEMMA SentenceIsKnown ==
  ASSUME TextOK, StackOK, NEW b, Derived(b), IsExp(1, Len(text))
  PROVE  ~NoSymbol
<1>1. PICK n \in Nat : n = Len(stack)
  BY LenProperties DEF StackOK
<1>2. SUFFICES ASSUME n >= 4, stack[n - 3].sym = "IDENT", stack[n - 2].sym = "LEFT_PAREN",
                      heap[Below(3)].str \notin Transforms
               PROVE  FALSE
  BY <1>1, Handles DEF NoSymbol, Known, At, StackOK
<1>3. n - 2 \in 0 .. Len(stack) /\ n - 3 \in 1 .. Len(stack) /\ n - 2 > 0 /\ (n - 2) - 1 = n - 3
  BY <1>1, <1>2
<1>4. Hopes(b, n - 2)
  BY <1>2, <1>3, AllHope
<1>5. text[b[n - 3]].str \in Transforms
  BY <1>2, <1>3, <1>4 DEF Hopes
<1>6. DerivesAs(b[(n - 3) - 1] + 1, b[n - 3], "IDENT", stack[n - 3].val)
  BY <1>2, <1>3, EntryDerives
<1>7. heap[stack[n - 3].val].str = text[b[n - 3]].str
  BY <1>6 DEF DerivesAs
<1>. QED
  BY <1>1, <1>2, <1>5, <1>7 DEF Below

(* and the parser has a step to take. *)
LEMMA SentenceGoesOn ==
  ASSUME TextOK, StackOK, NEW b, Derived(b), IsExp(1, Len(text)), ~Shiftable, ~Reducible
  PROVE  read = Len(text) /\ Len(stack) = 1 /\ stack[1].sym = "expression"
<1>1. PICK len \in Nat : len = Len(text)
  BY LenProperties DEF TextOK
<1>2. PICK n \in Nat : n = Len(stack) /\ DOMAIN stack = 1 .. n
  BY LenProperties DEF StackOK
<1>3. b[0] = 0 /\ b[n] = read /\ read \in 0 .. len
  BY <1>1, <1>2 DEF Derived, Spans, TextOK
<1>4. \A k \in 0 .. n : k = 0 \/ stack[k].sym \in {"LEFT_PAREN", "COMMA"} => Hopes(b, k)
  BY <1>1, <1>2, AllHope
<1>5. read < len => Ahead = Type(read + 1)
  BY <1>1 DEF Ahead, Type
<1>6. CASE n = 0 \/ stack[n].sym \in {"LEFT_PAREN", "COMMA"}
  <2>1. Hopes(b, n)
    BY <1>2, <1>4, <1>6
  <2>2. PICK t : IsList(read + 1, t)
    BY <1>3, <2>1 DEF Hopes
  <2>3. read + 1 \in 1 .. len /\ Type(read + 1) \in {"IDENT", "STRING"}
    BY <1>1, <2>2, FirstToken
  <2>4. Ahead \in {"IDENT", "STRING"}
    BY <1>3, <1>5, <2>3
  <2>. QED
    BY <1>2, <1>6, <2>4, ShiftableIs
<1>7. CASE n >= 1 /\ stack[n].sym = "list"
  <2>1. n \in 1 .. Len(stack)
    BY <1>2, <1>7
  <2>2. MayFollow(Before(n), "list") /\ DerivesAs(b[n - 1] + 1, b[n], "list", stack[n].val)
    BY <1>7, <2>1, EntryDerives
  <2>3. stack[n - 1].sym = "LEFT_PAREN" /\ n - 1 > 0 /\ n - 1 \in 0 .. n
    BY <1>2, <1>7, <2>2 DEF MayFollow, Before
  <2>4. Hopes(b, n - 1)
    BY <1>4, <2>3
  <2>5. PICK t : IsList(b[n - 1] + 1, t) /\ t < len /\ Type(t + 1) = "RIGHT_PAREN"
    BY <1>1, <2>3, <2>4 DEF Hopes
  <2>6. IsList(b[n - 1] + 1, read) /\ ~Opens(read)
    BY <1>3, <2>2 DEF DerivesAs
  <2>7. read < len
    <3>1. read = t \/ read < t
      BY <1>1, <2>5, <2>6, ListGoesOn
    <3>2. t \in Nat
      BY <1>1, <2>5 DEF IsList
    <3>. QED
      BY <1>1, <1>3, <2>5, <3>1, <3>2
  <2>8. Type(read + 1) \in {"RIGHT_PAREN", "COMMA"}
    BY <1>1, <2>5, <2>6, ListGoesOn
  <2>. QED
    BY <1>2, <1>5, <1>7, <2>7, <2>8, ShiftableIs
<1>8. CASE n >= 1 /\ stack[n].sym = "expression"
  <2>1. n \in 1 .. Len(stack)
    BY <1>2, <1>8
  <2>2. MayFollow(Before(n), "expression") /\ DerivesAs(b[n - 1] + 1, b[n], "expression", stack[n].val)
    BY <1>8, <2>1, EntryDerives
  <2>3. n = 1
    <3>1. SUFFICES ASSUME n # 1 PROVE FALSE
      OBVIOUS
    <3>2. n >= 2 /\ n - 1 \in 1 .. Len(stack) /\ n - 1 \in DOMAIN stack
      BY <1>2, <1>8, <3>1
    <3>3. stack[n - 1].sym \in {"start", "LEFT_PAREN", "COMMA"}
      BY <2>2, <3>1 DEF MayFollow, Before
    <3>4. stack[n - 1].sym # "start"
      <4>1. stack[n - 1] \in Entries
        BY <3>2 DEF StackOK
      <4>. QED
        BY <4>1 DEF Entries, Syms
    <3>5. stack[n - 1].sym # "LEFT_PAREN"
      BY <1>2, <1>8, <3>2, ReducibleIs
    <3>6. MayFollow(Before(n - 1), "COMMA")
      BY <3>2, <3>3, <3>4, <3>5, EntryDerives
    <3>7. n - 1 # 1 /\ stack[(n - 1) - 1].sym = "list"
      BY <3>6 DEF MayFollow, Before
    <3>8. n >= 3 /\ (n - 1) - 1 = n - 2
      BY <1>2, <3>2, <3>7
    <3>. QED
      BY <1>2, <1>8, <3>3, <3>4, <3>5, <3>7, <3>8, ReducibleIs
  <2>4. b[n - 1] + 1 = 1
    BY <1>3, <2>3
  <2>5. IsExp(1, read) /\ ~Opens(read)
    BY <1>3, <2>2, <2>4 DEF DerivesAs
  <2>6. read = len
    <3>1. SUFFICES ASSUME read < len PROVE FALSE
      BY <1>1, <1>3
    <3>2. 1 \in 1 .. len /\ read \in 1 .. len /\ len \in 1 .. Len(text)
      BY <1>1, <2>5, <3>1 DEF IsExp
    <3>3. IsList(1, read)
      BY <1>1, <2>5, <3>2, ListIs
    <3>4. Tells(1, read, len)
      BY <3>2, <3>3, PartsTell
    <3>. QED
      BY <1>1, <2>5, <3>1, <3>3, <3>4 DEF Tells, Opens
  <2>. QED
    BY <1>1, <1>2, <1>8, <2>3, <2>6
<1>9. n >= 1 => stack[n].sym \in {"IDENT", "LEFT_PAREN", "COMMA", "list", "expression"}
  <2>1. n >= 1 => stack[n] \in Entries
    BY <1>2 DEF StackOK
  <2>2. n >= 1 => stack[n].sym \in Syms
    BY <2>1 DEF Entries
  <2>. QED
    BY <1>2, <2>2, ReducibleIs DEF Syms
<1>10. CASE n >= 1 /\ stack[n].sym = "IDENT"
  BY <1>2, <1>10, ShiftableIs, ReducibleIs
<1>. QED
  BY <1>2, <1>6, <1>7, <1>8, <1>9, <1>10

(* While it parses, the stack has what was read; and what it came to is    *)
(* what the grammar says.                                                  *)
GrammarInv ==
  /\ pc = "parse" => \E b : Derived(b)
  /\ pc = "exit" => ~IsSentence
  /\ pc \notin {"parse", "exit"} => IsSentence

(* Nothing is read, and there is nothing on the stack. *)
LEMMA GrammarInit == Init => GrammarInv
<1> SUFFICES ASSUME Init PROVE GrammarInv
  OBVIOUS
<1>1. stack = << >> /\ read = 0 /\ pc = "parse" /\ text \in Seq(Tokens)
  BY TransformAssumption DEF Init
<1>2. Len(text) \in Nat /\ DOMAIN stack = {} /\ Len(stack) = 0
  BY <1>1, LenProperties
<1>3. PICK b : b = [k \in 0 .. 0 |-> 0]
  OBVIOUS
<1>4. b \in [0 .. 0 -> 0 .. Len(text)] /\ b[0] = 0
  BY <1>2, <1>3
<1>5. Spans(b)
  BY <1>1, <1>2, <1>4 DEF Spans
<1>6. Derived(b)
  BY <1>2, <1>5 DEF Derived
<1>. QED
  BY <1>1, <1>6 DEF GrammarInv

(* When the parser gives up there is no sentence. *)
LEMMA ErrorIsRight ==
  ASSUME TextOK, StackOK, NEW b, Derived(b), Error
  PROVE  ~IsSentence
<1> SUFFICES ASSUME IsSentence PROVE FALSE
  OBVIOUS
<1>1. /\ Len(stack) \in Nat /\ DOMAIN stack = 1 .. Len(stack) /\ Len(text) \in Nat
      /\ Len(stack) = 0 <=> stack = << >>
  BY LenProperties, EmptySeq DEF StackOK, TextOK
<1>2. CASE text = << >>
  <2>1. Len(text) = 0 /\ read = 0
    BY <1>2 DEF TextOK
  <2>2. Len(stack) = 0
    <3>1. SUFFICES ASSUME Len(stack) # 0 PROVE FALSE
      OBVIOUS
    <3>2. Len(stack) \in 1 .. Len(stack)
      BY <1>1, <3>1
    <3>. QED
      BY <2>1, <3>2, EntryDerives
  <2>3. ~NoSymbol
    <3>1. ~Handle(<< "IDENT", "LEFT_PAREN", "list", "RIGHT_PAREN" >>)
      BY <2>2, Handles DEF StackOK
    <3>. QED
      BY <3>1 DEF NoSymbol
  <2>4. stack = << >> /\ Ahead = "$end"
    BY <1>1, <2>1, <2>2 DEF Ahead
  <2>5. Symbols = << >>
    BY <2>4 DEF Symbols
  <2>. QED
    BY <2>3, <2>4, <2>5 DEF Error
<1>3. CASE text # << >>
  <2>1. IsExp(1, Len(text))
    BY <1>3, SentenceIs
  <2>2. ~NoSymbol
    BY <2>1, SentenceIsKnown
  <2>3. ~Shiftable /\ ~Reducible
    BY <2>2 DEF Error
  <2>4. read = Len(text) /\ Len(stack) = 1 /\ stack[1].sym = "expression"
    BY <2>1, <2>3, SentenceGoesOn
  <2>5. Ahead = "$end"
    BY <1>1, <2>4 DEF Ahead
  <2>6. Symbols = << "expression" >>
    <3>1. Symbols = [k \in 1 .. 1 |-> stack[k].sym]
      BY <1>1, <2>4 DEF Symbols
    <3>2. Symbols = [k \in 1 .. 1 |-> "expression"]
      BY <2>4, <3>1
    <3>. QED
      BY <3>2
  <2>. QED
    BY <2>2, <2>5, <2>6 DEF Error
<1>. QED
  BY <1>2, <1>3

(* Every step of the parser derives, and it ends as the grammar says. *)
LEMMA GrammarStep == BaseInv /\ PrintInv' /\ GrammarInv /\ [Next]_vars => GrammarInv'
<1> SUFFICES ASSUME BaseInv, PrintInv', GrammarInv, [Next]_vars PROVE GrammarInv'
  OBVIOUS
<1>1. HeapOK /\ StackOK /\ TextOK
  BY DEF BaseInv, TypesInv
<1>2. CASE pc = "parse" /\ Parses /\ UNCHANGED << pc, text, root, running >>
  <2>1. PICK b : Derived(b)
    BY <1>2 DEF GrammarInv
  <2>2. CASE (ShiftsName \/ ShiftsMark) /\ read < Len(text) /\ read' = read + 1
    <3>1. \E c : Derived(c)'
      BY <1>1, <1>2, <2>1, <2>2, ShiftsNameDerives, ShiftsMarkDerives
    <3>. QED
      BY <1>2, <3>1 DEF GrammarInv
  <2>3. CASE /\ MakesString \/ MakesField \/ MakesFunc \/ MakesFirst \/ MakesNext \/ MakesCall
             /\ UNCHANGED read
    <3>1. UNCHANGED << text, read >>
      BY <1>2, <2>3
    <3>2. \E c : Derived(c)'
      BY <1>1, <2>1, <2>3, <3>1, MakesExpressionDerives, MakesFirstDerives, MakesNextDerives, MakesCallDerives
    <3>. QED
      BY <1>2, <3>2 DEF GrammarInv
  <2>. QED
    BY <1>2, <2>2, <2>3 DEF Parses
<1>3. CASE Accept
  <2>1. PICK b : Derived(b)
    BY <1>3 DEF GrammarInv, Accept
  <2>2. pc' = "compiled" /\ UNCHANGED << text, read >>
    BY <1>3 DEF Accept
  <2>3. read = Len(text)
    BY <2>2 DEF PrintInv
  <2>4. stack = << >> \/ (Len(stack) = 1 /\ stack[1].sym = "expression")
    BY <1>1, <1>3, Accepted
  <2>5. IsSentence
    BY <1>1, <2>1, <2>3, <2>4, AcceptsSentences
  <2>6. IsSentence'
    BY <2>2, <2>5, TextStays
  <2>. QED
    BY <2>2, <2>6 DEF GrammarInv
<1>4. CASE Error
  <2>1. PICK b : Derived(b)
    BY <1>4 DEF GrammarInv, Error
  <2>2. pc' = "exit" /\ text' = text
    BY <1>4 DEF Error
  <2>3. ~IsSentence'
    BY <1>1, <1>4, <2>1, <2>2, ErrorIsRight, TextStays
  <2>. QED
    BY <2>2, <2>3 DEF GrammarInv
<1>5. CASE pc # "parse" /\ pc' # "parse" /\ UNCHANGED << text, parsing >>
  <2>1. Chain
    BY DEF BaseInv, RunInv
  <2>2. pc = "exit" <=> pc' = "exit"
    BY <1>5, <2>1, RunsAre DEF Exec, Destroy, ExecArg, DestroyArg, FreeArg, ExecDone, Destroyed
  <2>3. IsSentence' <=> IsSentence
    BY <1>5, TextStays
  <2>. QED
    BY <1>5, <2>2, <2>3 DEF GrammarInv
<1>6. CASE UNCHANGED vars
  <2>1. UNCHANGED << pc, text, read, stack, heap >>
    BY <1>6 DEF vars
  <2>2. ASSUME NEW b, Derived(b) PROVE Derived(b)'
    <3>1. Spans(b)'
      BY <2>1, <2>2 DEF Derived, Spans
    <3>2. \A i, j, sym, val : DerivesAs(i, j, sym, val)' <=> DerivesAs(i, j, sym, val)
      BY <2>1, TextStays DEF DerivesAs
    <3>3. \A k : Before(k)' = Before(k)
      BY <2>1 DEF Before
    <3>4. ASSUME NEW k \in DOMAIN stack
          PROVE  (DerivesAs(b[k - 1] + 1, b[k], stack[k].sym, stack[k].val) /\ MayFollow(Before(k), stack[k].sym))'
      <4>1. DerivesAs(b[k - 1] + 1, b[k], stack[k].sym, stack[k].val) /\ MayFollow(Before(k), stack[k].sym)
        BY <2>2 DEF Derived
      <4>2. DerivesAs(b[k - 1] + 1, b[k], stack[k].sym, stack[k].val)'
        BY <2>1, <3>2, <4>1
      <4>3. MayFollow(Before(k), stack[k].sym)'
        BY <2>1, <3>3, <4>1 DEF MayFollow
      <4>. QED
        BY <4>2, <4>3
    <3>. QED
      BY <2>1, <3>1, <3>4 DEF Derived
  <2>3. IsSentence' <=> IsSentence
    BY <2>1, TextStays
  <2>. QED
    BY <2>1, <2>2, <2>3 DEF GrammarInv
<1>. QED
  BY <1>1, <1>2, <1>3, <1>4, <1>5, <1>6, StepsAre

(* A text is compiled if and only if it is an expression of the grammar    *)
(* whose calls the library knows; else the program ends.                   *)
THEOREM CompilesTheLanguage == Spec => []CompilesTheGrammar
<1>1. Init => BaseInv /\ PrintInv /\ GrammarInv
  BY BaseInit, PrintInit, GrammarInit
<1>2. BaseInv /\ PrintInv /\ GrammarInv /\ [Next]_vars => (BaseInv /\ PrintInv /\ GrammarInv)'
  BY BaseStep, PrintStep, GrammarStep
<1>3. GrammarInv => CompilesTheGrammar
  BY DEF GrammarInv, CompilesTheGrammar
<1>. QED
  BY <1>1, <1>2, <1>3, PTL DEF Spec
=============================================================================
