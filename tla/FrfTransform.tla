---------------------------- MODULE FrfTransform ----------------------------
(***************************************************************************)
(* Transforms: the call in a tag is compiled into a tree once, the tree is *)
(* evaluated for rows, and destroyed with the maker (frf_transform.y).     *)
(*                                                                         *)
(* The parser is the shift-reduce machine bison makes of the grammar; what *)
(* the grammar's actions allocate are the nodes of `heap', a pointer is an *)
(* index there.  Evaluation and destruction recurse along the tree, with   *)
(* one frame for each call that is not over.  The list of arguments is a   *)
(* sequence: Utlist shows that it behaves as one.                          *)
(***************************************************************************)
EXTENDS FrfTransformBase

CONSTANTS
  Texts,     (* What is compiled: sequences of tokens.                     *)
  FieldOf,   (* p13n_lookup: the field some names stand for.               *)
  P13nRows,  (* Personalization rows: a string for every field.            *)
  BufSize    (* The arguments exec has room for, 100.                      *)

Token(type, str) == [type |-> type, str |-> str]
Left == << 40 >>
Right == << 41 >>
Comma == << 44 >>

(* What the lexer makes of a text: names and strings, and the parentheses  *)
(* and commas, which are always the same.                                  *)
Tokens ==
  [type : {"IDENT", "STRING"}, str : Seq(Nat)]
  \cup {Token("LEFT_PAREN", Left), Token("RIGHT_PAREN", Right), Token("COMMA", Comma)}

(* Every field has a string in every row; no string is undefined. *)
ASSUME TransformAssumption ==
  /\ BufSize \in Nat
  /\ Texts \subseteq Seq(Tokens)
  /\ \A name \in DOMAIN FieldOf : \A p \in P13nRows :
       FieldOf[name] \in DOMAIN p /\ p[FieldOf[name]] \in Seq(Nat)
  /\ Undefined \notin Seq(Nat)

VARIABLES
  pc,
  text,    (* What is compiled,                                            *)
  read,    (* and how many tokens of it the parser has shifted.            *)
  stack,   (* The parser's stack: symbols and their values.                *)
  heap,    (* Everything allocated,                                        *)
  freed,   (* and the pointers given to free, in order.                    *)
  root,    (* The expression compiled, 0 for NULL.                         *)
  p13n,    (* The row it is evaluated for,                                 *)
  frames,  (* the calls of exec or destroy that are not over,              *)
  rval     (* and what the last one over came to: at most one value.       *)

vars == << pc, text, read, stack, heap, freed, root, p13n, frames, rval >>
parsing == << read, stack, heap, root >>
running == << p13n, frames, rval, freed >>

Init ==
  /\ pc = "parse"
  /\ text \in Texts /\ read = 0 /\ stack = << >>
  /\ heap = << >> /\ freed = << >> /\ root = 0
  /\ p13n \in P13nRows /\ frames = << >> /\ rval = << >>

-----------------------------------------------------------------------------
(* The parser. *)
Top == Last(stack)
Symbol(sym, val) == [sym |-> sym, val |-> val]
Symbols == [k \in DOMAIN stack |-> stack[k].sym]
Ahead == IF read < Len(text) THEN text[read + 1].type ELSE "$end"

(* The stack ends in these symbols. *)
Handle(syms) == IsSuffix(syms, Symbols)
Popped(n) == SubSeq(stack, 1, Len(stack) - n)
Below(n) == stack[Len(stack) - n].val

Calloc(node) == Append(heap, node)
NewPtr == Len(heap) + 1
Name(str) == [kind |-> "str", str |-> str]
Exp(type, val) == [kind |-> "exp", type |-> type, val |-> val]
Func(name, args) == [kind |-> "func", name |-> name, args |-> args]
P13n(name, offset) == [kind |-> "p13n", name |-> name, offset |-> offset]
Arg(e) == [kind |-> "arg", exp |-> e]

(* What may follow what the parser has, and be shifted. *)
Shiftable ==
  \/ stack = << >> /\ Ahead \in {"IDENT", "STRING"}
  \/ Handle(<< "IDENT" >>) /\ Ahead = "LEFT_PAREN"
  \/ (Handle(<< "LEFT_PAREN" >>) \/ Handle(<< "COMMA" >>)) /\ Ahead \in {"IDENT", "STRING"}
  \/ Handle(<< "list" >>) /\ Ahead \in {"COMMA", "RIGHT_PAREN"}

(* The lexer copies the text of a name or a string. *)
Shift ==
  /\ pc = "parse" /\ Shiftable
  /\ LET token == text[read + 1]
     IN  IF token.type \in {"IDENT", "STRING"}
         THEN /\ heap' = Calloc(Name(token.str))
              /\ stack' = Append(stack, Symbol(token.type, NewPtr))
         ELSE /\ stack' = Append(stack, Symbol(token.type, 0))
              /\ UNCHANGED heap
  /\ read' = read + 1
  /\ UNCHANGED << pc, text, root, running >>

(* Pops n symbols for one. *)
Reduce(n, sym, val) ==
  /\ stack' = Append(Popped(n), Symbol(sym, val))
  /\ UNCHANGED << pc, text, read, root, running >>

(* expression: IDENT, which names a field or is taken as it is *)
ReduceIdent ==
  /\ pc = "parse" /\ Handle(<< "IDENT" >>) /\ Ahead # "LEFT_PAREN"
  /\ LET str == heap[Top.val].str
     IN  IF str \in DOMAIN FieldOf
         THEN /\ heap' = Calloc(Exp("P13N", NewPtr + 1)) \o << P13n(Top.val, FieldOf[str]) >>
              /\ Reduce(1, "expression", NewPtr)
         ELSE /\ heap' = Calloc(Exp("STRING", Top.val))
              /\ Reduce(1, "expression", NewPtr)

(* expression: STRING *)
ReduceString ==
  /\ pc = "parse" /\ Handle(<< "STRING" >>)
  /\ heap' = Calloc(Exp("STRING", Top.val))
  /\ Reduce(1, "expression", NewPtr)

(* expression: func *)
ReduceFunc ==
  /\ pc = "parse" /\ Handle(<< "func" >>)
  /\ heap' = Calloc(Exp("FUNC", Top.val))
  /\ Reduce(1, "expression", NewPtr)

(* list: expression *)
ReduceFirst ==
  /\ pc = "parse" /\ Handle(<< "LEFT_PAREN", "expression" >>)
  /\ heap' = Calloc(Arg(Top.val))
  /\ Reduce(1, "list", << NewPtr >>)

(* A fault for the checks to find: DL_PREPEND. *)
Prepended(args, a) == << a >> \o args

(* DL_APPEND *)
Appended(args, a) == Append(args, a)

(* list: list COMMA expression *)
ReduceNext ==
  /\ pc = "parse" /\ Handle(<< "list", "COMMA", "expression" >>)
  /\ heap' = Calloc(Arg(Top.val))
  /\ Reduce(3, "list", Appended(Below(2), NewPtr))

(* A fault for the checks to find: any name will do. *)
KnownAny(name) == name # << >>

(* dlsym *)
Known(name) == name \in Transforms

(* func: IDENT LEFT_PAREN list RIGHT_PAREN; the library must have it *)
ReduceCall ==
  /\ pc = "parse" /\ Handle(<< "IDENT", "LEFT_PAREN", "list", "RIGHT_PAREN" >>)
  /\ Known(heap[Below(3)].str)
  /\ heap' = Calloc(Func(Below(3), Below(1)))
  /\ Reduce(4, "func", NewPtr)

NoSymbol ==
  /\ Handle(<< "IDENT", "LEFT_PAREN", "list", "RIGHT_PAREN" >>)
  /\ ~Known(heap[Below(3)].str)

Accept ==
  /\ pc = "parse" /\ Ahead = "$end"
  /\ \/ stack = << >> /\ root' = 0
     \/ Symbols = << "expression" >> /\ root' = Top.val
  /\ pc' = "compiled"
  /\ UNCHANGED << text, read, stack, heap, running >>

Reducible ==
  \/ Handle(<< "IDENT" >>) /\ Ahead # "LEFT_PAREN"
  \/ Handle(<< "STRING" >>) \/ Handle(<< "func" >>)
  \/ Handle(<< "LEFT_PAREN", "expression" >>) \/ Handle(<< "list", "COMMA", "expression" >>)
  \/ Handle(<< "RIGHT_PAREN" >>)

(* yyerror, and a name without a symbol, end the program. *)
Error ==
  /\ pc = "parse"
  /\ \/ NoSymbol
     \/ /\ ~Shiftable /\ ~Reducible
        /\ ~(Ahead = "$end" /\ Symbols \in {<< >>, << "expression" >>})
  /\ pc' = "exit"
  /\ UNCHANGED << text, parsing, running >>

-----------------------------------------------------------------------------
(* frf_transform_exec: a call for every node on the way to the root. *)
Frame(e) == [e |-> e, i |-> 0, buf |-> << >>]
Calls == Last(frames)
Node == heap[Calls.e]
FuncOf(e) == heap[heap[e].val]
ArgExp(e, i) == heap[FuncOf(e).args[i]].exp

Exec ==
  /\ pc \in {"compiled", "executed"} /\ root # 0
  /\ p13n' \in P13nRows
  /\ frames' = << Frame(root) >> /\ rval' = << >>
  /\ pc' = "exec"
  /\ UNCHANGED << text, parsing, freed >>

Return(val) == frames' = Front(frames) /\ rval' = << val >>

ExecLeaf ==
  /\ pc = "exec" /\ rval = << >> /\ frames # << >>
  /\ \/ Node.type = "STRING" /\ Return(heap[Node.val].str)
     \/ Node.type = "P13N" /\ Return(p13n[heap[Node.val].offset])
  /\ UNCHANGED << pc, text, parsing, p13n, freed >>

ExecArg ==
  /\ pc = "exec" /\ rval = << >> /\ frames # << >>
  /\ Node.type = "FUNC" /\ Calls.i < Len(FuncOf(Calls.e).args)
  /\ frames' = Append(frames, Frame(ArgExp(Calls.e, Calls.i + 1)))
  /\ UNCHANGED << pc, text, parsing, p13n, rval, freed >>

(* Faults for the checks to find: an empty argument is taken for one that  *)
(* refused, and the loop stays where it is.                                *)
RefusedOrEmpty(val) == val = NULL \/ val = << >>
Staying(i) == i

Refused(val) == val = NULL
Room(i) == i < BufSize
NextArg(i) == i + 1

(* The value of an argument goes to buf before it is looked at, whether    *)
(* there is room or not.                                                   *)
ExecStore ==
  /\ pc = "exec" /\ rval # << >> /\ frames # << >>
  /\ LET val == rval[1]
     IN  \/ /\ ~Room(Calls.i)
            /\ pc' = "undefined" /\ UNCHANGED << frames, rval >>
         \/ /\ Room(Calls.i) /\ Refused(val)
            /\ Return(NULL) /\ UNCHANGED pc
         \/ /\ Room(Calls.i) /\ ~Refused(val)
            /\ frames' = Append(Front(frames),
                           [Calls EXCEPT !.i = NextArg(@), !.buf = SubSeq(@, 1, Calls.i) \o << val >>])
            /\ rval' = << >> /\ UNCHANGED pc
  /\ UNCHANGED << text, parsing, p13n, freed >>

ExecCall ==
  /\ pc = "exec" /\ rval = << >> /\ frames # << >>
  /\ Node.type = "FUNC" /\ Calls.i = Len(FuncOf(Calls.e).args)
  /\ LET val == Apply(heap[FuncOf(Calls.e).name].str, Calls.buf)
     IN  \/ val = Undefined /\ pc' = "undefined" /\ UNCHANGED << frames, rval >>
         \/ val # Undefined /\ Return(val) /\ UNCHANGED pc
  /\ UNCHANGED << text, parsing, p13n, freed >>

ExecDone ==
  /\ pc = "exec" /\ frames = << >>
  /\ pc' = "executed"
  /\ UNCHANGED << text, parsing, running >>

-----------------------------------------------------------------------------
(* frf_transform_destroy: a frame has the arguments still to come. *)
Destroy ==
  /\ pc \in {"compiled", "executed"}
  /\ frames' = IF root = 0 THEN << >> ELSE << Frame(root) >>
  /\ rval' = << >>
  /\ pc' = "destroy"
  /\ UNCHANGED << text, parsing, p13n, freed >>

(* An expression is destroyed, then the cell it was in is freed. *)
CellDue == rval # << >>

DestroyArg ==
  /\ pc = "destroy" /\ frames # << >> /\ ~CellDue
  /\ Node.type = "FUNC" /\ Calls.i < Len(FuncOf(Calls.e).args)
  /\ frames' = Append(frames, Frame(ArgExp(Calls.e, Calls.i + 1)))
  /\ UNCHANGED << pc, text, parsing, p13n, rval, freed >>

FreeArg ==
  /\ pc = "destroy" /\ frames # << >> /\ CellDue
  /\ freed' = Append(freed, FuncOf(Calls.e).args[Calls.i + 1])
  /\ frames' = [frames EXCEPT ![Len(frames)].i = @ + 1]
  /\ rval' = << >>
  /\ UNCHANGED << pc, text, parsing, p13n >>

(* A fault for the checks to find: the name of a field is kept. *)
PartsButName(e) ==
  IF heap[e].type \in {"STRING", "P13N"} THEN << heap[e].val >>
  ELSE << heap[heap[e].val].name, heap[e].val >>

(* What is freed with an expression, before it. *)
Parts(e) ==
  IF heap[e].type = "STRING" THEN << heap[e].val >>
  ELSE << heap[heap[e].val].name, heap[e].val >>

FreeExp ==
  /\ pc = "destroy" /\ frames # << >> /\ ~CellDue
  /\ Node.type = "FUNC" => Calls.i = Len(FuncOf(Calls.e).args)
  /\ freed' = freed \o Parts(Calls.e) \o << Calls.e >>
  /\ Return(NULL)
  /\ UNCHANGED << pc, text, parsing, p13n >>

Destroyed ==
  /\ pc = "destroy" /\ frames = << >>
  /\ pc' = "destroyed"
  /\ UNCHANGED << text, parsing, running >>

Over == pc \in {"exit", "undefined", "destroyed"} /\ UNCHANGED vars

Step ==
  \/ Shift \/ ReduceIdent \/ ReduceString \/ ReduceFunc \/ ReduceFirst \/ ReduceNext
  \/ ReduceCall \/ Accept \/ Error
  \/ ExecLeaf \/ ExecArg \/ ExecStore \/ ExecCall \/ ExecDone
  \/ DestroyArg \/ FreeArg \/ FreeExp \/ Destroyed

Next == Step \/ Exec \/ Destroy \/ Over

Spec == Init /\ [][Next]_vars /\ WF_vars(Step)

-----------------------------------------------------------------------------
Exps == {e \in DOMAIN heap : heap[e].kind = "exp"}
Args(e) == FuncOf(e).args
Between(strs, sep) == [k \in 1 .. 2 * Len(strs) - 1 |->
                         IF k % 2 = 1 THEN strs[(k + 1) \div 2] ELSE sep]

(* What frf_transform_pp prints of an expression, token by token. *)
PrintedExp(pp, e) ==
  CASE heap[e].type = "STRING" -> << heap[heap[e].val].str >>
    [] heap[e].type = "P13N"   -> << heap[heap[heap[e].val].name].str >>
    [] heap[e].type = "FUNC"   ->
         << heap[FuncOf(e).name].str, Left >>
         \o FlattenSeq(Between([k \in DOMAIN Args(e) |-> pp[ArgExp(e, k)]], << Comma >>))
         \o << Right >>

Printed ==
  LET pp[e \in Exps] == PrintedExp(pp, e)
  IN  IF root = 0 THEN << >> ELSE pp[root]

(* The grammar: where in the text expressions and lists of n tokens begin, *)
(* when parts has where the shorter ones do.                               *)
PartsOf(parts, n) ==
  LET T(k) == text[k].type
      starts == 1 .. Len(text) - n + 1
      expressions ==
        {i \in starts :
           \/ n = 1 /\ T(i) \in {"IDENT", "STRING"}
           \/ /\ n >= 4
              /\ T(i) = "IDENT" /\ T(i + 1) = "LEFT_PAREN" /\ T(i + n - 1) = "RIGHT_PAREN"
              /\ text[i].str \in Transforms
              /\ i + 2 \in parts[n - 3].lists}
      lists ==
        {i \in starts :
           \/ i \in expressions
           \/ \E m \in 1 .. n - 2 : /\ T(i + m) = "COMMA" /\ i \in parts[m].lists
                                    /\ i + m + 1 \in parts[n - m - 1].expressions}
  IN  [expressions |-> expressions, lists |-> lists]

IsSentence ==
  LET parts[n \in 1 .. Len(text)] == PartsOf(parts, n)
  IN  text = << >> \/ 1 \in parts[Len(text)].expressions

(* What a tree stands for: a transform of what its arguments stand for.    *)
(* The first argument that has no value decides.                           *)
ExpValue(v, e) ==
  CASE heap[e].type = "STRING" -> heap[heap[e].val].str
    [] heap[e].type = "P13N"   -> p13n[heap[heap[e].val].offset]
    [] heap[e].type = "FUNC"   ->
         LET n == Len(Args(e))
             bad == {k \in 1 .. n : k > BufSize \/ v[ArgExp(e, k)] \in {NULL, Undefined}}
         IN  IF bad = {} THEN Apply(heap[FuncOf(e).name].str, [k \in 1 .. n |-> v[ArgExp(e, k)]])
             ELSE IF Min(bad) > BufSize THEN Undefined ELSE v[ArgExp(e, Min(bad))]

Value ==
  LET v[e \in Exps] == ExpValue(v, e)
  IN  v[root]

(* A text is compiled if and only if it is an expression of the grammar    *)
(* whose calls the library knows; else the program ends.                   *)
CompilesTheGrammar ==
  /\ pc = "exit" => ~IsSentence
  /\ pc = "compiled" => IsSentence

(* The tree is the text: printed, it is the tokens that were compiled.     *)
PrintsBack == pc = "compiled" => Printed = [k \in DOMAIN text |-> text[k].str]

(* For any row, and in whatever order rows come, a call comes to what its  *)
(* tree stands for; the program is lost only when that has no meaning.     *)
ExecYields ==
  /\ pc = "executed" => rval = << Value >>
  /\ pc = "undefined" => Value = Undefined

(* Where a node leads. *)
Pointers(p) ==
  LET node == heap[p]
  IN  CASE node.kind = "exp"  -> {node.val}
        [] node.kind = "func" -> {node.name} \cup Range(node.args)
        [] node.kind = "p13n" -> {node.name}
        [] node.kind = "arg"  -> {node.exp}
        [] node.kind = "str"  -> {}

(* What is destroyed is what was allocated, each of it once; and nothing   *)
(* is freed before everything it leads to is, which could not be found any *)
(* more.                                                                   *)
FreesAll ==
  /\ pc = "destroyed" => Len(freed) = Len(heap) /\ Range(freed) = DOMAIN heap
  /\ \A k \in DOMAIN freed : Pointers(freed[k]) \subseteq {freed[m] : m \in 1 .. k - 1}

(* Parsing, evaluation and destruction end. *)
Ends ==
  pc \in {"parse", "exec", "destroy"} ~> pc \notin {"parse", "exec", "destroy"}
=============================================================================
