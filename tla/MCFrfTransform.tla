--------------------------- MODULE MCFrfTransform ---------------------------
(* Texts and rows for TLC.  Numbers are kept below 128, so that they wrap. *)
EXTENDS FrfTransform

Ident(str) == Token("IDENT", str)
Str(str) == Token("STRING", str)
L == Token("LEFT_PAREN", Left)
R == Token("RIGHT_PAREN", Right)
C == Token("COMMA", Comma)

a == << 97 >>
n == << 110 >>
x == << 120 >>
one == << 49 >>
minus == << 45, 50 >>
t == Ident(Trunc)
s == Ident(Add)
j == Ident(Join)

(* All there is up to five tokens long, most of which is refused. *)
Short == UNION {[1 .. k -> {Ident(a), s, L, R, C}] : k \in 0 .. 5}

(* Fields a and n, nested calls, a call with too many arguments, and calls *)
(* that refuse or have no meaning.                                         *)
Long ==
  { << t, L, Ident(a), C, Str(one), R >>,
    << t, L, Ident(a), C, Ident(n), R >>,
    << t, L, Ident(a), C, Str(minus), R >>,
    << t, L, Ident(a), R >>,
    << j, L, Str(x), R >>,
    << j, L, Ident(x), C, Ident(a), C, s, L, Ident(n), C, Ident(n), R, R >>,
    << j, L, t, L, Ident(a), R, C, Str(x), C, j, L, Str(x), R, R >>,
    << j, L, j, L, Str(x), R, C, Str(x), C, t, L, Ident(a), R, R >>,
    << s, L, s, L, Ident(n), C, Ident(n), R, C, t, L, Ident(n), C, Str(one), R, C, Str(minus), R >>,
    << s, L, Str(one), C, Str(one), C, Str(one), C, Str(one), R >>,
    << s, L, t, L, Ident(a), R, C, Str(one), C, Str(one), C, Str(one), R >>,
    << s, L, Str(one), C, R >>,
    << Ident(x), L, Str(one), R >>,
    << j, L, Str(x), C, Ident(x), L, Str(one), R, R >> }

MCTexts == Short \cup Long
MCFieldOf == [nm \in {a, n} |-> IF nm = a THEN 0 ELSE 1]
MCRows == {[f \in {0, 1} |-> IF f = 0 THEN v ELSE w] :
             v \in {<< >>, << 98, 99 >>}, w \in {<< 57, 57 >>, << 45, 55 >>}}
MCTrunc == << 116 >>
MCAdd == << 115 >>
MCJoin == << 106 >>
=============================================================================
