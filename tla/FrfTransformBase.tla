-------------------------- MODULE FrfTransformBase --------------------------
(***************************************************************************)
(* The transforms of frf_transform_base.c as functions of their arguments. *)
(*                                                                         *)
(* A string is a sequence of character codes.  Undefined stands for what   *)
(* C does not define, after which nothing can be said of the program.      *)
(***************************************************************************)
EXTENDS Integers, Sequences, FiniteSetsExt, SequencesExt

CONSTANTS
  Trunc, Add, Join,  (* The names they are called by.                      *)
  NULL,              (* What a transform yields when it refuses.           *)
  Undefined,
  Half               (* An int goes from -Half to Half - 1.                *)

Minus == 45
Digits == 48 .. 57

(* What is kept of a number in an int. *)
AsInt(n) == ((n + Half) % (2 * Half)) - Half

(* The number the digits at the start of s spell. *)
Number(s) ==
  LET digits == CHOOSE n \in 0 .. Len(s) :
                  /\ \A k \in 1 .. n : s[k] \in Digits
                  /\ n < Len(s) => s[n + 1] \notin Digits
  IN  FoldLeft(LAMBDA n, c : 10 * n + (c - 48), 0, SubSeq(s, 1, digits))

Atoi(s) ==
  AsInt(IF s # << >> /\ s[1] = Minus THEN -Number(Tail(s)) ELSE Number(s))

(* %d *)
Decimal(n) ==
  LET abs == IF n < 0 THEN -n ELSE n
      count == Min({c \in 1 .. 9 : abs < 10 ^ c})
      digits == [k \in 1 .. count |-> 48 + ((abs \div 10 ^ (count - k)) % 10)]
  IN  IF n < 0 THEN << Minus >> \o digits ELSE digits

(* The number of characters is not looked at further when it is negative:  *)
(* memcpy gets it as a size_t.                                             *)
FRF_TRANSFORM_trunc(argv) ==
  IF Len(argv) # 2 THEN NULL
  ELSE LET size == Atoi(argv[2])
       IN  IF size < 0 THEN Undefined
           ELSE SubSeq(argv[1], 1, Min({size, Len(argv[1])}))

(* A sum that overflows wraps. *)
FRF_TRANSFORM_add(argv) ==
  Decimal(FoldLeft(LAMBDA acc, s : AsInt(acc + Atoi(s)), 0, argv))

(* With nothing to join, the argument after the last is read. *)
FRF_TRANSFORM_join(argv) ==
  IF Len(argv) < 2 THEN Undefined
  ELSE FoldLeft(LAMBDA s, arg : s \o argv[1] \o arg, argv[2], SubSeq(argv, 3, Len(argv)))

Transforms == {Trunc, Add, Join}

Apply(name, argv) ==
  CASE name = Trunc -> FRF_TRANSFORM_trunc(argv)
    [] name = Add -> FRF_TRANSFORM_add(argv)
    [] name = Join -> FRF_TRANSFORM_join(argv)
=============================================================================
