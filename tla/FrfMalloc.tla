----------------------------- MODULE FrfMalloc -----------------------------
(***************************************************************************)
(* The arenas of frf_malloc.c: a chain of buffers from which blocks are    *)
(* cut, and which are given up all at once.                                *)
(*                                                                         *)
(* Buffers are numbered in the order they are made.  A new buffer goes to  *)
(* the end of the chain and a reset keeps the last one only, so that the   *)
(* chain is always the buffers from lo, its head, to hi, its tail; the     *)
(* ones before lo are freed.  Blocks are cut from the tail.                *)
(*                                                                         *)
(* An owner holds a pointer to the head.  A reset frees the head of a      *)
(* chain of several buffers and answers with the new one: the maker and    *)
(* the reader keep what it answers, frf_maker_precompile throws it away    *)
(* when it resets the arena of the callbacks.                              *)
(***************************************************************************)
EXTENDS Integers, FiniteSetsExt

CONSTANTS
  Align,      (* FRF_MALLOC_ALIGNMENT_SIZE.                                *)
  FirstSize,  (* What frf_malloc_context_new was asked for.                *)
  Requests,   (* What frf_malloc is asked for.                             *)
  MaxBuffers, (* Bound: how many buffers are made.                         *)
  MaxUsed     (* Bound: bytes handed out between two resets.               *)

ASSUME MallocAssumption ==
  /\ Align \in Nat \ {0}
  /\ FirstSize \in Nat
  /\ Requests \subseteq Nat
  /\ MaxBuffers \in Nat /\ MaxUsed \in Nat

VARIABLES
  lo, hi,  (* The head and the tail of the chain.                          *)
  size,    (* The size of each buffer ever made.                           *)
  ptr,     (* How far the tail is used.                                    *)
  used,    (* The count in the head.                                       *)
  blocks,  (* The blocks handed out since the last reset.                  *)
  held,    (* The buffer the owner takes for the head.                     *)
  keeps    (* Whether the owner keeps what a reset answers.                *)

vars == << lo, hi, size, ptr, used, blocks, held, keeps >>

(* Sizes are rounded up to the alignment. *)
Rounded(n) == IF n % Align = 0 THEN n ELSE n + (Align - (n % Align))

(* frf_malloc_context_new: a buffer is at least two units. *)
Init ==
  /\ lo = 1 /\ hi = 1
  /\ size = [b \in {1} |-> IF FirstSize < 2 * Align THEN 2 * Align ELSE FirstSize]
  /\ ptr = 0 /\ used = 0
  /\ blocks = {}
  /\ held = 1 /\ keeps \in BOOLEAN

-----------------------------------------------------------------------------
(* Faults for the checks to find: room is tested before the block is cut,  *)
(* and the first block of a new buffer is not reckoned.                    *)
RoomBefore(n) == ptr <= size[hi]
PtrUnset(n) == 0

(* The block fits the tail. *)
Room(n) == ptr + Rounded(n) <= size[hi]

(* The size of a new buffer: twice the tail, or twice the block when that  *)
(* would still be too small for it.                                        *)
NewSize(n) ==
  IF 2 * size[hi] < Rounded(n) THEN 2 * Rounded(n) ELSE 2 * size[hi]

(* How far the tail is used, once a block is cut from it... *)
PtrAfter(n) == ptr + Rounded(n)

(* ...or from a new one. *)
PtrInNew(n) == Rounded(n)

(* A fault for the checks to find: the request is counted, not the block.  *)
UsedUnrounded(n) == used + n

UsedAfter(n) == used + Rounded(n)

Block(buf, at, n) == [buf |-> buf, at |-> at, len |-> Rounded(n)]

Bump(n) ==
  /\ Room(n)
  /\ blocks' = blocks \cup {Block(hi, ptr, n)}
  /\ ptr' = PtrAfter(n)
  /\ UNCHANGED << hi, size >>

Grow(n) ==
  /\ ~Room(n) /\ hi < MaxBuffers
  /\ hi' = hi + 1
  /\ size' = [b \in DOMAIN size \cup {hi + 1} |->
                IF b = hi + 1 THEN NewSize(n) ELSE size[b]]
  /\ blocks' = blocks \cup {Block(hi + 1, 0, n)}
  /\ ptr' = PtrInNew(n)

(* frf_malloc, which finds the tail through the head it is given. *)
Malloc(n) ==
  /\ held = lo
  /\ UsedAfter(n) <= MaxUsed
  /\ Bump(n) \/ Grow(n)
  /\ used' = UsedAfter(n)
  /\ UNCHANGED << lo, held, keeps >>

(* The buffer a reset keeps... *)
Kept == hi

(* ...and answers with. *)
Answer == Kept

(* frf_malloc_context_reset: everything but the tail is freed. *)
Reset ==
  /\ held = lo
  /\ lo' = Kept
  /\ held' = IF keeps THEN Answer ELSE held
  /\ ptr' = 0 /\ used' = 0 /\ blocks' = {}
  /\ UNCHANGED << hi, size, keeps >>

(* An owner that threw away what a reset answered holds a freed head once  *)
(* the arena has outgrown its first buffer: of what it does with that      *)
(* nothing can be said.                                                    *)
Dangling == held # lo /\ UNCHANGED vars

Next == (\E n \in Requests : Malloc(n)) \/ Reset \/ Dangling

Spec == Init /\ [][Next]_vars

-----------------------------------------------------------------------------
(* The variables keep their types. *)
TypeOK ==
  /\ lo \in Nat \ {0} /\ hi \in Nat \ {0} /\ lo <= hi
  /\ size \in [1 .. hi -> Nat]
  /\ ptr \in Nat /\ used \in Nat
  /\ blocks \subseteq [buf : Nat, at : Nat, len : Nat]
  /\ held \in Nat /\ keeps \in BOOLEAN

(* Every block handed out lies inside a buffer that is not freed. *)
BlocksInside ==
  \A b \in blocks : b.buf \in lo .. hi /\ b.at + b.len <= size[b.buf]

(* No two blocks overlap: cells, vectors, slots and lookup nodes of one    *)
(* row never share memory.                                                 *)
BlocksDisjoint ==
  \A b, c \in blocks :
    b = c \/ b.buf # c.buf \/ b.at + b.len <= c.at \/ c.at + c.len <= b.at

(* Every buffer is at least twice as large as the one before it, so that a *)
(* row after row of the same size soon fits the one buffer a reset keeps.  *)
BuffersDouble == \A b \in 1 .. hi - 1 : size[b + 1] >= 2 * size[b]

(* Blocks start where any type may. *)
Aligned == \A b \in blocks : b.at % Align = 0

(* The bytes of blocks. *)
BytesIn(bs) == MapThenSumSet(LAMBDA b : b.len, bs)

(* The count by which the maker decides to reset its lookup arena is what  *)
(* the arena really handed out.                                            *)
UsedExact == used = BytesIn(blocks)
=============================================================================
