--------------------------- MODULE FrfMallocProofs ---------------------------
(***************************************************************************)
(* The arenas hand out blocks that never overlap and never leave a live    *)
(* buffer, for every alignment, buffer size and sequence of requests.      *)
(***************************************************************************)
EXTENDS FrfMalloc, FiniteSetTheorems, TLAPS

(* The blocks cut from the tail lie before ptr, which lies in the tail. *)
TailCut ==
  /\ ptr <= size[hi]
  /\ \A b \in blocks : b.buf = hi => b.at + b.len <= ptr

(* The tail is used in units of the alignment. *)
PtrAligned == ptr % Align = 0

IInv ==
  /\ TypeOK
  /\ TailCut
  /\ PtrAligned
  /\ BlocksInside
  /\ BlocksDisjoint
  /\ BuffersDouble
  /\ Aligned
  /\ IsFiniteSet(blocks) /\ UsedExact

-----------------------------------------------------------------------------
(* A positive multiple of a is at least a. *)
LEMMA AtLeastOnce ==
  ASSUME NEW k \in Int, NEW a \in Nat \ {0}, k >= 1
  PROVE  k * a >= a
<1>1. (k - 1) * a >= 0
  OBVIOUS
<1>2. k * a = (k - 1) * a + a
  OBVIOUS
<1>3. k * a \in Int /\ (k - 1) * a \in Int
  OBVIOUS
<1>. QED
  BY <1>1, <1>2, <1>3

(* A negative multiple of a is at most -a. *)
LEMMA AtMostMinus ==
  ASSUME NEW k \in Int, NEW a \in Nat \ {0}, k <= -1
  PROVE  k * a <= -a
<1>1. (-k) * a >= a
  BY AtLeastOnce
<1>2. (-k) * a = -(k * a)
  OBVIOUS
<1>. QED
  BY <1>1, <1>2

(* Division with remainder. *)
LEMMA Divided ==
  ASSUME NEW n \in Nat, NEW a \in Nat \ {0}
  PROVE  n \div a \in Nat /\ n = (n \div a) * a + (n % a) /\ n % a \in 0 .. a - 1
  OBVIOUS

(* A multiple of a leaves nothing when divided by a: the quotient q and   *)
(* the one that \div gives differ by less than one. *)
LEMMA MultipleOf ==
  ASSUME NEW q \in Nat, NEW a \in Nat \ {0}
  PROVE  (q * a) % a = 0
<1>. DEFINE n == q * a
            d == n \div a
            r == n % a
<1>1. n \in Nat
  OBVIOUS
<1>2. d \in Nat /\ n = d * a + r /\ r \in 0 .. a - 1
  BY <1>1, Divided
<1>. HIDE DEF d, r
<1>3. (q - d) * a = r
  <2>1. (q - d) * a = q * a - d * a
    BY <1>2
  <2>. QED
    BY <2>1, <1>2
<1>4. ~ (q - d >= 1)
  <2>. SUFFICES ASSUME q - d >= 1 PROVE FALSE
    OBVIOUS
  <2>1. (q - d) * a >= a
    BY <1>2, AtLeastOnce
  <2>. QED
    BY <2>1, <1>2, <1>3
<1>5. ~ (q - d <= -1)
  <2>. SUFFICES ASSUME q - d <= -1 PROVE FALSE
    OBVIOUS
  <2>1. (q - d) * a <= -a
    BY <1>2, AtMostMinus
  <2>. QED
    BY <2>1, <1>2, <1>3
<1>6. q - d = 0
  BY <1>2, <1>4, <1>5
<1>7. r = 0
  BY <1>6, <1>3, <1>2
<1>. QED
  BY <1>7 DEF r

(* Sums of multiples are multiples: what is cut in units is used in units. *)
LEMMA SumOfMultiples ==
  ASSUME NEW m \in Nat, NEW n \in Nat, NEW a \in Nat \ {0},
         m % a = 0, n % a = 0
  PROVE  (m + n) % a = 0
<1>1. m = (m \div a) * a /\ m \div a \in Nat
  BY Divided
<1>2. n = (n \div a) * a /\ n \div a \in Nat
  BY Divided
<1>. DEFINE p == m \div a
            q == n \div a
<1>3. p + q \in Nat
  BY <1>1, <1>2
<1>4. m + n = p * a + q * a
  BY <1>1, <1>2
<1>. HIDE DEF p, q
<1>5. p \in Nat /\ q \in Nat
  BY <1>1, <1>2 DEF p, q
<1>6. p * a + q * a = (p + q) * a
  BY <1>5
<1>7. ((p + q) * a) % a = 0
  BY <1>3, MultipleOf
<1>. QED
  BY <1>4, <1>6, <1>7

(* A rounded size is a multiple of the alignment, and no smaller than what *)
(* was asked for.                                                          *)
LEMMA RoundedType ==
  ASSUME NEW n \in Nat
  PROVE  /\ Rounded(n) \in Nat
         /\ Rounded(n) >= n
         /\ Rounded(n) % Align = 0
<1>1. /\ n \div Align \in Nat
      /\ n = (n \div Align) * Align + (n % Align)
      /\ n % Align \in 0 .. Align - 1
  BY Divided, MallocAssumption
<1>2. CASE n % Align = 0
  BY <1>2 DEF Rounded
<1>3. CASE n % Align # 0
  <2>1. Rounded(n) = n + (Align - (n % Align))
    BY <1>3 DEF Rounded
  <2>2. Rounded(n) = (n \div Align) * Align + Align
    BY <1>1, <2>1, MallocAssumption
  <2>3. (n \div Align) * Align + Align = (n \div Align + 1) * Align
    BY <1>1, MallocAssumption
  <2>4. Rounded(n) % Align = 0
    BY <1>1, <2>2, <2>3, MultipleOf, MallocAssumption
  <2>. QED
    BY <1>1, <2>1, <2>4, MallocAssumption
<1>. QED
  BY <1>2, <1>3

-----------------------------------------------------------------------------
(* What holds of a set whenever it holds of all that lie properly in it    *)
(* holds of a finite set and of all that lie in it.                        *)
LEMMA AllSubsets ==
  ASSUME NEW S, IsFiniteSet(S), NEW P,
         \A T \in SUBSET S : (\A U \in SUBSET T : U # T => U \in P) => T \in P
  PROVE  SUBSET S \subseteq P
<1>. DEFINE Bad == (SUBSET S) \ P
            Below == StrictSubsetOrdering(S)
<1>. SUFFICES ASSUME Bad # {} PROVE FALSE
  OBVIOUS
<1>1. IsWellFoundedOn(Below, FiniteSubsetsOf(S))
  BY FS_StrictSubsetOrderingWellFounded
<1>2. Bad \subseteq FiniteSubsetsOf(S)
  BY FS_Subset DEF FiniteSubsetsOf
<1>3. PICK T \in Bad : \A U \in Bad : ~(<< U, T >> \in Below)
  <2>. HIDE DEF Bad, Below
  <2>. QED
    BY <1>1, <1>2, WFMin
<1>4. \A U \in SUBSET T : U # T => U \in P
  BY <1>3 DEF StrictSubsetOrdering
<1>. QED
  BY <1>3, <1>4

(* The bytes of blocks, each with the block it is of. *)
BytesOf(s) == UNION {{b} \X (1 .. b.len) : b \in s}

(* A block more is as many bytes more as it is long. *)
LEMMA BytesStep ==
  ASSUME NEW s, NEW x \in s, x.len \in Nat, IsFiniteSet(BytesOf(s \ {x}))
  PROVE  /\ IsFiniteSet(BytesOf(s))
         /\ Cardinality(BytesOf(s)) = x.len + Cardinality(BytesOf(s \ {x}))
<1>. DEFINE A == BytesOf(s \ {x})
            B == {x} \X (1 .. x.len)
<1>1. BytesOf(s) = A \cup B
  BY DEF BytesOf
<1>2. A \cap B = {}
  BY DEF BytesOf
<1>3. IsFiniteSet(1 .. x.len) /\ Cardinality(1 .. x.len) = x.len
  BY FS_Interval
<1>4. IsFiniteSet({x}) /\ Cardinality({x}) = 1
  BY FS_Singleton
<1>5. IsFiniteSet(B) /\ Cardinality(B) = x.len
  <2>1. /\ IsFiniteSet({x} \X (1 .. x.len))
        /\ Cardinality({x} \X (1 .. x.len)) = Cardinality({x}) * Cardinality(1 .. x.len)
    BY <1>3, <1>4, FS_Product, Zenon
  <2>. QED
    BY <1>3, <1>4, <2>1
<1>6. Cardinality(A \cap B) = 0
  BY <1>2, FS_EmptySet
<1>7. Cardinality(A) \in Nat
  BY FS_CardinalityType
<1>8. /\ IsFiniteSet(A \cup B)
      /\ Cardinality(A \cup B) = Cardinality(A) + Cardinality(B) - Cardinality(A \cap B)
  BY <1>5, FS_Union
<1>. HIDE DEF A, B
<1>. QED
  BY <1>1, <1>5, <1>6, <1>7, <1>8 DEF A

(* Finitely many blocks have finitely many bytes. *)
LEMMA BytesFinite ==
  ASSUME NEW S, IsFiniteSet(S), \A b \in S : b.len \in Nat
  PROVE  \A s \in SUBSET S : IsFiniteSet(BytesOf(s))
<1>. DEFINE P == {s \in SUBSET S : IsFiniteSet(BytesOf(s))}
<1>1. ASSUME NEW T \in SUBSET S, \A U \in SUBSET T : U # T => U \in P
      PROVE  T \in P
  <2>1. CASE T = {}
    <3>1. BytesOf({}) = {}
      BY DEF BytesOf
    <3>. QED
      BY <2>1, <3>1, FS_EmptySet
  <2>2. CASE T # {}
    <3>1. PICK x \in T : TRUE
      BY <2>2
    <3>2. T \ {x} \in P
      BY <1>1, <3>1
    <3>. QED
      BY <3>1, <3>2, BytesStep
  <2>. QED
    BY <2>1, <2>2
<1>2. SUBSET S \subseteq P
  <2>. HIDE DEF P
  <2>. QED
    BY <1>1, AllSubsets
<1>. QED
  BY <1>2

(* The sum over blocks, a fold that takes them one after the other as      *)
(* CHOOSE happens to pick them, is the number of their bytes.              *)
LEMMA SumIsBytes ==
  ASSUME NEW S, IsFiniteSet(S), \A b \in S : b.len \in Nat
  PROVE  BytesIn(S) = Cardinality(BytesOf(S))
<1>. DEFINE First(s) == CHOOSE x \in s : TRUE
            Body(g) == [s \in SUBSET S |->
                          IF s = {} THEN 0 ELSE First(s).len + g[s \ {First(s)}]]
            count == [s \in SUBSET S |-> Cardinality(BytesOf(s))]
            iter == CHOOSE g : g = Body(g)
            P == {s \in SUBSET S : iter[s] = count[s]}
<1>1. BytesIn(S) = iter[S]
  BY DEF BytesIn, MapThenSumSet, MapThenFoldSet
<1>2. ASSUME NEW s \in SUBSET S
      PROVE  count[s] = IF s = {} THEN 0 ELSE First(s).len + count[s \ {First(s)}]
  <2>1. CASE s = {}
    <3>1. BytesOf({}) = {}
      BY DEF BytesOf
    <3>. QED
      BY <2>1, <3>1, FS_EmptySet
  <2>2. CASE s # {}
    <3>1. First(s) \in s /\ First(s) \in S
      BY <2>2
    <3>2. IsFiniteSet(BytesOf(s \ {First(s)})) /\ First(s).len \in Nat
      BY <3>1, BytesFinite
    <3>3. Cardinality(BytesOf(s)) =
            First(s).len + Cardinality(BytesOf(s \ {First(s)}))
      BY <3>1, <3>2, BytesStep
    <3>. QED
      BY <2>2, <3>3
  <2>. QED
    BY <2>1, <2>2
<1>3. count = Body(count)
  BY <1>2
<1>. HIDE DEF count
<1>4. iter = Body(iter)
  BY <1>3
<1>. HIDE DEF iter
<1>5. ASSUME NEW T \in SUBSET S, \A U \in SUBSET T : U # T => U \in P
      PROVE  T \in P
  <2>1. iter[T] = IF T = {} THEN 0 ELSE First(T).len + iter[T \ {First(T)}]
    BY <1>4
  <2>2. T # {} => iter[T \ {First(T)}] = count[T \ {First(T)}]
    <3>1. T # {} => First(T) \in T
      OBVIOUS
    <3>. QED
      BY <1>5, <3>1
  <2>. QED
    BY <1>2, <2>1, <2>2
<1>6. S \in P
  <2>. HIDE DEF P
  <2>. QED
    BY <1>5, AllSubsets
<1>. QED
  BY <1>1, <1>6 DEF count

(* The sum over no blocks. *)
LEMMA SumOfNone == BytesIn({}) = 0
<1>1. BytesIn({}) = Cardinality(BytesOf({}))
  BY SumIsBytes, FS_EmptySet
<1>2. BytesOf({}) = {}
  BY DEF BytesOf
<1>. QED
  BY <1>1, <1>2, FS_EmptySet

(* Together: what one more block adds to the sum over the blocks. *)
LEMMA SumStep ==
  ASSUME NEW S, IsFiniteSet(S), \A b \in S : b.len \in Nat,
         NEW x, x.len \in Nat
  PROVE  /\ IsFiniteSet(S \cup {x})
         /\ BytesIn(S) \in Nat
         /\ BytesIn(S \cup {x}) =
              BytesIn(S) + IF x \in S THEN 0 ELSE x.len
<1>. DEFINE T == S \cup {x}
<1>1. IsFiniteSet(T) /\ \A b \in T : b.len \in Nat
  BY FS_AddElement
<1>2. BytesIn(S) = Cardinality(BytesOf(S)) /\ BytesIn(T) = Cardinality(BytesOf(T))
  BY <1>1, SumIsBytes
<1>3. IsFiniteSet(BytesOf(S)) /\ Cardinality(BytesOf(S)) \in Nat
  BY BytesFinite, FS_CardinalityType
<1>4. CASE x \in S
  <2>1. T = S
    BY <1>4
  <2>. QED
    BY <1>1, <1>2, <1>3, <1>4, <2>1
<1>5. CASE x \notin S
  <2>1. T \ {x} = S /\ x \in T
    BY <1>5
  <2>2. Cardinality(BytesOf(T)) = x.len + Cardinality(BytesOf(S))
    BY <1>3, <2>1, BytesStep
  <2>. QED
    BY <1>1, <1>2, <1>3, <1>5, <2>2
<1>. QED
  BY <1>4, <1>5

-----------------------------------------------------------------------------
LEMMA InitInv == Init => IInv
<1>. SUFFICES ASSUME Init PROVE IInv
  OBVIOUS
<1>1. size[1] \in Nat
  BY MallocAssumption DEF Init
<1>2. TypeOK
  BY <1>1 DEF Init, TypeOK
<1>3. 0 % Align = 0
  BY MallocAssumption
<1>4. TailCut /\ PtrAligned
  BY <1>1, <1>3 DEF Init, TailCut, PtrAligned
<1>5. BlocksInside /\ BlocksDisjoint /\ Aligned
  BY DEF Init, BlocksInside, BlocksDisjoint, Aligned
<1>6. BuffersDouble
  BY DEF Init, BuffersDouble
<1>7. IsFiniteSet(blocks) /\ UsedExact
  <2>1. used = 0 /\ blocks = {}
    BY DEF Init
  <2>. QED
    BY <2>1, FS_EmptySet, SumOfNone DEF UsedExact
<1>. QED
  BY <1>2, <1>4, <1>5, <1>6, <1>7 DEF IInv

(* A block cut from the tail begins where the others end. *)
LEMMA BumpInv ==
  ASSUME IInv, NEW n \in Requests, Malloc(n), Bump(n)
  PROVE  IInv'
<1>. DEFINE R == Rounded(n)
            B == Block(hi, ptr, n)
<1>1. R \in Nat /\ R % Align = 0
  BY RoundedType, MallocAssumption
<1>2. /\ blocks' = blocks \cup {B} /\ ptr' = ptr + R /\ ptr' <= size[hi]
      /\ used' = used + R
      /\ UNCHANGED << lo, hi, size, held, keeps >>
  BY DEF Malloc, Bump, Room, PtrAfter, UsedAfter
<1>3. B = [buf |-> hi, at |-> ptr, len |-> R]
  BY DEF Block
<1>. HIDE DEF R, B
<1>4. /\ lo \in Nat \ {0} /\ hi \in Nat \ {0} /\ lo <= hi /\ ptr \in Nat
      /\ used \in Nat /\ blocks \subseteq [buf : Nat, at : Nat, len : Nat]
      /\ size \in [1 .. hi -> Nat] /\ size[hi] \in Nat
  BY DEF IInv, TypeOK
<1>5. B \in [buf : Nat, at : Nat, len : Nat]
  BY <1>1, <1>3, <1>4
<1>6. TypeOK'
  <2>1. ptr' \in Nat /\ used' \in Nat
    BY <1>1, <1>2, <1>4
  <2>2. blocks' \subseteq [buf : Nat, at : Nat, len : Nat]
    BY <1>2, <1>4, <1>5
  <2>. QED
    BY <1>2, <1>4, <2>1, <2>2 DEF IInv, TypeOK
<1>7. TailCut'
  <2>1. ASSUME NEW b \in blocks', b.buf = hi'
        PROVE  b.at + b.len <= ptr'
    <3>1. CASE b \in blocks
      <4>1. b.at \in Nat /\ b.len \in Nat
        BY <3>1, <1>4
      <4>2. b.at + b.len <= ptr
        BY <3>1, <2>1, <1>2 DEF IInv, TailCut
      <4>. QED
        BY <4>1, <4>2, <1>1, <1>2, <1>4
    <3>2. CASE b = B
      BY <3>2, <1>1, <1>2, <1>3, <1>4
    <3>. QED
      BY <3>1, <3>2, <1>2
  <2>. QED
    BY <2>1, <1>2 DEF TailCut
<1>8. PtrAligned'
  BY <1>1, <1>2, <1>4, SumOfMultiples, MallocAssumption DEF IInv, PtrAligned
<1>9. BlocksInside'
  <2>1. ASSUME NEW b \in blocks'
        PROVE  b.buf \in lo .. hi /\ b.at + b.len <= size[b.buf]
    <3>1. CASE b \in blocks
      BY <3>1 DEF IInv, BlocksInside
    <3>2. CASE b = B
      BY <3>2, <1>2, <1>3, <1>4
    <3>. QED
      BY <3>1, <3>2, <1>2
  <2>. QED
    BY <2>1, <1>2 DEF BlocksInside
<1>10. BlocksDisjoint'
  <2>1. ASSUME NEW b \in blocks
        PROVE  b.buf # B.buf \/ b.at + b.len <= B.at
    BY <1>3 DEF IInv, TailCut
  <2>2. ASSUME NEW b \in blocks', NEW c \in blocks'
        PROVE  \/ b = c \/ b.buf # c.buf
               \/ b.at + b.len <= c.at \/ c.at + c.len <= b.at
    <3>1. CASE b \in blocks /\ c \in blocks
      BY <3>1 DEF IInv, BlocksDisjoint
    <3>2. CASE b \in blocks /\ c = B
      BY <3>2, <2>1
    <3>3. CASE b = B /\ c \in blocks
      BY <3>3, <2>1
    <3>4. CASE b = B /\ c = B
      BY <3>4
    <3>. QED
      BY <3>1, <3>2, <3>3, <3>4, <1>2
  <2>. QED
    BY <2>2 DEF BlocksDisjoint
<1>11. BuffersDouble'
  BY <1>2 DEF IInv, BuffersDouble
<1>12. Aligned'
  BY <1>2, <1>3 DEF IInv, Aligned, PtrAligned
<1>14. IsFiniteSet(blocks') /\ UsedExact'
  <2>1. IsFiniteSet(blocks) /\ used = BytesIn(blocks)
    BY DEF IInv, UsedExact
  <2>2. \A b \in blocks : b.len \in Nat
    BY <1>4
  <2>3. B \in blocks => B.len = 0
    <3>. SUFFICES ASSUME B \in blocks PROVE B.len = 0
      OBVIOUS
    <3>1. B.at + B.len <= ptr /\ B.at = ptr /\ B.len = R
      BY <1>3 DEF IInv, TailCut
    <3>. QED
      BY <3>1, <1>1, <1>4
  <2>4. IsFiniteSet(blocks') /\ BytesIn(blocks') = used + R
    BY <1>1, <1>2, <1>3, <1>4, <2>1, <2>2, <2>3, SumStep
  <2>. QED
    BY <1>2, <2>4 DEF UsedExact
<1>. QED
  BY <1>6, <1>7, <1>8, <1>9, <1>10, <1>11, <1>12, <1>14 DEF IInv

(* The size of a new buffer holds the block it is made for, and is twice   *)
(* the size of the tail at least.                                          *)
LEMMA NewSizeSuffices ==
  ASSUME NEW n \in Nat, hi \in Nat \ {0}, size[hi] \in Nat
  PROVE  /\ NewSize(n) \in Nat
         /\ NewSize(n) >= Rounded(n)
         /\ NewSize(n) >= 2 * size[hi]
<1>1. Rounded(n) \in Nat
  BY RoundedType
<1>. QED
  BY <1>1 DEF NewSize

(* A new buffer holds nothing but the block it was made for. *)
LEMMA GrowInv ==
  ASSUME IInv, NEW n \in Requests, Malloc(n), Grow(n)
  PROVE  IInv'
<1>. DEFINE R == Rounded(n)
            B == Block(hi + 1, 0, n)
            S == NewSize(n)
<1>0. n \in Nat
  BY MallocAssumption
<1>1. R \in Nat /\ R % Align = 0
  BY <1>0, RoundedType
<1>2. /\ blocks' = blocks \cup {B} /\ ptr' = R /\ hi' = hi + 1
      /\ used' = used + R
      /\ size' = [b \in DOMAIN size \cup {hi + 1} |->
                    IF b = hi + 1 THEN S ELSE size[b]]
      /\ UNCHANGED << lo, held, keeps >>
  BY DEF Malloc, Grow, PtrInNew, UsedAfter
<1>3. B = [buf |-> hi + 1, at |-> 0, len |-> R]
  BY DEF Block
<1>4. /\ lo \in Nat \ {0} /\ hi \in Nat \ {0} /\ lo <= hi /\ ptr \in Nat
      /\ used \in Nat /\ blocks \subseteq [buf : Nat, at : Nat, len : Nat]
      /\ size \in [1 .. hi -> Nat] /\ size[hi] \in Nat
  BY DEF IInv, TypeOK
<1>5. S \in Nat /\ S >= R /\ S >= 2 * size[hi]
  BY <1>0, <1>4, NewSizeSuffices
<1>. HIDE DEF R, B, S
<1>6. /\ size' \in [1 .. hi' -> Nat]
      /\ size'[hi + 1] = S
      /\ \A b \in 1 .. hi : size'[b] = size[b]
  <2>1. DOMAIN size = 1 .. hi
    BY <1>4
  <2>2. (1 .. hi) \cup {hi + 1} = 1 .. hi + 1
    BY <1>4
  <2>. QED
    BY <1>2, <1>4, <1>5, <2>1, <2>2
<1>7. B \in [buf : Nat, at : Nat, len : Nat]
  BY <1>1, <1>3, <1>4
<1>8. TypeOK'
  <2>1. ptr' \in Nat /\ used' \in Nat /\ hi' \in Nat \ {0} /\ lo' <= hi'
    BY <1>1, <1>2, <1>4
  <2>2. blocks' \subseteq [buf : Nat, at : Nat, len : Nat]
    BY <1>2, <1>4, <1>7
  <2>. QED
    BY <1>2, <1>4, <1>6, <2>1, <2>2 DEF IInv, TypeOK
<1>9. \A b \in blocks : b.buf \in lo .. hi
  BY DEF IInv, BlocksInside
<1>10. TailCut'
  <2>1. ASSUME NEW b \in blocks', b.buf = hi'
        PROVE  b = B
    BY <2>1, <1>2, <1>4, <1>9
  <2>. QED
    BY <2>1, <1>1, <1>2, <1>3, <1>5, <1>6 DEF TailCut
<1>11. PtrAligned'
  BY <1>1, <1>2 DEF PtrAligned
<1>12. BlocksInside'
  <2>1. ASSUME NEW b \in blocks'
        PROVE  b.buf \in lo' .. hi' /\ b.at + b.len <= size'[b.buf]
    <3>1. CASE b \in blocks
      <4>1. b.buf \in lo .. hi /\ b.at + b.len <= size[b.buf]
        BY <3>1 DEF IInv, BlocksInside
      <4>2. b.buf \in 1 .. hi
        BY <4>1, <1>4
      <4>. QED
        BY <4>1, <4>2, <1>2, <1>4, <1>6
    <3>2. CASE b = B
      BY <3>2, <1>1, <1>2, <1>3, <1>4, <1>5, <1>6
    <3>. QED
      BY <3>1, <3>2, <1>2
  <2>. QED
    BY <2>1 DEF BlocksInside
<1>13. BlocksDisjoint'
  <2>1. ASSUME NEW b \in blocks
        PROVE  b.buf # B.buf
    BY <1>3, <1>4, <1>9
  <2>2. ASSUME NEW b \in blocks', NEW c \in blocks'
        PROVE  \/ b = c \/ b.buf # c.buf
               \/ b.at + b.len <= c.at \/ c.at + c.len <= b.at
    <3>1. CASE b \in blocks /\ c \in blocks
      BY <3>1 DEF IInv, BlocksDisjoint
    <3>2. CASE b \in blocks /\ c = B
      BY <3>2, <2>1
    <3>3. CASE b = B /\ c \in blocks
      BY <3>3, <2>1
    <3>4. CASE b = B /\ c = B
      BY <3>4
    <3>. QED
      BY <3>1, <3>2, <3>3, <3>4, <1>2
  <2>. QED
    BY <2>2 DEF BlocksDisjoint
<1>14. BuffersDouble'
  <2>1. ASSUME NEW b \in 1 .. hi' - 1
        PROVE  size'[b + 1] >= 2 * size'[b]
    <3>1. b \in 1 .. hi
      BY <1>2, <1>4
    <3>2. CASE b = hi
      BY <3>1, <3>2, <1>5, <1>6
    <3>3. CASE b # hi
      <4>1. b \in 1 .. hi - 1 /\ b + 1 \in 1 .. hi
        BY <3>1, <3>3, <1>4
      <4>2. size[b + 1] >= 2 * size[b]
        BY <4>1 DEF IInv, BuffersDouble
      <4>. QED
        BY <3>1, <4>1, <4>2, <1>6
    <3>. QED
      BY <3>2, <3>3
  <2>. QED
    BY <2>1 DEF BuffersDouble
<1>15. Aligned'
  <2>1. 0 % Align = 0
    BY MallocAssumption
  <2>. QED
    BY <2>1, <1>2, <1>3 DEF IInv, Aligned
<1>17. IsFiniteSet(blocks') /\ UsedExact'
  <2>1. IsFiniteSet(blocks) /\ used = BytesIn(blocks)
    BY DEF IInv, UsedExact
  <2>2. \A b \in blocks : b.len \in Nat
    BY <1>4
  <2>3. B \notin blocks
    BY <1>3, <1>4, <1>9
  <2>4. IsFiniteSet(blocks') /\ BytesIn(blocks') = used + R
    BY <1>1, <1>2, <1>3, <2>1, <2>2, <2>3, SumStep
  <2>. QED
    BY <1>2, <2>4 DEF UsedExact
<1>. QED
  BY <1>8, <1>10, <1>11, <1>12, <1>13, <1>14, <1>15, <1>17 DEF IInv

(* A reset keeps the tail, with nothing cut from it. *)
LEMMA ResetInv ==
  ASSUME IInv, Reset
  PROVE  IInv'
<1>1. /\ lo' = hi /\ ptr' = 0 /\ used' = 0 /\ blocks' = {}
      /\ held' = (IF keeps THEN hi ELSE held)
      /\ held = lo
      /\ UNCHANGED << hi, size, keeps >>
  BY DEF Reset, Kept, Answer
<1>2. /\ lo \in Nat \ {0} /\ hi \in Nat \ {0} /\ lo <= hi
      /\ size \in [1 .. hi -> Nat] /\ size[hi] \in Nat /\ keeps \in BOOLEAN
  BY DEF IInv, TypeOK
<1>3. TypeOK'
  BY <1>1, <1>2 DEF TypeOK
<1>4. 0 % Align = 0
  BY MallocAssumption
<1>5. TailCut' /\ PtrAligned'
  BY <1>1, <1>2, <1>4 DEF TailCut, PtrAligned
<1>6. BlocksInside' /\ BlocksDisjoint' /\ Aligned'
  BY <1>1 DEF BlocksInside, BlocksDisjoint, Aligned
<1>7. BuffersDouble'
  BY <1>1 DEF IInv, BuffersDouble
<1>9. IsFiniteSet(blocks') /\ UsedExact'
  BY <1>1, FS_EmptySet, SumOfNone DEF UsedExact
<1>. QED
  BY <1>3, <1>5, <1>6, <1>7, <1>9 DEF IInv

(* No step of the arena breaks the invariant. *)
LEMMA NextInv == IInv /\ [Next]_vars => IInv'
<1>. SUFFICES ASSUME IInv, [Next]_vars PROVE IInv'
  OBVIOUS
<1>1. ASSUME NEW n \in Requests, Malloc(n) PROVE IInv'
  <2>1. Bump(n) \/ Grow(n)
    BY <1>1 DEF Malloc
  <2>. QED
    BY <1>1, <2>1, BumpInv, GrowInv
<1>2. CASE Reset
  BY <1>2, ResetInv
<1>3. CASE UNCHANGED vars
  BY <1>3 DEF vars, IInv, TypeOK, TailCut, PtrAligned, BlocksInside,
              BlocksDisjoint, BuffersDouble, Aligned, UsedExact
<1>. QED
  BY <1>1, <1>2, <1>3 DEF Next, Dangling

-----------------------------------------------------------------------------
(* The inductive invariant holds throughout every run of the arena. *)
THEOREM Invariance == Spec => []IInv
BY InitInv, NextInv, PTL DEF Spec

(* The variables of the arena keep their types: sizes and pointers never   *)
(* leave the naturals and the head never passes the tail.                  *)
THEOREM TypeCorrect == Spec => []TypeOK
<1>1. IInv => TypeOK
  BY DEF IInv
<1>. QED
  BY <1>1, Invariance, PTL

(* No two of the cells, vectors, slots and nodes that frf_malloc hands out *)
(* share memory, whatever is asked for and in whatever order (the cells of *)
(* one row survive the allocation of the next cell).                       *)
THEOREM BlocksNeverOverlap == Spec => []BlocksDisjoint
<1>1. IInv => BlocksDisjoint
  BY DEF IInv
<1>. QED
  BY <1>1, Invariance, PTL

(* Every block handed out since the last reset is inside a live buffer:    *)
(* growing the chain frees nothing, and the new buffer is large enough.    *)
THEOREM BlocksStayInside == Spec => []BlocksInside
<1>1. IInv => BlocksInside
  BY DEF IInv
<1>. QED
  BY <1>1, Invariance, PTL

(* frf_malloc always returns aligned pointers, as its assertion says, if   *)
(* the buffers are aligned themselves.                                     *)
THEOREM BlocksAligned == Spec => []Aligned
<1>1. IInv => Aligned
  BY DEF IInv
<1>. QED
  BY <1>1, Invariance, PTL

(* Buffers at least double, so that an arena that is reset between rows    *)
(* makes a number of buffers that is logarithmic in the largest row.       *)
THEOREM BuffersAlwaysDouble == Spec => []BuffersDouble
<1>1. IInv => BuffersDouble
  BY DEF IInv
<1>. QED
  BY <1>1, Invariance, PTL

(* What the head of an arena counts is the bytes of the blocks handed out  *)
(* since the last reset, paddings included, however many buffers they lie  *)
(* in: the maker resets its lookup arena by that count.                    *)
THEOREM UsedIsExact == Spec => []UsedExact
<1>1. IInv => UsedExact
  BY DEF IInv
<1>. QED
  BY <1>1, Invariance, PTL
=============================================================================
