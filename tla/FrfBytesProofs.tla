-------------------------- MODULE FrfBytesProofs --------------------------
(* What is packed into a word, and what is written in front of a string,   *)
(* is read back, for every string and every length.                        *)
EXTENDS FrfBytes, TLAPS

(* The byte at place k of the word once n bytes of the string are in. *)
Packed(k, n) ==
  IF 4 - Len(str) <= k /\ k < 4 - Len(str) + n THEN str[4 - k] ELSE 0

(* What is known at each step: how far the word is filled, that the flag   *)
(* is on once it is full, and what each half has handed over.              *)
IInv ==
  /\ TypeOK
  /\ pc = "pack" => \A k \in 0 .. 3 : chars[k] = Packed(k, i)
  /\ pc = "packed" =>
       \A k \in 0 .. 3 :
         chars[k] = IF k = 0 THEN Flagged(Packed(0, Len(str))) ELSE Packed(k, Len(str))
  /\ RoundTrip
  /\ pc = "written" => prefix = PrefixOf(len)
  /\ LengthSurvives

(* The bytes of a tiny string. *)
LEMMA TinyString ==
  ASSUME NEW s \in TinyStrings
  PROVE  /\ Len(s) \in 0 .. 4
         /\ s \in [1 .. Len(s) -> Alphabet]
         /\ \A k \in 1 .. Len(s) : s[k] \in 1 .. 255
<1>1. PICK n \in 0 .. 4 : s \in [1 .. n -> Alphabet]
  BY DEF TinyStrings
<1>2. Len(s) = n
  BY <1>1
<1> QED
  <2>1. Alphabet \subseteq 1 .. 255
    BY BytesAssumption DEF BytesAssumption, Byte
  <2> QED
    BY <1>1, <1>2, <2>1

(* A length is read back from its prefix. *)
LEMMA PrefixRead ==
  ASSUME NEW n \in 0 .. MaxLength
  PROVE  LengthOf(PrefixOf(n)) = n
<1>1. CASE n < 128
  BY <1>1 DEF PrefixOf, LengthOf
<1>2. CASE ~(n < 128)
  <2> DEFINE a == n \div B3  b == (n \div B2) % B1
             c == (n \div B1) % B1  d == n % B1
  <2> DEFINE x == n \div B1  y == n \div B2
  <2>a. n = B1 * x + d /\ x \in Nat /\ d \in 0 .. 255
    BY DEF B1
  <2>b. x = B1 * (x \div B1) + c
    BY <2>a DEF B1
  <2>c. y = x \div B1 /\ y \in Nat
    BY <2>a DEF B1, B2
  <2>d. y = B1 * (y \div B1) + b
    BY <2>c DEF B1
  <2>e. a = y \div B1 /\ a \in Nat
    BY <2>c DEF B1, B2, B3
  <2>1. a \in Nat /\ n = B3 * a + B2 * b + B1 * c + d
    BY <2>a, <2>b, <2>c, <2>d, <2>e DEF B1, B2, B3
  <2>2. PrefixOf(n) = << 128 + a, b, c, d >>
    BY <1>2 DEF PrefixOf
  <2> QED
    BY <2>1, <2>2 DEF LengthOf
<1> QED
  BY <1>1, <1>2

(* The buffer the reader unpacks a full word into. *)
LEMMA Unpacked ==
  ASSUME IInv, pc = "packed"
  PROVE  \A n \in 1 .. 5 :
           Buf(n) = IF n = 5 \/ n > Len(str) THEN 0
                    ELSE IF n = 4 /\ str[4] >= 128 THEN str[4] - 128
                    ELSE str[n]
<1>1. Len(str) \in 0 .. 4 /\ \A k \in 1 .. Len(str) : str[k] \in 1 .. 255
  BY TinyString DEF IInv, TypeOK
<1>2. Buf(5) = 0
  BY DEF Buf
<1>3. Buf(4) = IF 4 > Len(str) THEN 0
               ELSE IF str[4] >= 128 THEN str[4] - 128 ELSE str[4]
  <2>1. Buf(4) = Flagged(Packed(0, Len(str))) - 128
    BY DEF Buf, IInv
  <2>2. CASE Len(str) = 4
    <3>1. Packed(0, Len(str)) = str[4]
      BY <2>2 DEF Packed
    <3>2. str[4] \in 1 .. 255
      BY <1>1, <2>2
    <3> QED
      BY <2>1, <2>2, <3>1, <3>2 DEF Flagged
  <2>3. CASE Len(str) # 4
    <3>1. Packed(0, Len(str)) = 0
      BY <1>1, <2>3 DEF Packed
    <3> QED
      BY <1>1, <2>1, <2>3, <3>1 DEF Flagged
  <2> QED
    BY <2>2, <2>3
<1>4. ASSUME NEW n \in 1 .. 3
      PROVE  Buf(n) = IF n > Len(str) THEN 0 ELSE str[n]
  <2>1. Buf(n) = Packed(4 - n, Len(str))
    BY DEF Buf, IInv
  <2> QED
    BY <2>1, <1>1 DEF Packed
<1> QED
  BY <1>1, <1>2, <1>3, <1>4

(* What strlen finds there. *)
LEMMA UnpackedLength ==
  ASSUME IInv, pc = "packed"
  PROVE  StrLen = IF IsMangled(str) /\ str[4] = 128 THEN 3 ELSE Len(str)
<1> DEFINE L == IF IsMangled(str) /\ str[4] = 128 THEN 3 ELSE Len(str)
<1>1. Len(str) \in 0 .. 4 /\ \A k \in 1 .. Len(str) : str[k] \in 1 .. 255
  BY TinyString DEF IInv, TypeOK
<1>a. \A n \in 1 .. 5 :
        Buf(n) = IF n = 5 \/ n > Len(str) THEN 0
                 ELSE IF n = 4 /\ str[4] >= 128 THEN str[4] - 128
                 ELSE str[n]
  BY Unpacked
<1>2. L \in 0 .. 4 /\ Buf(L + 1) = 0
  <2>1. CASE IsMangled(str) /\ str[4] = 128
    BY <1>a, <2>1 DEF IsMangled
  <2>2. CASE ~(IsMangled(str) /\ str[4] = 128)
    <3>1. L = Len(str)
      BY <2>2
    <3> QED
      BY <1>1, <1>a, <3>1
  <2> QED
    BY <2>1, <2>2
<1>3. ASSUME NEW m \in 1 .. L PROVE Buf(m) # 0
  <2>1. m \in 1 .. Len(str) /\ m \in 1 .. 4 /\ str[m] \in 1 .. 255
    BY <1>1, <1>2, <1>3 DEF IsMangled
  <2>2. CASE m = 4 /\ str[4] >= 128
    <3>1. str[4] # 128 /\ Buf(m) = str[4] - 128 /\ str[4] \in 1 .. 255
      BY <1>1, <1>3, <1>a, <2>1, <2>2 DEF IsMangled
    <3>2. \A v \in 1 .. 255 : v # 128 => v - 128 # 0
      OBVIOUS
    <3> QED
      BY <3>1, <3>2
  <2>3. CASE ~(m = 4 /\ str[4] >= 128)
    <3>1. Buf(m) = str[m]
      BY <1>1, <1>a, <2>1, <2>3
    <3>2. \A v \in 1 .. 255 : v # 0
      OBVIOUS
    <3> QED
      BY <2>1, <3>1, <3>2
  <2> QED
    BY <2>2, <2>3
<1>4. \A n \in 1 .. 5 : (Buf(n) = 0 /\ \A m \in 1 .. n - 1 : Buf(m) # 0) => n = L + 1
  BY <1>2, <1>3
<1> HIDE DEF L
<1>5. (CHOOSE n \in 1 .. 5 : Buf(n) = 0 /\ \A m \in 1 .. n - 1 : Buf(m) # 0) = L + 1
  BY <1>2, <1>3, <1>4
<1>6. StrLen = L
  BY <1>5, <1>2 DEF StrLen
<1> QED
  BY <1>6 DEF L

LEMMA InitInv == Init => IInv
<1> SUFFICES ASSUME Init PROVE IInv
  OBVIOUS
<1>1. Len(str) \in 0 .. 4
  BY TinyString DEF Init
<1>2. TypeOK
  BY <1>1 DEF Init, TypeOK, Byte
<1>3. \A k \in 0 .. 3 : chars[k] = Packed(k, i)
  BY <1>1 DEF Init, Packed
<1> QED
  BY <1>2, <1>3 DEF Init, IInv, RoundTrip, LengthSurvives

LEMMA NextInv == IInv /\ [Next]_vars => IInv'
<1> SUFFICES ASSUME IInv, [Next]_vars PROVE IInv'
  OBVIOUS
<1>0. /\ TypeOK /\ Len(str) \in 0 .. 4
      /\ \A k \in 1 .. Len(str) : str[k] \in 1 .. 255
  BY TinyString DEF IInv, TypeOK
<1>1. CASE Pack
  <2>1. Place(i) \in 0 .. 3 /\ i' = i + 1 /\ str[Len(str) - i] \in 1 .. 255
    <3>1. i \in 0 .. Len(str) /\ i < Len(str)
      BY <1>0, <1>1 DEF Pack, TypeOK
    <3>2. Len(str) - i \in 1 .. Len(str) /\ Place(i) \in 0 .. 3
      BY <1>0, <3>1 DEF Place
    <3> QED
      BY <1>0, <1>1, <3>2 DEF Pack
  <2>2. TypeOK'
    <3>1. chars' \in [0 .. 3 -> Byte]
      <4>1. str[Len(str) - i] \in Byte
        BY <2>1 DEF Byte
      <4> QED
        BY <1>0, <1>1, <2>1, <4>1 DEF Pack, TypeOK
    <3>2. i' \in 0 .. Len(str)
      BY <1>0, <1>1, <2>1 DEF Pack, TypeOK
    <3> QED
      BY <1>0, <1>1, <3>1, <3>2 DEF Pack, TypeOK
  <2>3. \A k \in 0 .. 3 : chars'[k] = Packed(k, i)'
    <3> SUFFICES ASSUME NEW k \in 0 .. 3 PROVE chars'[k] = Packed(k, i)'
      OBVIOUS
    <3>1. chars[k] = Packed(k, i) /\ str' = str
      BY <1>1 DEF IInv, Pack
    <3>2. CASE k = Place(i)
      BY <1>0, <1>1, <2>1, <3>1, <3>2 DEF Pack, Place, Packed, TypeOK
    <3>3. CASE k # Place(i)
      <4>1. chars'[k] = chars[k]
        BY <1>0, <1>1, <3>3 DEF Pack, TypeOK
      <4> QED
        BY <1>0, <2>1, <3>1, <3>3, <4>1 DEF Place, Packed, TypeOK
    <3> QED
      BY <3>2, <3>3
  <2> QED
    BY <1>1, <2>2, <2>3 DEF Pack, IInv, RoundTrip, LengthSurvives
<1>2. CASE Flag
  <2>1. chars'[0] = Flagged(chars[0]) /\ \A k \in 1 .. 3 : chars'[k] = chars[k]
    BY <1>0, <1>2 DEF Flag, TypeOK
  <2>2. TypeOK'
    <3>1. Flagged(chars[0]) \in Byte
      <4>1. chars[0] \in 0 .. 255
        BY <1>0 DEF TypeOK, Byte
      <4> QED
        BY <4>1 DEF Byte, Flagged
    <3>2. chars' \in [0 .. 3 -> Byte]
      BY <1>0, <1>2, <3>1 DEF Flag, TypeOK
    <3> QED
      BY <1>0, <1>2, <3>2 DEF Flag, TypeOK
  <2>3. \A k \in 0 .. 3 : chars[k] = Packed(k, Len(str))
    BY <1>2 DEF Flag, IInv
  <2>4. \A k \in 0 .. 3 : Packed(k, Len(str))' = Packed(k, Len(str))
    BY <1>2 DEF Flag, Packed
  <2> QED
    BY <1>2, <2>1, <2>2, <2>3, <2>4 DEF Flag, IInv, RoundTrip, LengthSurvives
<1>3. CASE Unpack
  <2> DEFINE L == IF IsMangled(str) /\ str[4] = 128 THEN 3 ELSE Len(str)
  <2>1. StrLen = L
    BY <1>3, UnpackedLength DEF Unpack
  <2>2. text' = [n \in 1 .. L |-> Buf(n)]
    BY <1>3, <2>1 DEF Unpack
  <2>3. \A n \in 1 .. 5 :
          Buf(n) = IF n = 5 \/ n > Len(str) THEN 0
                   ELSE IF n = 4 /\ str[4] >= 128 THEN str[4] - 128
                   ELSE str[n]
    BY <1>3, Unpacked DEF Unpack
  <2>4. str = [n \in 1 .. Len(str) |-> str[n]]
    BY TinyString DEF IInv, TypeOK
  <2>5. RoundTrip'
    <3>1. CASE ~IsMangled(str)
      BY <1>0, <1>3, <2>2, <2>3, <2>4, <3>1 DEF Unpack, RoundTrip, IsMangled
    <3>2. CASE IsMangled(str) /\ str[4] = 128
      <4>1. text' = [n \in 1 .. 3 |-> str[n]]
        BY <2>2, <2>3, <3>2 DEF IsMangled
      <4>2. SubSeq(str, 1, 3) = [n \in 1 .. 3 |-> str[n]]
        BY <3>2, <2>4 DEF IsMangled
      <4> QED
        BY <1>3, <3>2, <4>1, <4>2 DEF Unpack, RoundTrip
    <3>3. CASE IsMangled(str) /\ str[4] # 128
      <4>1. text' = [n \in 1 .. 4 |-> IF n = 4 THEN str[4] - 128 ELSE str[n]]
        BY <2>2, <2>3, <3>3 DEF IsMangled
      <4>2. [str EXCEPT ![4] = @ - 128]
              = [n \in 1 .. 4 |-> IF n = 4 THEN str[4] - 128 ELSE str[n]]
        BY <2>4, <3>3 DEF IsMangled
      <4> QED
        BY <1>3, <3>3, <4>1, <4>2 DEF Unpack, RoundTrip
    <3> QED
      BY <3>1, <3>2, <3>3
  <2> QED
    BY <1>0, <1>3, <2>5 DEF Unpack, IInv, TypeOK, LengthSurvives
<1>4. CASE WritePrefix
  BY <1>0, <1>4 DEF WritePrefix, IInv, TypeOK, RoundTrip, LengthSurvives
<1>5. CASE ReadPrefix
  <2>1. len \in 0 .. MaxLength
    <3>1. len \in 5 .. MaxLength
      BY <1>0, BytesAssumption DEF BytesAssumption, TypeOK
    <3>2. MaxLength \in Nat
      BY DEF MaxLength, B3, B2, B1
    <3> HIDE DEF MaxLength
    <3> QED
      BY <3>1, <3>2
  <2>2. iov_len' = len
    BY <1>5, <2>1, PrefixRead DEF ReadPrefix, IInv
  <2> QED
    BY <1>0, <1>5, <2>1, <2>2 DEF ReadPrefix, IInv, TypeOK, RoundTrip, LengthSurvives
<1>6. CASE Done
  BY <1>6 DEF Done, vars, IInv, TypeOK, RoundTrip, LengthSurvives, Packed
<1>7. CASE UNCHANGED vars
  BY <1>7 DEF vars, IInv, TypeOK, RoundTrip, LengthSurvives, Packed
<1> QED
  BY <1>1, <1>2, <1>3, <1>4, <1>5, <1>6, <1>7 DEF Next

LEMMA Invariance == Spec => []IInv
  BY InitInv, NextInv, PTL DEF Spec

(* Every string of up to four bytes comes back from its word, but for the  *)
(* top bit of a fourth byte (frf_maker.c 163-172, frf.c 108-121).          *)
THEOREM RoundTripHolds == Spec => []RoundTrip
<1>1. IInv => RoundTrip
  BY DEF IInv
<1> QED
  BY <1>1, Invariance, PTL

(* A packed string is taken for one by the reader, and not for "in the     *)
(* vector".                                                                *)
THEOREM WordIsTinyHolds == Spec => []WordIsTiny
<1>1. IInv => WordIsTiny
  <2> SUFFICES ASSUME IInv, pc = "packed" PROVE chars[0] >= 128
    BY DEF WordIsTiny
  <2>1. Packed(0, Len(str)) \in Byte
    BY TinyString DEF IInv, TypeOK, Packed, Byte
  <2>2. chars[0] = Flagged(Packed(0, Len(str)))
    BY DEF IInv
  <2>3. \A c \in Byte : Flagged(c) >= 128
    BY DEF Flagged, Byte
  <2> QED
    BY <2>1, <2>2, <2>3
<1> QED
  BY <1>1, Invariance, PTL

(* A length below 2^31 comes back from the one or four bytes it is written *)
(* as (frf_maker.c 197-206, frf.c 124-133).                                *)
THEOREM LengthSurvivesHolds == Spec => []LengthSurvives
<1>1. IInv => LengthSurvives
  BY DEF IInv
<1> QED
  BY <1>1, Invariance, PTL
=============================================================================
