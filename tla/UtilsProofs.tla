----------------------------- MODULE UtilsProofs -----------------------------
(***************************************************************************)
(* What lib/utils.hpp computes, for words of any width above 32.           *)
(***************************************************************************)
EXTENDS Utils, WellFoundedInduction, TLAPS

-----------------------------------------------------------------------------
(* The lowest and the highest bit of a word.                               *)

LEMMA BitsType == /\ Bits \subseteq Nat
                  /\ \A b \in Bits : b >= 0 /\ b <= Width - 1
                  /\ \A b \in Nat : b < Width => b \in Bits
  BY WidthAssumption DEF Bits

LEMMA LeastExists ==
    ASSUME NEW w \in SUBSET Nat, w # {}
    PROVE  \E b \in w : \A c \in w : b <= c
<1>1. PICK b \in w : \A c \in w : ~ (<<c, b>> \in OpToRel(<, Nat))
  BY WFMin, NatLessThanWellFounded, Zenon
<1>2. \A c \in w : <<c, b>> \in OpToRel(<, Nat) <=> c < b
  BY DEF OpToRel
<1>3. \A c \in w : ~ (c < b)
  BY <1>1, <1>2, Zenon
<1> QED BY <1>3

LEMMA BottomType ==
    ASSUME NEW w \in Word, w # {}
    PROVE  Bottom(w) \in w /\ \A c \in w : Bottom(w) <= c
<1>1. w \in SUBSET Nat
  BY BitsType DEF Word
<1>2. \E b \in w : \A c \in w : b <= c
  BY <1>1, LeastExists
<1> QED BY <1>2, Zenon DEF Bottom

\* The highest bit is the lowest one of the word read backwards.
LEMMA TopType ==
    ASSUME NEW w \in Word, w # {}
    PROVE  Top(w) \in w /\ \A c \in w : c <= Top(w)
<1> DEFINE mirror == {Width - 1 - b : b \in w}
<1>1. w \subseteq Bits
  BY DEF Word
<1>2. mirror \in SUBSET Nat /\ mirror # {}
  <2>1. \A b \in Bits : Width - 1 - b \in Nat
    BY BitsType, WidthAssumption
  <2> QED BY <1>1, <2>1
<1>3. PICK d \in mirror : \A c \in mirror : d <= c
  BY <1>2, LeastExists
<1>4. PICK b \in w : d = Width - 1 - b
  BY <1>3
<1>5. \A c \in w : Width - 1 - c \in mirror
  OBVIOUS
<1> HIDE DEF mirror
<1>6. \A c \in w : c <= b
  BY <1>1, <1>3, <1>4, <1>5, BitsType, WidthAssumption
<1>7. \E a \in w : \A c \in w : c <= a
  BY <1>6
<1> QED BY <1>7, Zenon DEF Top

-----------------------------------------------------------------------------
(* isPowerOf2                                                              *)

\* value & (value - 1) clears the lowest bit.
LEMMA LowestCleared ==
    ASSUME NEW w \in Word, w # {}
    PROVE  w \cap minusOne(w) = w \ {Bottom(w)}
<1>1. w \subseteq Nat
  BY BitsType DEF Word
<1>2. \A c \in w : c \notin 0..(Bottom(w) - 1)
  <2>1. Bottom(w) \in Nat /\ \A c \in w : c \in Nat /\ Bottom(w) <= c
    BY <1>1, BottomType
  <2> QED BY <2>1
<1>3. minusOne(w) = 0..(Bottom(w) - 1) \cup (w \ {Bottom(w)})
  BY DEF minusOne
<1> QED BY <1>2, <1>3, Zenon

LEMMA PowerHasOneBit ==
    ASSUME NEW w \in Word
    PROVE  isPowerOf2(w) <=> \E b \in Bits : w = {b}
<1>1. CASE w = {}
  BY <1>1 DEF isPowerOf2
<1>2. CASE w # {}
  <2>1. isPowerOf2(w) <=> w \ {Bottom(w)} = {}
    BY <1>2, LowestCleared DEF isPowerOf2
  <2>2. Bottom(w) \in w /\ Bottom(w) \in Bits
    BY <1>2, BottomType DEF Word
  <2> QED BY <2>1, <2>2
<1> QED BY <1>1, <1>2

-----------------------------------------------------------------------------
(* roundPowerOf2                                                           *)

\* The word w with every bit repeated at the n - 1 places below it.
filled(w, n) == {b \in Bits : \E k \in 0..(n - 1) : b + k \in w}

\* A shift by n doubles the number of places.
LEMMA SmearDoubles ==
    ASSUME NEW w \in Word, NEW n \in Nat \ {0}
    PROVE  smear(filled(w, n), n) = filled(w, n + n)
<1>1. ASSUME NEW b \in Bits, b \in smear(filled(w, n), n)
      PROVE  b \in filled(w, n + n)
  <2>1. CASE b \in filled(w, n)
    <3>1. PICK k \in 0..(n - 1) : b + k \in w
      BY <2>1 DEF filled
    <3>2. k \in 0..(n + n - 1)
      OBVIOUS
    <3> QED BY <3>1, <3>2 DEF filled
  <2>2. CASE b + n \in filled(w, n)
    <3>1. PICK k \in 0..(n - 1) : (b + n) + k \in w
      BY <2>2 DEF filled
    <3>2. n + k \in 0..(n + n - 1) /\ b + (n + k) \in w
      BY <3>1, BitsType
    <3> QED BY <3>2 DEF filled
  <2> QED BY <1>1, <2>1, <2>2 DEF smear
<1>2. ASSUME NEW b \in Bits, b \in filled(w, n + n)
      PROVE  b \in smear(filled(w, n), n)
  <2>1. PICK k \in 0..(n + n - 1) : b + k \in w
    BY <1>2 DEF filled
  <2>2. CASE k < n
    <3>1. k \in 0..(n - 1)
      BY <2>2
    <3> QED BY <2>1, <3>1 DEF filled, smear
  <2>3. CASE k >= n
    <3>1. k - n \in 0..(n - 1) /\ (b + n) + (k - n) \in w
      BY <2>1, <2>3, BitsType
    <3>2. b + k \in Bits /\ b + n \in Nat /\ b + n <= b + k
      BY <2>1, <2>3, BitsType DEF Word
    <3>3. b + n \in Bits
      BY <3>2, BitsType, WidthAssumption
    <3> QED BY <3>1, <3>3 DEF filled, smear
  <2> QED BY <2>2, <2>3
<1>3. smear(filled(w, n), n) \subseteq Bits /\ filled(w, n + n) \subseteq Bits
  BY DEF smear, filled
<1> QED BY <1>1, <1>2, <1>3, Zenon

\* The five shifts of roundPowerOf2 reach 31 places down.
LEMMA SmearReach ==
    ASSUME NEW w \in Word PROVE smearAll(w) = filled(w, 32)
<1>1. filled(w, 1) = w
  <2>1. \A b \in Bits : b + 0 = b
    BY BitsType
  <2>2. 0..(1 - 1) = {0}
    OBVIOUS
  <2> QED BY <2>1, <2>2 DEF filled, Word
<1>2. smear(filled(w, 1), 1) = filled(w, 2)
  BY SmearDoubles, 1 + 1 = 2
<1>3. smear(filled(w, 2), 2) = filled(w, 4)
  BY SmearDoubles, 2 + 2 = 4
<1>4. smear(filled(w, 4), 4) = filled(w, 8)
  BY SmearDoubles, 4 + 4 = 8
<1>5. smear(filled(w, 8), 8) = filled(w, 16)
  BY SmearDoubles, 8 + 8 = 16
<1>6. smear(filled(w, 16), 16) = filled(w, 32)
  BY SmearDoubles, 16 + 16 = 32
<1> QED BY <1>1, <1>2, <1>3, <1>4, <1>5, <1>6, Zenon DEF smearAll

LEMMA FilledBelow ==
    ASSUME NEW w \in Word, w # {}, Top(w) <= 31
    PROVE  filled(w, 32) = 0..Top(w)
<1> DEFINE t == Top(w)
<1>1. t \in w /\ \A c \in w : c <= t
  BY TopType
<1>2. w \subseteq Bits /\ t \in Bits
  BY <1>1 DEF Word
<1> HIDE DEF t
<1>3. ASSUME NEW b \in Bits, b \in filled(w, 32) PROVE b \in 0..t
  <2>1. PICK k \in 0..(32 - 1) : b + k \in w
    BY <1>3, Zenon DEF filled
  <2> QED BY <1>1, <1>2, <2>1, BitsType
<1>4. ASSUME NEW b \in 0..t PROVE b \in filled(w, 32)
  <2>1. t <= 31
    BY DEF t
  <2>2. b \in Bits /\ t - b \in 0..31 /\ b + (t - b) \in w
    BY <1>1, <1>2, <2>1, BitsType, WidthAssumption
  <2> QED BY <2>2 DEF filled
<1>5. filled(w, 32) \subseteq Bits
  BY DEF filled
<1>6. filled(w, 32) = 0..t
  BY <1>3, <1>4, <1>5, Zenon
<1> QED BY <1>6 DEF t

\* The carry runs through all ones to the place above them.
LEMMA CarryRuns ==
    ASSUME NEW t \in Nat, t + 1 \in Bits
    PROVE  plusOne(0..t) = {t + 1}
<1> DEFINE zeros == Bits \ (0..t)
<1>1. zeros \in Word /\ t + 1 \in zeros
  BY DEF Word
<1>2. Bottom(zeros) \in zeros /\ Bottom(zeros) <= t + 1
  BY <1>1, BottomType
<1>3. Bottom(zeros) = t + 1
  <2>1. Bottom(zeros) \in Nat /\ Bottom(zeros) \notin 0..t
    BY <1>2, BitsType
  <2> HIDE DEF zeros
  <2> QED BY <1>2, <2>1
<1>4. {b \in 0..t : b > t + 1} = {}
  OBVIOUS
<1> HIDE DEF zeros
<1>5. zeros # {}
  BY <1>1
<1>6. plusOne(0..t) = IF zeros = {} THEN {}
                      ELSE {Bottom(zeros)} \cup {b \in 0..t : b > Bottom(zeros)}
  BY DEF plusOne, zeros
<1> QED BY <1>3, <1>4, <1>5, <1>6

LEMMA ZeroPlusOne == plusOne({}) = {0}
<1>1. Bits \in Word /\ 0 \in Bits
  BY WidthAssumption DEF Word, Bits
<1>2. Bottom(Bits) \in Bits /\ Bottom(Bits) <= 0
  BY <1>1, BottomType
<1>3. Bottom(Bits) = 0
  <2>1. Bottom(Bits) \in Nat
    BY <1>2, BitsType
  <2> QED BY <1>2, <2>1
<1>4. Bits \ {} = Bits /\ Bits # {} /\ {b \in {} : b > Bottom(Bits)} = {}
  BY <1>1
<1> QED BY <1>3, <1>4 DEF plusOne

\* A value of which no more than the lowest 33 bits are used, and the highest
\* of these only by 2^32 itself.
LEMMA UpTo32 ==
    ASSUME NEW v \in Word, AtMost(v, {32})
    PROVE  /\ \A c \in v : c <= 32
           /\ 32 \in v => v = {32}
<1>1. v \subseteq Nat
  BY BitsType DEF Word
<1>2. v = {32} \/ (32 \notin v /\ \A c \in v : c < 32)
  BY DEF AtMost, Less
<1> QED BY <1>1, <1>2

\* roundPowerOf2 once the value less 1 is known.
LEMMA RoundedFrom ==
    ASSUME NEW v \in Word, NEW t \in 0..31,
           minusOne(v) \in Word, t \in minusOne(v),
           \A c \in minusOne(v) : c <= t
    PROVE  roundPowerOf2(v) = {t + 1}
<1> DEFINE u == minusOne(v)
<1>1. u \in Word /\ u # {} /\ Top(u) \in u /\ t <= Top(u) /\ Top(u) <= t
  BY TopType
<1>2. u \subseteq Nat
  BY BitsType, <1>1 DEF Word
<1> HIDE DEF u
<1>3. Top(u) = t
  <2>1. Top(u) \in Nat
    BY <1>1, <1>2
  <2> QED BY <1>1, <2>1
<1>4. smearAll(u) = 0..t
  BY <1>1, <1>3, SmearReach, FilledBelow
<1>5. t + 1 \in Bits
  BY BitsType, WidthAssumption
<1>6. plusOne(0..t) = {t + 1}
  BY <1>5, CarryRuns
<1> QED BY <1>4, <1>6 DEF roundPowerOf2, u

LEMMA RoundsCorrectly ==
    ASSUME NEW v \in Word, v # {}, AtMost(v, {32})
    PROVE  \E b \in Bits : roundPowerOf2(v) = {b} /\ RoundsTo(b, v)
<1> DEFINE m == Bottom(v)
           t == Top(v)
<1>1. /\ m \in v /\ t \in v
      /\ \A c \in v : c \in Nat /\ m <= c /\ c <= t /\ c <= 32
      /\ 32 \in v => v = {32}
  BY BottomType, TopType, UpTo32, BitsType DEF Word
<1>2. minusOne(v) = 0..(m - 1) \cup (v \ {m})
  BY DEF minusOne
<1> HIDE DEF m, t
<1>3. minusOne(v) \in Word
  <2>1. v \subseteq Bits /\ m \in Bits /\ 0..(m - 1) \subseteq Bits
    BY <1>1, BitsType, WidthAssumption DEF Word
  <2> QED BY <1>2, <2>1 DEF Word
<1>4. CASE v = {0}
  <2>1. m = 0 /\ 0 \in Bits
    BY <1>1, <1>4, BitsType, WidthAssumption
  <2>2. minusOne(v) = {}
    BY <1>2, <1>4, <2>1
  <2>3. smearAll({}) = {}
    <3>1. {} \in Word /\ filled({}, 32) = {}
      BY DEF Word, filled
    <3> QED BY <3>1, SmearReach
  <2>4. roundPowerOf2(v) = {0}
    BY <2>2, <2>3, ZeroPlusOne DEF roundPowerOf2
  <2>5. RoundsTo(0, v)
    BY <1>4 DEF RoundsTo, AtMost
  <2> QED BY <2>1, <2>4, <2>5
<1>5. CASE v = {m} /\ m # 0
  <2>1. m \in 1..32 /\ m - 1 \in 0..31
    BY <1>1, <1>5
  <2>2. minusOne(v) = 0..(m - 1)
    BY <1>2, <1>5
  <2>3. m - 1 \in minusOne(v) /\ \A c \in minusOne(v) : c <= m - 1
    BY <2>1, <2>2
  <2>4. roundPowerOf2(v) = {(m - 1) + 1}
    BY <1>3, <2>1, <2>3, RoundedFrom
  <2>5. m \in Bits
    BY <1>1 DEF Word
  <2>6. RoundsTo(m, v)
    <3>1. AtMost(v, {m})
      BY <1>5 DEF AtMost
    <3>2. ASSUME NEW c \in 0..(m - 1) PROVE Less({c}, v)
      <4>1. m \in v \ {c} /\ \A d \in {c} \ v : d < m
        BY <1>1, <2>1
      <4> QED BY <4>1 DEF Less
    <3> QED BY <3>1, <3>2 DEF RoundsTo
  <2>7. (m - 1) + 1 = m
    BY <2>1
  <2> QED BY <2>4, <2>5, <2>6, <2>7
<1>6. CASE v # {m}
  <2>1. m # t /\ m < t
    BY <1>1, <1>6
  <2>2. t \in 0..31
    <3>1. 32 \notin v
      BY <1>1, <1>6
    <3> QED BY <1>1, <3>1
  <2>3. t \in minusOne(v)
    BY <1>1, <1>2, <2>1
  <2>4. \A c \in minusOne(v) : c <= t
    BY <1>1, <1>2, <2>1
  <2>5. roundPowerOf2(v) = {t + 1}
    BY <1>3, <2>2, <2>3, <2>4, RoundedFrom
  <2>6. t + 1 \in Bits
    BY <2>2, BitsType, WidthAssumption
  <2>7. RoundsTo(t + 1, v)
    <3>1. AtMost(v, {t + 1})
      <4>1. t + 1 \notin v /\ \A c \in v \ {t + 1} : c < t + 1
        BY <1>1, <2>2
      <4> QED BY <4>1 DEF AtMost, Less
    <3>2. ASSUME NEW c \in 0..t PROVE Less({c}, v)
      <4>1. CASE c < t
        <5>1. t \in v \ {c} /\ \A d \in {c} \ v : d < t
          BY <1>1, <2>2, <4>1
        <5> QED BY <5>1 DEF Less
      <4>2. CASE c = t
        <5>1. m \in v \ {c} /\ {c} \ v = {}
          BY <1>1, <2>1, <4>2
        <5> QED BY <5>1 DEF Less
      <4> QED BY <2>2, <4>1, <4>2
    <3>3. 0..((t + 1) - 1) = 0..t
      BY <2>2
    <3> QED BY <3>1, <3>2, <3>3 DEF RoundsTo
  <2> QED BY <2>5, <2>6, <2>7
<1>7. v = {m} /\ m = 0 => v = {0}
  OBVIOUS
<1> QED BY <1>4, <1>5, <1>6, <1>7

-----------------------------------------------------------------------------
(* Chunks and pages.                                                       *)

\* A power of 2 is at most w if w has that bit or a higher one.
LEMMA PowerAtMost ==
    ASSUME NEW w \in Word, NEW b \in Bits
    PROVE  AtMost({b}, w) <=> \E c \in w : c >= b
<1>1. w \subseteq Nat /\ b \in Nat
  BY BitsType DEF Word
<1>2. ASSUME AtMost({b}, w) PROVE \E c \in w : c >= b
  <2>1. CASE b \in w
    BY <1>1, <2>1
  <2>2. CASE b \notin w
    <3>1. PICK x \in w : \A c \in {b} \ w : c < x
      BY <1>2, <2>2 DEF AtMost, Less
    <3>2. b < x
      BY <2>2, <3>1
    <3> QED BY <1>1, <3>2
  <2> QED BY <2>1, <2>2
<1>3. ASSUME NEW c \in w, c >= b PROVE AtMost({b}, w)
  <2>1. CASE w = {b}
    BY <2>1 DEF AtMost
  <2>2. CASE b \in w /\ w # {b}
    <3>1. PICK x \in w : x # b
      BY <2>2
    <3>2. x \in w \ {b} /\ \A d \in {b} \ w : d < x
      BY <2>2, <3>1
    <3> QED BY <3>2 DEF AtMost, Less
  <2>3. CASE b \notin w
    <3>1. c \in w \ {b} /\ \A d \in {b} \ w : d < c
      BY <1>1, <1>3, <2>3
    <3> QED BY <3>1 DEF AtMost, Less
  <2> QED BY <2>1, <2>2, <2>3
<1> QED BY <1>2, <1>3

\* A word without the bit b or a higher one is less than 2^b, and the other
\* way round.
LEMMA LessThanPower ==
    ASSUME NEW w \in Word, NEW b \in Bits
    PROVE  Less(w, {b}) <=> \A c \in w : c < b
<1>1. w \subseteq Nat /\ b \in Nat
  BY BitsType DEF Word
<1> QED BY <1>1 DEF Less

LEMMA TopOfPower == ASSUME NEW b \in Bits PROVE Top({b}) = b
<1>1. {b} \in Word /\ {b} # {}
  BY DEF Word
<1> QED BY <1>1, TopType

LEMMA SizesType ==
    /\ MinimalBit \in 4..31 /\ MinimalBit \in Bits
    /\ \A b \in 0..32 : b \in Bits
    /\ \A page \in PageSizes : \E p \in (MinimalBit + 1)..32 : page = {p} /\ p \in Bits
<1>1. \A b \in 0..32 : b \in Bits
  BY WidthAssumption DEF Bits
<1>2. MinimalBit \in 4..31
  BY WordsAssumption
<1>3. ASSUME NEW page \in PageSizes
      PROVE  \E p \in (MinimalBit + 1)..32 : page = {p} /\ p \in Bits
  <2>1. PICK p \in (MinimalBit + 1)..32 : page = {p}
    BY WordsAssumption
  <2>2. p \in 0..32
    BY <1>2
  <2> QED BY <1>1, <2>1, <2>2
<1> QED BY <1>1, <1>2, <1>3

\* The chunk of a size below 2^32: the argument of roundPowerOf2 is in its
\* reach, and the result is large enough.
LEMMA ChunkOfSmall ==
    ASSUME NEW v \in Word, v # {}, \A c \in v : c < 32
    PROVE  \E b \in Bits :
              /\ chunkSize(v) = {b}
              /\ MinimalBit <= b
              /\ AtMost(v, {b})
              /\ \A c \in MinimalBit..(b - 1) : Less({c}, v)
<1> DEFINE raised == larger(v, {MinimalBit})
<1>1. raised \in Word /\ raised # {} /\ \A c \in raised : c < 32
  BY SizesType DEF larger, Word
<1>2. AtMost(raised, {32})
  <2>1. 32 \in Bits
    BY SizesType
  <2> HIDE DEF raised
  <2> QED BY <1>1, <2>1, LessThanPower DEF AtMost
<1>3. PICK b \in Bits : roundPowerOf2(raised) = {b} /\ RoundsTo(b, raised)
  BY <1>1, <1>2, RoundsCorrectly
<1>4. chunkSize(v) = {b}
  BY <1>3 DEF chunkSize
<1>5. b \in Nat /\ MinimalBit \in Nat /\ v \subseteq Nat
  BY SizesType, BitsType DEF Word
<1>6. CASE Less(v, {MinimalBit})
  <2>1. raised = {MinimalBit}
    BY <1>6 DEF larger
  <2>2. AtMost({MinimalBit}, {b})
    BY <1>3, <2>1 DEF RoundsTo
  <2>3. MinimalBit <= b
    <3>1. {b} \in Word
      BY DEF Word
    <3> QED BY <1>5, <2>2, <3>1, PowerAtMost, SizesType
  <2>4. \A c \in v : c < MinimalBit
    BY <1>6, LessThanPower, SizesType
  <2>5. AtMost(v, {b})
    <3>1. \A c \in v : c < b
      BY <1>5, <2>3, <2>4
    <3> QED BY <3>1, LessThanPower DEF AtMost
  <2>6. ~ (MinimalBit < b)
    <3>1. SUFFICES ASSUME MinimalBit < b PROVE FALSE
      OBVIOUS
    <3>2. Less({MinimalBit}, {MinimalBit})
      BY <1>3, <1>5, <2>1, <3>1 DEF RoundsTo
    <3> QED BY <3>2 DEF Less
  <2>7. MinimalBit..(b - 1) = {}
    BY <1>5, <2>6
  <2> QED BY <1>4, <2>3, <2>5, <2>7
<1>7. CASE ~ Less(v, {MinimalBit})
  <2>1. raised = v
    BY <1>7 DEF larger
  <2>2. AtMost(v, {b}) /\ \A c \in 0..(b - 1) : Less({c}, v)
    BY <1>3, <2>1 DEF RoundsTo
  <2>3. PICK c \in v : ~ (c < MinimalBit)
    BY <1>7, LessThanPower, SizesType
  <2>4. \A d \in v : d <= b
    <3>1. CASE v = {b}
      BY <1>5, <3>1
    <3>2. CASE Less(v, {b})
      BY <1>5, <3>2, LessThanPower
    <3> QED BY <2>2, <3>1, <3>2 DEF AtMost
  <2>5. MinimalBit <= b
    BY <1>5, <2>3, <2>4
  <2>6. MinimalBit..(b - 1) \subseteq 0..(b - 1)
    BY <1>5
  <2> QED BY <1>4, <2>2, <2>5, <2>6
<1> QED BY <1>6, <1>7

\* allocate turns to the zones only for sizes up to half a page.
LEMMA ZoneChunk ==
    ASSUME NEW v \in Word, v # {}, NEW p \in (MinimalBit + 1)..32,
           ~ isForPages(v, {p})
    PROVE  \E b \in MinimalBit..(p - 1) : chunkSize(v) = {b} /\ AtMost(v, {b})
<1>1. p \in Bits /\ p \in Nat /\ p <= 32 /\ v \subseteq Nat
  BY SizesType, BitsType DEF Word
<1>2. ~ AtMost({p}, v) /\ ~ AtMost({p}, chunkSize(v))
  BY DEF isForPages
<1>3. \A c \in v : c < p
  BY <1>1, <1>2, PowerAtMost
<1>4. \A c \in v : c < 32
  BY <1>1, <1>3
<1>5. PICK b \in Bits :
         chunkSize(v) = {b} /\ MinimalBit <= b /\ AtMost(v, {b})
  BY <1>4, ChunkOfSmall
<1>6. b \in Nat /\ {b} \in Word
  BY BitsType DEF Word
<1>7. b < p
  BY <1>1, <1>2, <1>5, <1>6, PowerAtMost
<1>8. b \in MinimalBit..(p - 1)
  BY <1>1, <1>5, <1>6, <1>7, SizesType
<1> QED BY <1>5, <1>8

LEMMA HalfPage ==
    ASSUME NEW v \in Word, v # {}, NEW p \in (MinimalBit + 1)..32
    PROVE  isForPages(v, {p}) <=> Less({p - 1}, v)
<1>1. /\ p \in Bits /\ p \in Nat /\ p <= 32 /\ v \subseteq Nat
      /\ p - 1 \in Nat /\ MinimalBit <= p - 1
  BY SizesType, BitsType DEF Word
<1>2. ASSUME ~ isForPages(v, {p}), Less({p - 1}, v) PROVE FALSE
  <2>1. PICK b \in MinimalBit..(p - 1) : chunkSize(v) = {b} /\ AtMost(v, {b})
    BY <1>2, ZoneChunk
  <2>2. b \in Bits /\ b \in Nat /\ b <= p - 1
    BY <1>1, <2>1, SizesType
  <2>3. PICK x \in v \ {p - 1} : \A c \in {p - 1} \ v : c < x
    BY <1>2 DEF Less
  <2>4. CASE v = {b}
    BY <1>1, <2>2, <2>3, <2>4
  <2>5. CASE Less(v, {b})
    BY <1>1, <2>2, <2>3, <2>5, LessThanPower
  <2> QED BY <2>1, <2>4, <2>5 DEF AtMost
<1>3. ASSUME AtMost({p}, v) PROVE Less({p - 1}, v)
  <2>1. PICK c \in v : c >= p
    BY <1>1, <1>3, PowerAtMost
  <2>2. c \in v \ {p - 1} /\ \A d \in {p - 1} \ v : d < c
    BY <1>1, <2>1
  <2> QED BY <2>2 DEF Less
<1>4. ASSUME ~ AtMost({p}, v), AtMost({p}, chunkSize(v)) PROVE Less({p - 1}, v)
  <2>1. \A c \in v : c < p
    BY <1>1, <1>4, PowerAtMost
  <2>2. \A c \in v : c < 32
    BY <1>1, <2>1
  <2>3. PICK b \in Bits : /\ chunkSize(v) = {b}
                          /\ \A c \in MinimalBit..(b - 1) : Less({c}, v)
    BY <2>2, ChunkOfSmall
  <2>4. b \in Nat /\ {b} \in Word
    BY BitsType DEF Word
  <2>5. b >= p
    BY <1>1, <1>4, <2>3, <2>4, PowerAtMost
  <2>6. p - 1 \in MinimalBit..(b - 1)
    BY <1>1, <2>4, <2>5, SizesType
  <2> QED BY <2>3, <2>6
<1> QED BY <1>2, <1>3, <1>4 DEF isForPages

-----------------------------------------------------------------------------
(* The specification.                                                      *)

\* What an answer has to do with the size and the page size.
AnswerInv ==
    /\ size \in Word
    /\ pageSize \in PageSizes
    /\ answer.call = "isPowerOf2" => answer.result = isPowerOf2(size)
    /\ answer.call = "roundPowerOf2" => answer.result = roundPowerOf2(size)
    /\ answer.call \in {"pages", "zone"} =>
          /\ size # {}
          /\ answer.call = "pages" <=> isForPages(size, pageSize)
    /\ answer.call = "zone" =>
          answer.result = chunkSize(size) /\ answer.idx = zoneIdx(chunkSize(size))

LEMMA AnswerInitial == Init => AnswerInv
  BY WordsAssumption DEF Init, AnswerInv, Answer

LEMMA AnswerStep == AnswerInv /\ [Next]_vars => AnswerInv'
<1> SUFFICES ASSUME AnswerInv, [Next]_vars PROVE AnswerInv'
  OBVIOUS
<1>1. CASE Check
  BY <1>1 DEF Check, Answer, AnswerInv
<1>2. CASE Round
  BY <1>2 DEF Round, Answer, AnswerInv
<1>3. CASE ServeByPages
  BY <1>3 DEF ServeByPages, Answer, AnswerInv
<1>4. CASE ServeByZone
  BY <1>4 DEF ServeByZone, AnswerInv
<1>5. CASE UNCHANGED vars
  BY <1>5 DEF vars, AnswerInv
<1> QED BY <1>1, <1>2, <1>3, <1>4, <1>5 DEF Next

LEMMA AnswerCorrect == Spec => []AnswerInv
  BY AnswerInitial, AnswerStep, PTL DEF Spec

\* isPowerOf2 (utils.hpp:44) says yes for exactly the words with a single
\* bit, of any width.
THEOREM PowersCorrect == Spec => []PowersRecognized
<1>1. AnswerInv => PowersRecognized
  <2> SUFFICES ASSUME AnswerInv, answer.call = "isPowerOf2"
               PROVE  answer.result <=> \E b \in Bits : size = {b}
    BY DEF PowersRecognized
  <2>1. answer.result = isPowerOf2(size)
    BY DEF AnswerInv
  <2>2. isPowerOf2(size) <=> \E b \in Bits : size = {b}
    BY PowerHasOneBit DEF AnswerInv
  <2> QED BY <2>1, <2>2
<1> QED BY <1>1, AnswerCorrect, PTL

\* roundPowerOf2 (utils.hpp:52) returns the least power of 2 that is not
\* below its argument, for every argument up to 2^32 and words of any width.
THEOREM RoundingCorrect == Spec => []RoundsUp
<1>1. AnswerInv => RoundsUp
  <2> SUFFICES ASSUME AnswerInv, answer.call = "roundPowerOf2",
                      size # {}, AtMost(size, {32})
               PROVE  \E b \in Bits : answer.result = {b} /\ RoundsTo(b, size)
    BY DEF RoundsUp
  <2>1. answer.result = roundPowerOf2(size)
    BY DEF AnswerInv
  <2>2. \E b \in Bits : roundPowerOf2(size) = {b} /\ RoundsTo(b, size)
    BY RoundsCorrectly DEF AnswerInv
  <2> QED BY <2>1, <2>2
<1> QED BY <1>1, AnswerCorrect, PTL

\* allocate (ZoneAllocator.cpp:81) serves a size by whole pages exactly if it
\* is more than half a page, for words of any width.
THEOREM PagesCorrect == Spec => []PagesForLargeSizes
<1>1. AnswerInv => PagesForLargeSizes
  <2> SUFFICES ASSUME AnswerInv, answer.call \in {"pages", "zone"}
               PROVE  answer.call = "pages" <=> Less({Top(pageSize) - 1}, size)
    BY DEF PagesForLargeSizes
  <2>1. size \in Word /\ size # {} /\ (answer.call = "pages" <=> isForPages(size, pageSize))
    BY DEF AnswerInv
  <2>2. PICK p \in (MinimalBit + 1)..32 : pageSize = {p} /\ p \in Bits
    BY SizesType DEF AnswerInv
  <2>3. Top(pageSize) = p
    BY <2>2, TopOfPower
  <2>4. isForPages(size, {p}) <=> Less({p - 1}, size)
    BY <2>1, HalfPage
  <2> QED BY <2>1, <2>2, <2>3, <2>4
<1> QED BY <1>1, AnswerCorrect, PTL

\* Any other size gets a chunk that holds it and divides the page, and in pages
\* up to 4096 bytes an entry of m_zones.
THEOREM ChunksCorrect == Spec => []ChunkFits
<1>1. AnswerInv => ChunkFits
  <2> SUFFICES ASSUME AnswerInv, answer.call = "zone"
               PROVE  \E b \in MinimalBit..(Top(pageSize) - 1) :
                         /\ answer.result = {b}
                         /\ AtMost(size, {b})
                         /\ Top(pageSize) <= 12 => answer.idx \in 0..(MaxZoneIdx - 1)
    BY DEF ChunkFits
  <2>1. /\ size \in Word /\ size # {} /\ ~ isForPages(size, pageSize)
        /\ answer.result = chunkSize(size) /\ answer.idx = zoneIdx(chunkSize(size))
    BY DEF AnswerInv
  <2>2. PICK p \in (MinimalBit + 1)..32 : pageSize = {p} /\ p \in Bits
    BY SizesType DEF AnswerInv
  <2>3. Top(pageSize) = p
    BY <2>2, TopOfPower
  <2>4. PICK b \in MinimalBit..(p - 1) : chunkSize(size) = {b} /\ AtMost(size, {b})
    BY <2>1, <2>2, ZoneChunk
  <2>5. b \in 4..(p - 1) /\ b \in Bits
    BY <2>2, <2>4, SizesType
  <2>6. zoneIdx({b}) = b - 4
    BY <2>5, TopOfPower DEF zoneIdx
  <2>7. p <= 12 => b - 4 \in 0..(MaxZoneIdx - 1)
    BY <2>2, <2>5, WordsAssumption
  <2> QED BY <2>1, <2>3, <2>4, <2>6, <2>7
<1> QED BY <1>1, AnswerCorrect, PTL
=============================================================================
