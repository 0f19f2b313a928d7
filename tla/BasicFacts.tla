------------------------------ MODULE BasicFacts ------------------------------
(***************************************************************************)
(* What the proofs about both allocators need of numbers, finite sets and  *)
(* sequences.                                                              *)
(***************************************************************************)
EXTENDS Integers, SequencesExt, FiniteSetTheorems, SequenceTheorems,
        WellFoundedInduction, TLAPS

-----------------------------------------------------------------------------
(* Numbers.                                                                *)

LEMMA NatProduct == \A x, y \in Nat : x * y \in Nat
  OBVIOUS

LEMMA LeastNatural ==
    ASSUME NEW T, T \subseteq Nat, T # {}
    PROVE  \E x \in T : \A y \in T : x <= y
<1>1. PICK x \in T : \A y \in T : ~(<<y, x>> \in OpToRel(<, Nat))
  BY NatLessThanWellFounded, WFMin
<1>2. \A y \in T : ~(y < x)
  BY <1>1 DEF OpToRel
<1> QED BY <1>2

LEMMA Division ==
    ASSUME NEW a \in Nat, NEW b \in Nat \ {0}
    PROVE  /\ a \div b \in Nat
           /\ (a \div b) * b <= a
           /\ a < (a \div b + 1) * b
<1>1. PICK q : q = a \div b OBVIOUS
<1>2. q \in Nat
  BY <1>1
<1>3. a = q * b + (a % b) /\ a % b \in 0..(b - 1)
  BY <1>1
<1>4. q * b \in Nat /\ (q + 1) * b = q * b + b
  BY <1>2
<1> QED BY <1>1, <1>2, <1>3, <1>4

LEMMA Multiples ==
    ASSUME NEW p \in Nat, NEW q \in Nat, p < q, NEW b \in Nat
    PROVE  p * b + b <= q * b
<1>1. PICK r \in Nat : q = p + 1 + r
  <2>1. q - p - 1 \in Nat /\ q = p + 1 + (q - p - 1)
    OBVIOUS
  <2> QED BY <2>1
<1>2. r * b \in Nat /\ p * b \in Nat
  BY NatProduct
<1>3. q * b = p * b + b + r * b
  BY <1>1
<1> QED BY <1>2, <1>3

\* An address is on one page.
LEMMA OnOnePage ==
    ASSUME NEW p \in Nat, NEW q \in Nat, NEW b \in Nat, NEW x \in Nat,
           p * b <= x, x < p * b + b, q * b <= x, x < q * b + b
    PROVE  p = q
<1>1. p * b \in Nat /\ q * b \in Nat
  BY NatProduct
<1>2. ~(p < q)
  BY <1>1, Multiples
<1>3. ~(q < p)
  BY <1>1, Multiples
<1> QED BY <1>2, <1>3

LEMMA SamePage ==
    ASSUME NEW p \in Nat, NEW q \in Nat, NEW b \in Nat \ {0}, p * b = q * b
    PROVE  p = q
<1>1. PICK x \in Nat : x = p * b
  BY NatProduct
<1>2. p * b <= x /\ x < p * b + b /\ q * b <= x /\ x < q * b + b
  BY <1>1
<1> QED BY <1>1, <1>2, OnOnePage

LEMMA QuotientOfMultiple ==
    ASSUME NEW p \in Nat, NEW size \in Nat \ {0} PROVE (p * size) \div size = p
<1>1. PICK a \in Nat : a = p * size
  BY NatProduct
<1>2. PICK q \in Nat : q = a \div size /\ q * size <= a /\ a < (q + 1) * size
  BY Division
<1>3. (q + 1) * size = q * size + size
  OBVIOUS
<1>4. q * size \in Nat /\ a < q * size + size
  BY <1>2, <1>3, NatProduct
<1>5. p * size <= a /\ a < p * size + size
  BY <1>1
<1>6. p = q
  BY <1>2, <1>4, <1>5, OnOnePage
<1> QED BY <1>1, <1>2, <1>6

\* Between two multiples lies a whole number of pages.
LEMMA MultiplesApart ==
    ASSUME NEW p \in Nat, NEW q \in Nat, p <= q, NEW size \in Nat \ {0}
    PROVE  /\ (q * size - p * size) \div size = q - p
           /\ (q - p) * size = q * size - p * size
           /\ p * size <= q * size
<1>1. PICK r \in Nat : q = p + r
  <2>1. q - p \in Nat /\ q = p + (q - p)
    OBVIOUS
  <2> QED BY <2>1
<1>2. p * size \in Nat /\ r * size \in Nat
  BY NatProduct
<1>3. q * size = p * size + r * size
  BY <1>1
<1>4. PICK x \in Nat : x = r * size
  BY <1>2
<1>5. PICK k \in Nat : k = x \div size /\ k * size <= x /\ x < (k + 1) * size
  BY Division
<1>6. k * size \in Nat /\ (k + 1) * size = k * size + size
  BY NatProduct
<1>7. r = k
  <2>1. k * size <= x /\ x < k * size + size
    BY <1>5, <1>6
  <2>2. r * size <= x /\ x < r * size + size
    BY <1>4
  <2> QED BY <2>1, <2>2, OnOnePage
<1>8. q * size - p * size = x
  BY <1>2, <1>3, <1>4
<1>9. q - p = r
  BY <1>1
<1> QED BY <1>2, <1>3, <1>4, <1>5, <1>7, <1>8, <1>9

\* p * size is the first multiple of size from a on, q * size the last up to b.
Within(a, b, size, p, q) ==
    /\ p * size \in Nat /\ q * size \in Nat
    /\ p <= q
    /\ (b \div size) * size = q * size
    /\ p * size = IF (a \div size) * size < a
                  THEN (a \div size) * size + size
                  ELSE (a \div size) * size
    /\ a <= p * size /\ p * size < a + size
    /\ q * size <= b /\ b < q * size + size
    /\ p * size <= q * size
    /\ (q - p) * size = q * size - p * size
    /\ (q * size - p * size) \div size = q - p

\* A range of numbers that is as long as size has such multiples.
LEMMA MultiplesBetween ==
    ASSUME NEW a \in Nat, NEW b \in Nat, NEW size \in Nat \ {0}, a + size <= b
    PROVE  \E p, q \in Nat : Within(a, b, size, p, q)
<1>1. PICK q \in Nat : q = b \div size /\ q * size <= b /\ b < (q + 1) * size
  BY Division
<1>2. PICK n \in Nat : n = a \div size /\ n * size <= a /\ a < (n + 1) * size
  BY Division
<1>3. PICK x \in Nat : x = n * size
  BY NatProduct
<1>4. PICK y \in Nat : y = q * size
  BY NatProduct
<1>5. (n + 1) * size = x + size /\ (q + 1) * size = y + size
  BY <1>3, <1>4
<1>6. PICK p \in Nat : p * size = IF x < a THEN x + size ELSE x
  <2>1. CASE x < a
    BY <1>5, <2>1, n + 1 \in Nat
  <2>2. CASE ~(x < a)
    BY <1>3, <2>2
  <2> QED BY <2>1, <2>2
<1>7. PICK z \in Nat : z = p * size
  BY NatProduct
<1>8. a <= z /\ z < a + size
  BY <1>2, <1>3, <1>5, <1>6, <1>7
<1>9. y <= b /\ b < y + size
  BY <1>1, <1>4, <1>5
<1>10. p <= q
  <2>1. SUFFICES ASSUME q < p PROVE FALSE
    OBVIOUS
  <2>2. y + size <= z
    BY <1>4, <1>7, <2>1, Multiples
  <2> QED BY <1>8, <1>9, <2>2
<1>11. /\ (y - z) \div size = q - p
       /\ (q - p) * size = y - z
       /\ z <= y
  BY <1>4, <1>7, <1>10, MultiplesApart
<1>12. Within(a, b, size, p, q)
  BY <1>1, <1>2, <1>3, <1>4, <1>6, <1>7, <1>8, <1>9, <1>10, <1>11 DEF Within
<1> QED BY <1>12

LEMMA SmallRemainder ==
    ASSUME NEW x \in Nat, NEW m \in Nat \ {0}, x < m PROVE x % m = x
  OBVIOUS

LEMMA QuotientAtLeast ==
    ASSUME NEW a \in Nat, NEW b \in Nat \ {0}, NEW k \in Nat, k * b <= a
    PROVE  k <= a \div b
<1>1. PICK q \in Nat : q = a \div b /\ a < (q + 1) * b
  BY Division
<1>2. SUFFICES ASSUME q < k PROVE FALSE
  BY <1>1
<1>3. q + 1 \in Nat /\ (q + 1) * b \in Nat /\ k * b \in Nat
  BY <1>1, NatProduct
<1>4. (q + 1) * b <= k * b
  BY <1>2, <1>3, Multiples
<1> QED BY <1>1, <1>3, <1>4

LEMMA MinFacts ==
    ASSUME NEW S, S \subseteq Nat, S # {}
    PROVE  Min(S) \in S /\ \A x \in S : Min(S) <= x
  BY LeastNatural DEF Min

-----------------------------------------------------------------------------
(* Finite sets.                                                            *)

LEMMA DisjointUnion ==
    ASSUME NEW A, NEW B, IsFiniteSet(A), IsFiniteSet(B), A \cap B = {}
    PROVE  /\ IsFiniteSet(A \cup B)
           /\ Cardinality(A \cup B) = Cardinality(A) + Cardinality(B)
<1>1. PICK c \in Nat : c = Cardinality(A)
  BY FS_CardinalityType
<1>2. PICK d \in Nat : d = Cardinality(B)
  BY FS_CardinalityType
<1>3. Cardinality(A \cap B) = 0
  BY FS_EmptySet
<1>4. IsFiniteSet(A \cup B) /\ Cardinality(A \cup B) = c + d - 0
  BY <1>1, <1>2, <1>3, FS_Union
<1> QED BY <1>1, <1>2, <1>4

-----------------------------------------------------------------------------
(* Families of finite sets, and sums.                                      *)

UnionOf(A, S) == UNION {A[i] : i \in S}
FiniteFamily(A, S) == \A i \in S : IsFiniteSet(A[i])
FamilyApart(A, S) == \A i, j \in S : i # j => A[i] \cap A[j] = {}

LEMMA InUnion ==
    ASSUME NEW A, NEW S, NEW x
    PROVE  x \in UnionOf(A, S) <=> \E i \in S : x \in A[i]
  BY DEF UnionOf

LEMMA FamilyPart ==
    ASSUME NEW A, NEW S, NEW T \in SUBSET S, IsFiniteSet(S),
           FiniteFamily(A, S), FamilyApart(A, S)
    PROVE  IsFiniteSet(T) /\ FiniteFamily(A, T) /\ FamilyApart(A, T)
<1>1. IsFiniteSet(T)
  BY FS_Subset
<1> QED BY <1>1 DEF FiniteFamily, FamilyApart

LEMMA FamilyFinite ==
    ASSUME NEW S, IsFiniteSet(S), NEW A, FiniteFamily(A, S)
    PROVE  IsFiniteSet(UnionOf(A, S))
<1>1. PICK T : T = {A[i] : i \in S} OBVIOUS
<1>2. PICK f : f = [i \in S |-> A[i]] OBVIOUS
<1>3. f \in Surjection(S, T)
  BY <1>1, <1>2 DEF Surjection
<1>4. IsFiniteSet(T)
  BY <1>3, FS_Surjection
<1>5. \A t \in T : IsFiniteSet(t)
  BY <1>1 DEF FiniteFamily
<1> QED BY <1>1, <1>4, <1>5, FS_UNION DEF UnionOf

LEMMA FamilyAdd ==
    ASSUME NEW S, IsFiniteSet(S), NEW A, FiniteFamily(A, S), FamilyApart(A, S),
           NEW x \in S
    PROVE  Cardinality(UnionOf(A, S)) =
              Cardinality(UnionOf(A, S \ {x})) + Cardinality(A[x])
<1>1. PICK T : T = S \ {x} OBVIOUS
<1>2. PICK U : U = UnionOf(A, T) OBVIOUS
<1>3. IsFiniteSet(U)
  BY <1>1, <1>2, FamilyPart, FamilyFinite
<1>4. \A e \in U : \E i \in T : e \in A[i]
  BY <1>2, InUnion
<1>5. U \cap A[x] = {}
  BY <1>1, <1>4 DEF FamilyApart
<1>6. ASSUME NEW e PROVE e \in UnionOf(A, S) <=> e \in U \cup A[x]
  BY <1>1, <1>2, InUnion
<1>7. UnionOf(A, S) = U \cup A[x]
  BY <1>6
<1>8. IsFiniteSet(A[x])
  BY DEF FiniteFamily
<1> QED BY <1>1, <1>2, <1>3, <1>5, <1>7, <1>8, DisjointUnion

LEMMA FamilyEmpty == ASSUME NEW A PROVE Cardinality(UnionOf(A, {})) = 0
<1>1. UnionOf(A, {}) = {}
  BY DEF UnionOf
<1> QED BY <1>1, FS_EmptySet

\* A set that is as small as any with a property.
LEMMA SmallestSubset ==
    ASSUME NEW S, IsFiniteSet(S), NEW C, C \subseteq SUBSET S, C # {}
    PROVE  \E T \in C : \A x \in T : T \ {x} \notin C
<1>1. PICK Sizes : Sizes = {Cardinality(T) : T \in C} OBVIOUS
<1>2. \A T \in C : IsFiniteSet(T) /\ Cardinality(T) \in Nat
  BY FS_Subset, FS_CardinalityType
<1>3. Sizes \subseteq Nat /\ Sizes # {}
  BY <1>1, <1>2
<1>4. PICK n \in Sizes : \A m \in Sizes : n <= m
  BY <1>3, LeastNatural
<1>5. PICK T \in C : Cardinality(T) = n
  BY <1>1, <1>4
<1>6. ASSUME NEW x \in T, T \ {x} \in C PROVE FALSE
  <2>1. Cardinality(T \ {x}) = n - 1
    BY <1>2, <1>5, FS_RemoveElement
  <2>2. n - 1 \in Sizes
    BY <1>1, <1>6, <2>1
  <2> QED BY <1>3, <1>4, <2>2
<1> QED BY <1>5, <1>6

\* Sets of the same sizes have unions of the same size.
LEMMA FamilySize ==
    ASSUME NEW S, IsFiniteSet(S), NEW A, NEW B,
           FiniteFamily(A, S), FamilyApart(A, S),
           FiniteFamily(B, S), FamilyApart(B, S),
           \A i \in S : Cardinality(A[i]) = Cardinality(B[i])
    PROVE  Cardinality(UnionOf(A, S)) = Cardinality(UnionOf(B, S))
<1>1. PICK C : C = {T \in SUBSET S : Cardinality(UnionOf(A, T)) # Cardinality(UnionOf(B, T))}
  OBVIOUS
<1>2. SUFFICES ASSUME C # {} PROVE FALSE
  BY <1>1
<1>3. PICK T \in C : \A x \in T : T \ {x} \notin C
  BY <1>1, <1>2, SmallestSubset
<1>4. T \in SUBSET S /\ Cardinality(UnionOf(A, T)) # Cardinality(UnionOf(B, T))
  BY <1>1, <1>3
<1>5. PICK x \in T : TRUE
  BY <1>4, FamilyEmpty
<1>6. Cardinality(UnionOf(A, T \ {x})) = Cardinality(UnionOf(B, T \ {x}))
  BY <1>1, <1>3, <1>4
<1>7. /\ IsFiniteSet(T) /\ FiniteFamily(A, T) /\ FamilyApart(A, T)
      /\ FiniteFamily(B, T) /\ FamilyApart(B, T)
  BY <1>4, FamilyPart
<1>8. Cardinality(UnionOf(A, T)) = Cardinality(UnionOf(A, T \ {x})) + Cardinality(A[x])
  BY <1>7, FamilyAdd
<1>9. Cardinality(UnionOf(B, T)) = Cardinality(UnionOf(B, T \ {x})) + Cardinality(B[x])
  BY <1>7, FamilyAdd
<1>10. Cardinality(A[x]) = Cardinality(B[x])
  BY <1>4
<1> QED BY <1>4, <1>6, <1>8, <1>9, <1>10

\* The sum of F over S, as the size of a set.
Columns(F) == [i \in DOMAIN F |-> {i} \X (1..F[i])]
Weight(F, S) == Cardinality(UnionOf(Columns(F), S))

LEMMA CountTo ==
    ASSUME NEW c \in Nat PROVE IsFiniteSet(1..c) /\ Cardinality(1..c) = c
<1>1. IsFiniteSet(1..c) /\ Cardinality(1..c) = IF 1 > c THEN 0 ELSE c - 1 + 1
  BY FS_Interval
<1> QED BY <1>1

LEMMA ColumnSize ==
    ASSUME NEW F, NEW i \in DOMAIN F, F[i] \in Nat
    PROVE  IsFiniteSet(Columns(F)[i]) /\ Cardinality(Columns(F)[i]) = F[i]
<1>1. PICK c \in Nat : c = F[i] OBVIOUS
<1>2. PICK N : N = 1..c OBVIOUS
<1>3. IsFiniteSet(N) /\ Cardinality(N) = c
  BY <1>2, CountTo
<1>4. IsFiniteSet({i}) /\ Cardinality({i}) = 1
  BY FS_Singleton
<1>5. IsFiniteSet({i} \X N) /\ Cardinality({i} \X N) = 1 * c
  BY <1>3, <1>4, FS_Product
<1> QED BY <1>1, <1>2, <1>5 DEF Columns

LEMMA ColumnsFamily ==
    ASSUME NEW F, NEW S \in SUBSET DOMAIN F, \A i \in S : F[i] \in Nat
    PROVE  FiniteFamily(Columns(F), S) /\ FamilyApart(Columns(F), S)
<1>1. FiniteFamily(Columns(F), S)
  BY ColumnSize DEF FiniteFamily
<1>2. ASSUME NEW i \in S, NEW j \in S, i # j
      PROVE  Columns(F)[i] \cap Columns(F)[j] = {}
  BY <1>2 DEF Columns
<1> QED BY <1>1, <1>2 DEF FamilyApart

LEMMA WeightFamily ==
    ASSUME NEW F, NEW S \in SUBSET DOMAIN F, IsFiniteSet(S),
           NEW A, FiniteFamily(A, S), FamilyApart(A, S),
           \A i \in S : Cardinality(A[i]) = F[i]
    PROVE  Cardinality(UnionOf(A, S)) = Weight(F, S)
<1>1. \A i \in S : F[i] \in Nat
  BY FS_CardinalityType DEF FiniteFamily
<1>2. FiniteFamily(Columns(F), S) /\ FamilyApart(Columns(F), S)
  BY <1>1, ColumnsFamily
<1>3. \A i \in S : Cardinality(A[i]) = Cardinality(Columns(F)[i])
  BY <1>1, ColumnSize
<1> QED BY <1>2, <1>3, FamilySize DEF Weight

LEMMA WeightAdd ==
    ASSUME NEW F, NEW S \in SUBSET DOMAIN F, IsFiniteSet(S),
           \A i \in S : F[i] \in Nat, NEW x \in S
    PROVE  Weight(F, S) = Weight(F, S \ {x}) + F[x]
<1>1. FiniteFamily(Columns(F), S) /\ FamilyApart(Columns(F), S)
  BY ColumnsFamily
<1>2. Cardinality(Columns(F)[x]) = F[x]
  BY ColumnSize
<1> QED BY <1>1, <1>2, FamilyAdd DEF Weight

LEMMA WeightType ==
    ASSUME NEW F, NEW S \in SUBSET DOMAIN F, IsFiniteSet(S),
           \A i \in S : F[i] \in Nat
    PROVE  Weight(F, S) \in Nat
<1>1. FiniteFamily(Columns(F), S)
  BY ColumnsFamily
<1> QED BY <1>1, FamilyFinite, FS_CardinalityType DEF Weight

LEMMA WeightEmpty == ASSUME NEW F PROVE Weight(F, {}) = 0
  BY FamilyEmpty DEF Weight

LEMMA WeightConstant ==
    ASSUME NEW F, NEW S \in SUBSET DOMAIN F, IsFiniteSet(S), NEW c \in Nat,
           \A i \in S : F[i] = c
    PROVE  Weight(F, S) = Cardinality(S) * c
<1>1. PICK N : N = 1..c OBVIOUS
<1>2. \A i \in S : Columns(F)[i] = {i} \X N
  BY <1>1 DEF Columns
<1>3. ASSUME NEW e PROVE e \in UnionOf(Columns(F), S) <=> e \in S \X N
  BY <1>2, InUnion
<1>4. UnionOf(Columns(F), S) = S \X N
  BY <1>3
<1>5. IsFiniteSet(N) /\ Cardinality(N) = c
  BY <1>1, CountTo
<1>6. Cardinality(S \X N) = Cardinality(S) * Cardinality(N)
  BY <1>5, FS_Product
<1> QED BY <1>4, <1>5, <1>6 DEF Weight

LEMMA WeightOne ==
    ASSUME NEW F, NEW x \in DOMAIN F, F[x] \in Nat
    PROVE  Weight(F, {x}) = F[x]
<1>1. PICK c \in Nat : c = F[x] OBVIOUS
<1>2. IsFiniteSet({x}) /\ Cardinality({x}) = 1
  BY FS_Singleton
<1>3. Weight(F, {x}) = Cardinality({x}) * c
  BY <1>1, <1>2, WeightConstant
<1> QED BY <1>1, <1>2, <1>3

\* What MapThenSumSet computes, element by element.
IsSum(h, F, S) ==
    h = [s \in SUBSET S |->
            IF s = {} THEN 0
            ELSE F[CHOOSE x \in s : TRUE] + h[s \ {CHOOSE x \in s : TRUE}]]

LEMMA SumExists ==
    ASSUME NEW F, NEW S \in SUBSET DOMAIN F, IsFiniteSet(S),
           \A i \in S : F[i] \in Nat
    PROVE  \E h : IsSum(h, F, S)
<1>1. PICK h : h = [s \in SUBSET S |-> Weight(F, s)] OBVIOUS
<1>2. ASSUME NEW s \in SUBSET S
      PROVE  h[s] = IF s = {} THEN 0
                    ELSE F[CHOOSE x \in s : TRUE] + h[s \ {CHOOSE x \in s : TRUE}]
  <2>1. CASE s = {}
    BY <1>1, <2>1, WeightEmpty
  <2>2. CASE s # {}
    <3>1. PICK x \in s : x = CHOOSE y \in s : TRUE
      BY <2>2
    <3>2. IsFiniteSet(s) /\ \A i \in s : F[i] \in Nat
      BY FS_Subset
    <3>3. Weight(F, s) = Weight(F, s \ {x}) + F[x]
      BY <3>2, WeightAdd
    <3>4. Weight(F, s \ {x}) \in Nat
      <4>1. IsFiniteSet(s \ {x}) /\ s \ {x} \in SUBSET DOMAIN F
        BY <3>2, FS_RemoveElement
      <4> QED BY <4>1, WeightType
    <3>5. h[s] = Weight(F, s) /\ h[s \ {x}] = Weight(F, s \ {x}) /\ F[x] \in Nat
      BY <1>1
    <3> QED BY <2>2, <3>1, <3>3, <3>4, <3>5
  <2> QED BY <2>1, <2>2
<1>3. IsSum(h, F, S)
  BY <1>1, <1>2 DEF IsSum
<1> QED BY <1>3

LEMMA SumIsWeight ==
    ASSUME NEW F, NEW S \in SUBSET DOMAIN F, IsFiniteSet(S),
           \A i \in S : F[i] \in Nat, NEW h, IsSum(h, F, S)
    PROVE  h[S] = Weight(F, S)
<1>1. PICK C : C = {T \in SUBSET S : h[T] # Weight(F, T)}
  OBVIOUS
<1>2. SUFFICES ASSUME C # {} PROVE FALSE
  BY <1>1
<1>3. PICK T \in C : \A x \in T : T \ {x} \notin C
  BY <1>1, <1>2, SmallestSubset
<1>4. T \in SUBSET S /\ h[T] # Weight(F, T)
  BY <1>1, <1>3
<1>5. h[T] = IF T = {} THEN 0
             ELSE F[CHOOSE x \in T : TRUE] + h[T \ {CHOOSE x \in T : TRUE}]
  BY <1>4 DEF IsSum
<1>6. PICK x \in T : x = CHOOSE y \in T : TRUE
  BY <1>4, <1>5, WeightEmpty
<1>7. h[T] = F[x] + h[T \ {x}]
  BY <1>5, <1>6
<1>8. h[T \ {x}] = Weight(F, T \ {x})
  BY <1>1, <1>3, <1>4
<1>9. IsFiniteSet(T) /\ \A i \in T : F[i] \in Nat
  BY <1>4, FS_Subset
<1>10. Weight(F, T) = Weight(F, T \ {x}) + F[x]
  BY <1>4, <1>9, WeightAdd
<1>11. Weight(F, T \ {x}) \in Nat /\ F[x] \in Nat
  <2>1. IsFiniteSet(T \ {x}) /\ T \ {x} \in SUBSET DOMAIN F
    BY <1>4, <1>9, FS_RemoveElement
  <2> QED BY <1>9, <2>1, WeightType
<1> QED BY <1>4, <1>7, <1>8, <1>10, <1>11

LEMMA WeightSame ==
    ASSUME NEW F, NEW G, NEW S \in SUBSET DOMAIN F, S \in SUBSET DOMAIN G,
           \A i \in S : F[i] = G[i]
    PROVE  Weight(F, S) = Weight(G, S)
<1>1. \A i \in S : Columns(F)[i] = Columns(G)[i]
  BY DEF Columns
<1>2. ASSUME NEW e PROVE e \in UnionOf(Columns(F), S) <=> e \in UnionOf(Columns(G), S)
  BY <1>1, InUnion
<1>3. UnionOf(Columns(F), S) = UnionOf(Columns(G), S)
  BY <1>2
<1> QED BY <1>3 DEF Weight

LEMMA WeightJoin ==
    ASSUME NEW F, NEW S \in SUBSET DOMAIN F, NEW T \in SUBSET DOMAIN F,
           IsFiniteSet(S), IsFiniteSet(T), S \cap T = {},
           \A i \in S \cup T : F[i] \in Nat
    PROVE  Weight(F, S \cup T) = Weight(F, S) + Weight(F, T)
<1>1. PICK A : A = UnionOf(Columns(F), S) OBVIOUS
<1>2. PICK B : B = UnionOf(Columns(F), T) OBVIOUS
<1>3. FiniteFamily(Columns(F), S) /\ FiniteFamily(Columns(F), T)
  BY ColumnsFamily
<1>4. FamilyApart(Columns(F), S \cup T)
  BY ColumnsFamily
<1>5. IsFiniteSet(A) /\ IsFiniteSet(B)
  BY <1>1, <1>2, <1>3, FamilyFinite
<1>6. A \cap B = {}
  <2> SUFFICES ASSUME NEW e \in A, e \in B PROVE FALSE
    OBVIOUS
  <2>1. PICK i \in S : e \in Columns(F)[i]
    BY <1>1, InUnion
  <2>2. PICK j \in T : e \in Columns(F)[j]
    BY <1>2, InUnion
  <2>3. i # j /\ i \in S \cup T /\ j \in S \cup T
    OBVIOUS
  <2> QED BY <1>4, <2>1, <2>2, <2>3 DEF FamilyApart
<1>7. ASSUME NEW e PROVE e \in UnionOf(Columns(F), S \cup T) <=> e \in A \cup B
  BY <1>1, <1>2, InUnion
<1>8. UnionOf(Columns(F), S \cup T) = A \cup B
  BY <1>7
<1> QED BY <1>1, <1>2, <1>5, <1>6, <1>8, DisjointUnion DEF Weight

\* A sum, summed part by part.
LEMMA WeightOfUnion ==
    ASSUME NEW F, NEW A, NEW G, NEW S \in SUBSET DOMAIN G, IsFiniteSet(S),
           FiniteFamily(A, S), FamilyApart(A, S),
           UnionOf(A, S) \subseteq DOMAIN F,
           \A i \in UnionOf(A, S) : F[i] \in Nat,
           \A i \in S : G[i] = Weight(F, A[i])
    PROVE  Weight(F, UnionOf(A, S)) = Weight(G, S)
<1>1. PICK B : B = [i \in S |-> UnionOf(Columns(F), A[i])] OBVIOUS
<1>2. \A i \in S : A[i] \subseteq UnionOf(A, S)
  BY InUnion
<1>3. FiniteFamily(B, S)
  <2> SUFFICES ASSUME NEW i \in S PROVE IsFiniteSet(B[i])
    BY DEF FiniteFamily
  <2>1. FiniteFamily(Columns(F), A[i]) /\ IsFiniteSet(A[i])
    BY <1>2, ColumnsFamily DEF FiniteFamily
  <2> QED BY <1>1, <2>1, FamilyFinite
<1>4. FamilyApart(B, S)
  <2> SUFFICES ASSUME NEW i \in S, NEW j \in S, i # j,
                      NEW e \in B[i], e \in B[j]
               PROVE  FALSE
    BY DEF FamilyApart
  <2>1. PICK k \in A[i] : e \in Columns(F)[k]
    BY <1>1, InUnion
  <2>2. PICK l \in A[j] : e \in Columns(F)[l]
    BY <1>1, InUnion
  <2>3. k # l /\ k \in UnionOf(A, S) /\ l \in UnionOf(A, S)
    BY <1>2 DEF FamilyApart
  <2>4. FamilyApart(Columns(F), UnionOf(A, S))
    BY ColumnsFamily
  <2> QED BY <2>1, <2>2, <2>3, <2>4 DEF FamilyApart
<1>5. \A i \in S : Cardinality(B[i]) = G[i]
  BY <1>1 DEF Weight
<1>6. ASSUME NEW e
      PROVE  e \in UnionOf(B, S) <=> e \in UnionOf(Columns(F), UnionOf(A, S))
  <2>1. e \in UnionOf(B, S) <=> \E i \in S : e \in UnionOf(Columns(F), A[i])
    BY <1>1, InUnion
  <2>2. \A i : e \in UnionOf(Columns(F), A[i]) <=> \E k \in A[i] : e \in Columns(F)[k]
    BY InUnion
  <2>3. e \in UnionOf(Columns(F), UnionOf(A, S)) <=>
           \E k \in UnionOf(A, S) : e \in Columns(F)[k]
    BY InUnion
  <2>4. \A k : k \in UnionOf(A, S) <=> \E i \in S : k \in A[i]
    BY InUnion
  <2> QED BY <2>1, <2>2, <2>3, <2>4
<1>7. UnionOf(B, S) = UnionOf(Columns(F), UnionOf(A, S))
  BY <1>6
<1>8. Cardinality(UnionOf(B, S)) = Weight(G, S)
  BY <1>3, <1>4, <1>5, WeightFamily
<1> QED BY <1>7, <1>8 DEF Weight

LEMMA WeightPlus ==
    ASSUME NEW F, NEW G, NEW H, NEW S, IsFiniteSet(S),
           S \in SUBSET DOMAIN F, S \in SUBSET DOMAIN G, S \in SUBSET DOMAIN H,
           \A i \in S : F[i] \in Nat /\ G[i] \in Nat /\ H[i] = F[i] + G[i]
    PROVE  Weight(H, S) = Weight(F, S) + Weight(G, S)
<1>1. PICK C : C = {T \in SUBSET S : Weight(H, T) # Weight(F, T) + Weight(G, T)}
  OBVIOUS
<1>2. SUFFICES ASSUME C # {} PROVE FALSE
  BY <1>1
<1>3. PICK T \in C : \A x \in T : T \ {x} \notin C
  BY <1>1, <1>2, SmallestSubset
<1>4. T \in SUBSET S /\ Weight(H, T) # Weight(F, T) + Weight(G, T)
  BY <1>1, <1>3
<1>5. IsFiniteSet(T) /\ T \in SUBSET DOMAIN F /\ T \in SUBSET DOMAIN G
      /\ T \in SUBSET DOMAIN H
  BY <1>4, FS_Subset
<1>6. \A i \in T : F[i] \in Nat /\ G[i] \in Nat /\ H[i] = F[i] + G[i] /\ H[i] \in Nat
  BY <1>4
<1>7. PICK x \in T : TRUE
  BY <1>4, WeightEmpty
<1>8. PICK U : U = T \ {x} OBVIOUS
<1>9. Weight(H, U) = Weight(F, U) + Weight(G, U)
  BY <1>1, <1>3, <1>4, <1>8
<1>10. /\ Weight(F, T) = Weight(F, U) + F[x]
       /\ Weight(G, T) = Weight(G, U) + G[x]
       /\ Weight(H, T) = Weight(H, U) + H[x]
  BY <1>5, <1>6, <1>8, WeightAdd
<1>11. Weight(F, U) \in Nat /\ Weight(G, U) \in Nat
  <2>1. IsFiniteSet(U) /\ U \in SUBSET DOMAIN F /\ U \in SUBSET DOMAIN G
    BY <1>5, <1>8, FS_RemoveElement
  <2>2. \A i \in U : F[i] \in Nat /\ G[i] \in Nat
    BY <1>6, <1>8
  <2> QED BY <2>1, <2>2, WeightType
<1> QED BY <1>4, <1>6, <1>9, <1>10, <1>11

LEMMA WeightMore ==
    ASSUME NEW F, NEW S \in SUBSET DOMAIN F, IsFiniteSet(S), NEW T \in SUBSET S,
           \A i \in S : F[i] \in Nat
    PROVE  Weight(F, T) \in Nat /\ Weight(F, S) \in Nat /\ Weight(F, T) <= Weight(F, S)
<1>1. PICK U : U = S \ T OBVIOUS
<1>2. IsFiniteSet(T) /\ IsFiniteSet(U) /\ S = T \cup U /\ T \cap U = {}
      /\ T \in SUBSET DOMAIN F /\ U \in SUBSET DOMAIN F
  BY <1>1, FS_Subset
<1>3. Weight(F, S) = Weight(F, T) + Weight(F, U)
  BY <1>2, WeightJoin
<1>4. Weight(F, T) \in Nat /\ Weight(F, U) \in Nat
  BY <1>2, WeightType
<1> QED BY <1>3, <1>4

-----------------------------------------------------------------------------
(* Lists as sequences.                                                     *)

LEMMA SeqRange ==
    ASSUME NEW S, NEW s \in Seq(S) PROVE Range(s) \subseteq S
<1>1. \A k \in DOMAIN s : s[k] \in S
  OBVIOUS
<1> QED BY <1>1 DEF Range

LEMMA ConsFacts ==
    ASSUME NEW S, NEW s \in Seq(S), NEW g \in S
    PROVE  /\ <<g>> \o s \in Seq(S)
           /\ Len(<<g>> \o s) = Len(s) + 1
           /\ (<<g>> \o s)[1] = g
           /\ \A k \in 1..Len(s) : (<<g>> \o s)[k + 1] = s[k]
           /\ Range(<<g>> \o s) = Range(s) \cup {g}
<1>1. <<g>> \in Seq(S) /\ Len(<<g>>) = 1 /\ <<g>>[1] = g
  OBVIOUS
<1>2. PICK t \in Seq(S) : t = <<g>> \o s
  BY <1>1, ConcatProperties
<1>3. /\ Len(t) = Len(s) + 1
      /\ t[1] = g
      /\ \A k \in 1..Len(s) : t[k + 1] = s[k]
  BY <1>1, <1>2
<1>4. DOMAIN t = 1..(Len(s) + 1) /\ DOMAIN s = 1..Len(s) /\ Len(s) \in Nat
  BY <1>2, <1>3
<1>5. \A k \in DOMAIN t : t[k] \in Range(s) \cup {g}
  <2> SUFFICES ASSUME NEW k \in DOMAIN t, k # 1 PROVE t[k] \in Range(s)
    BY <1>3
  <2>1. k - 1 \in 1..Len(s) /\ k = (k - 1) + 1
    BY <1>4
  <2> QED BY <1>3, <1>4, <2>1 DEF Range
<1>6. \A k \in DOMAIN s : s[k] \in Range(t)
  BY <1>3, <1>4 DEF Range
<1>7. g \in Range(t)
  BY <1>3, <1>4 DEF Range
<1>8. Range(t) = Range(s) \cup {g}
  BY <1>5, <1>6, <1>7 DEF Range
<1> QED BY <1>2, <1>3, <1>8

LEMMA RemoveAtFacts ==
    ASSUME NEW S, NEW s \in Seq(S), NEW k \in DOMAIN s
    PROVE  /\ RemoveAt(s, k) \in Seq(S)
           /\ Len(RemoveAt(s, k)) = Len(s) - 1
           /\ \A j \in 1..(Len(s) - 1) :
                 RemoveAt(s, k)[j] = IF j < k THEN s[j] ELSE s[j + 1]
<1>1. k \in 1..Len(s) /\ Len(s) \in Nat
  OBVIOUS
<1>2. PICK a : a = SubSeq(s, 1, k - 1) OBVIOUS
<1>3. PICK b : b = SubSeq(s, k + 1, Len(s)) OBVIOUS
<1>4. /\ a \in Seq(S)
      /\ Len(a) = k - 1
      /\ \A j \in 1..(k-1) : a[j] = s[j]
  BY <1>1, <1>2
<1>5. /\ b \in Seq(S)
      /\ Len(b) = Len(s) - k
      /\ \A j \in 1..(Len(s) - k) : b[j] = s[k + j]
  BY <1>1, <1>3
<1>6. PICK t \in Seq(S) : t = a \o b
  BY <1>4, <1>5, ConcatProperties
<1>6a. /\ Len(t) = Len(a) + Len(b)
       /\ \A j \in 1..(Len(a) + Len(b)) :
             t[j] = IF j <= Len(a) THEN a[j] ELSE b[j - Len(a)]
  BY <1>4, <1>5, <1>6, ConcatProperties
<1>7. Len(t) = Len(s) - 1
  BY <1>1, <1>4, <1>5, <1>6a
<1>8. ASSUME NEW j \in 1..(Len(s) - 1)
      PROVE  t[j] = IF j < k THEN s[j] ELSE s[j + 1]
  <2>1. CASE j < k
    BY <1>1, <1>4, <1>5, <1>6a, <2>1, SMTT(30)
  <2>2. CASE ~(j < k)
    <3>1. j - Len(a) \in 1..(Len(s) - k)
      BY <1>1, <1>4, <2>2
    <3>2. t[j] = b[j - Len(a)]
      <4>1. j \in 1..(Len(a) + Len(b)) /\ j > Len(a)
        BY <1>1, <1>4, <1>5, <2>2
      <4> QED BY <1>4, <1>6a, <4>1
    <3>3. b[j - Len(a)] = s[k + (j - Len(a))] /\ k + (j - Len(a)) = j + 1
      <4>1. PICK d \in 1..(Len(s) - k) : d = j - Len(a)
        BY <3>1
      <4>2. b[d] = s[k + d]
        BY <1>5
      <4> QED BY <1>1, <1>4, <4>1, <4>2
    <3> QED BY <2>2, <3>2, <3>3
  <2> QED BY <2>1, <2>2
<1>9. t = RemoveAt(s, k)
  BY <1>2, <1>3, <1>6 DEF RemoveAt
<1> QED BY <1>6, <1>7, <1>8, <1>9

LEMMA RemoveAtRange ==
    ASSUME NEW S, NEW s \in Seq(S), IsInjective(s), NEW k \in DOMAIN s
    PROVE  /\ Range(RemoveAt(s, k)) = Range(s) \ {s[k]}
           /\ IsInjective(RemoveAt(s, k))
<1>1. PICK t : t = RemoveAt(s, k) OBVIOUS
<1>2. /\ t \in Seq(S)
      /\ Len(t) = Len(s) - 1
      /\ \A j \in 1..(Len(s) - 1) : t[j] = IF j < k THEN s[j] ELSE s[j + 1]
  BY <1>1, RemoveAtFacts
<1>3. /\ Len(s) \in Nat /\ DOMAIN s = 1..Len(s) /\ k \in 1..Len(s)
      /\ DOMAIN t = 1..(Len(s) - 1)
  BY <1>2
<1>4. IsInjective(t)
  <2> SUFFICES ASSUME NEW i \in DOMAIN t, NEW j \in DOMAIN t, t[i] = t[j]
               PROVE  i = j
    BY DEF IsInjective
  <2>1. PICK i1 \in DOMAIN s : t[i] = s[i1] /\ i1 = IF i < k THEN i ELSE i + 1
    BY <1>2, <1>3
  <2>2. PICK j1 \in DOMAIN s : t[j] = s[j1] /\ j1 = IF j < k THEN j ELSE j + 1
    BY <1>2, <1>3
  <2>3. i1 = j1
    BY <2>1, <2>2 DEF IsInjective
  <2> QED BY <1>3, <2>1, <2>2, <2>3
<1>5. \A j \in DOMAIN t : t[j] \in Range(s) \ {s[k]}
  <2> SUFFICES ASSUME NEW j \in DOMAIN t PROVE t[j] \in Range(s) \ {s[k]}
    OBVIOUS
  <2>1. PICK j1 \in DOMAIN s : t[j] = s[j1] /\ j1 = IF j < k THEN j ELSE j + 1
    BY <1>2, <1>3
  <2>2. j1 # k
    BY <1>3, <2>1
  <2> QED BY <2>1, <2>2 DEF IsInjective, Range
<1>6. \A j \in DOMAIN s : j # k => s[j] \in Range(t)
  <2> SUFFICES ASSUME NEW j \in DOMAIN s, j # k PROVE s[j] \in Range(t)
    OBVIOUS
  <2>1. CASE j < k
    BY <1>2, <1>3, <2>1 DEF Range
  <2>2. CASE j > k
    <3>1. j - 1 \in DOMAIN t /\ ~(j - 1 < k) /\ (j - 1) + 1 = j
      BY <1>3, <2>2
    <3> QED BY <1>2, <1>3, <3>1 DEF Range
  <2> QED BY <1>3, <2>1, <2>2
<1>7. Range(t) = Range(s) \ {s[k]}
  BY <1>5, <1>6 DEF Range
<1> QED BY <1>1, <1>4, <1>7

LEMMA ConsInjective ==
    ASSUME NEW S, NEW s \in Seq(S), NEW g \in S, IsInjective(s), g \notin Range(s)
    PROVE  IsInjective(<<g>> \o s)
<1>1. PICK t : t = <<g>> \o s OBVIOUS
<1>2. /\ t \in Seq(S) /\ Len(t) = Len(s) + 1 /\ t[1] = g
      /\ \A k \in 1..Len(s) : t[k + 1] = s[k]
  BY <1>1, ConsFacts
<1>3. DOMAIN t = 1..(Len(s) + 1) /\ DOMAIN s = 1..Len(s) /\ Len(s) \in Nat
  BY <1>2
<1>4. ASSUME NEW k \in DOMAIN t, k # 1
      PROVE  k - 1 \in DOMAIN s /\ t[k] = s[k - 1] /\ t[k] # g
  <2>1. k - 1 \in 1..Len(s) /\ k = (k - 1) + 1
    BY <1>3, <1>4
  <2> QED BY <1>2, <1>3, <2>1 DEF Range
<1>5. ASSUME NEW j \in DOMAIN t, NEW k \in DOMAIN t, t[j] = t[k] PROVE j = k
  <2>1. CASE j = 1 \/ k = 1
    BY <1>2, <1>4, <1>5, <2>1
  <2>2. CASE j # 1 /\ k # 1
    <3>1. j - 1 = k - 1
      BY <1>4, <1>5, <2>2 DEF IsInjective
    <3> QED BY <1>3, <3>1
  <2> QED BY <2>1, <2>2
<1> QED BY <1>1, <1>5 DEF IsInjective

LEMMA TailFacts ==
    ASSUME NEW S, NEW s \in Seq(S), Len(s) > 0
    PROVE  /\ Tail(s) \in Seq(S) /\ Len(Tail(s)) = Len(s) - 1
           /\ Head(s) \in Range(s)
           /\ IsInjective(s) => /\ IsInjective(Tail(s))
                                /\ Range(Tail(s)) = Range(s) \ {Head(s)}
<1>1. PICK t : t = Tail(s) OBVIOUS
<1>2. /\ t \in Seq(S) /\ Len(t) = Len(s) - 1
      /\ \A k \in 1..Len(t) : t[k] = s[k + 1]
      /\ Head(s) = s[1]
  BY <1>1
<1>3. DOMAIN t = 1..(Len(s) - 1) /\ DOMAIN s = 1..Len(s) /\ Len(s) \in Nat
  BY <1>2
<1>4. \A k \in DOMAIN t : k + 1 \in DOMAIN s /\ k + 1 # 1 /\ t[k] = s[k + 1]
  BY <1>2, <1>3
<1>5. \A k \in DOMAIN s : k # 1 => k - 1 \in DOMAIN t /\ t[k - 1] = s[k]
  BY <1>2, <1>3
<1>6. 1 \in DOMAIN s /\ Head(s) \in Range(s)
  BY <1>2, <1>3 DEF Range
<1>7. ASSUME IsInjective(s) PROVE IsInjective(t) /\ Range(t) = Range(s) \ {Head(s)}
  <2>1. ASSUME NEW j \in DOMAIN t, NEW k \in DOMAIN t, t[j] = t[k] PROVE j = k
    <3>1. j + 1 = k + 1
      BY <1>4, <1>7, <2>1 DEF IsInjective
    <3> QED BY <1>3, <3>1
  <2>2. \A k \in DOMAIN t : t[k] \in Range(s) \ {s[1]}
    BY <1>4, <1>6, <1>7 DEF IsInjective, Range
  <2>3. \A k \in DOMAIN s : s[k] # s[1] => s[k] \in Range(t)
    BY <1>5 DEF Range
  <2> QED BY <1>2, <2>1, <2>2, <2>3 DEF IsInjective, Range
<1> QED BY <1>1, <1>2, <1>6, <1>7

LEMMA InjectiveRange ==
    ASSUME NEW S, NEW s \in Seq(S), IsInjective(s)
    PROVE  IsFiniteSet(Range(s)) /\ Cardinality(Range(s)) = Len(s)
<1>1. Len(s) \in Nat /\ DOMAIN s = 1..Len(s)
  OBVIOUS
<1>2. s \in Bijection(1..Len(s), Range(s))
  BY <1>1 DEF Bijection, Injection, Surjection, IsInjective, Range
<1>3. ExistsBijection(1..Len(s), Range(s))
  BY <1>2 DEF ExistsBijection
<1>4. IsFiniteSet(1..Len(s))
  BY <1>1, FS_Interval
<1> QED BY <1>1, <1>3, <1>4, FS_Bijection, FS_CountingElements

LEMMA RemoveFirstFacts ==
    ASSUME NEW S, NEW s \in Seq(S), IsInjective(s), NEW e \in Range(s)
    PROVE  /\ RemoveFirst(s, e) \in Seq(S)
           /\ Range(RemoveFirst(s, e)) = Range(s) \ {e}
           /\ IsInjective(RemoveFirst(s, e))
<1>1. DOMAIN s = 1..Len(s) /\ DOMAIN s \subseteq Nat
  OBVIOUS
<1>2. PICK I : I = {i \in 1..Len(s) : s[i] = e} OBVIOUS
<1>3. I # {} /\ I \subseteq Nat /\ \E i \in 1..Len(s) : s[i] = e
  BY <1>1, <1>2 DEF Range
<1>4. Min(I) \in DOMAIN s /\ s[Min(I)] = e
  BY <1>1, <1>2, <1>3, MinFacts
<1>5. RemoveFirst(s, e) = RemoveAt(s, Min(I))
  BY <1>2, <1>3 DEF RemoveFirst, SelectInSeq
<1> QED BY <1>4, <1>5, RemoveAtFacts, RemoveAtRange

\* The inverse of adding in front.
LEMMA RemoveFirstOfCons ==
    ASSUME NEW S, NEW s \in Seq(S), NEW e \in S
    PROVE  RemoveFirst(<<e>> \o s, e) = s
<1>1. PICK t : t = <<e>> \o s OBVIOUS
<1>2. /\ t \in Seq(S) /\ Len(t) = Len(s) + 1 /\ t[1] = e
      /\ \A k \in 1..Len(s) : t[k + 1] = s[k]
  BY <1>1, ConsFacts
<1>3. DOMAIN t = 1..Len(t) /\ 1 \in 1..Len(t) /\ Len(s) \in Nat
  BY <1>2
<1>4. PICK I : I = {i \in 1..Len(t) : t[i] = e} OBVIOUS
<1>5. 1 \in I /\ I \subseteq Nat /\ \A i \in I : 1 <= i
  BY <1>2, <1>3, <1>4
<1>6. Min(I) \in I /\ Min(I) <= 1
  BY <1>5, MinFacts
<1>7. Min(I) = 1
  <2>1. PICK m \in I : m = Min(I) /\ m <= 1
    BY <1>6
  <2>2. m \in Nat /\ 1 <= m
    BY <1>5, <2>1
  <2> QED BY <2>1, <2>2
<1>8. RemoveFirst(t, e) = RemoveAt(t, 1)
  BY <1>2, <1>3, <1>4, <1>5, <1>7 DEF RemoveFirst, SelectInSeq
<1>9. PICK u : u = RemoveAt(t, 1) OBVIOUS
<1>10. /\ u \in Seq(S) /\ Len(u) = Len(s)
       /\ \A j \in 1..Len(s) : u[j] = t[j + 1]
  <2>1. /\ u \in Seq(S) /\ Len(u) = Len(t) - 1
        /\ \A j \in 1..(Len(t) - 1) : u[j] = IF j < 1 THEN t[j] ELSE t[j + 1]
    BY <1>2, <1>3, <1>9, RemoveAtFacts
  <2>2. PICK n \in Nat : n = Len(s) /\ n = Len(t) - 1
    BY <1>2, <1>3
  <2>3. \A j \in 1..n : ~(j < 1) /\ j \in 1..(Len(t) - 1)
    BY <2>2
  <2> QED BY <2>1, <2>2, <2>3
<1>11. u = s
  BY <1>2, <1>10, SeqEqual
<1> QED BY <1>1, <1>8, <1>9, <1>11
=============================================================================
