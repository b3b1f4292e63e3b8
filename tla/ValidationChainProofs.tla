------------------------ MODULE ValidationChainProofs ------------------------
(***************************************************************************)
(* Theorems about the perceptual hash and the five validators, for every   *)
(* size of the hash, every file and every threshold.                       *)
(***************************************************************************)
EXTENDS ValidationChain, FiniteSetTheorems, WellFoundedInduction, TLAPS

-----------------------------------------------------------------------------
(* Bits and digits.                                                        *)

LEMMA DigitsFill == Keep * Keep \in Nat /\ Digits \in Nat \ {0} /\ Keep * Keep = 4 * Digits
<1>1. PICK n \in Nat : n = Keep * Keep /\ n > 0 /\ n % 4 = 0
  BY HashAssumption DEF HashAssumption
<1>2. Digits = n \div 4  BY <1>1 DEF Digits
<1>3. n = 4 * (n \div 4) /\ n \div 4 \in Nat  BY <1>1
<1>4. QED  BY <1>1, <1>2, <1>3

(* The position of bit k of digit d; the most significant bit comes first. *)
PositionOf(d, k) == 4 * (d - 1) + (4 - k)

LEMMA PositionType ==
    ASSUME NEW d \in 1..Digits, NEW k \in 0..3
    PROVE  PositionOf(d, k) \in Positions
  BY DigitsFill DEF PositionOf, Positions

LEMMA PositionInjective ==
    ASSUME NEW d \in Int, NEW e \in Int, NEW k \in 0..3, NEW l \in 0..3,
           PositionOf(d, k) = PositionOf(e, l)
    PROVE  d = e /\ k = l
  BY DEF PositionOf

LEMMA FourBits ==
    ASSUME NEW b3 \in {0, 1}, NEW b2 \in {0, 1}, NEW b1 \in {0, 1}, NEW b0 \in {0, 1},
           NEW digit, digit = 8 * b3 + 4 * b2 + 2 * b1 + b0
    PROVE  /\ BitOf(digit, 3) = b3 /\ BitOf(digit, 2) = b2
           /\ BitOf(digit, 1) = b1 /\ BitOf(digit, 0) = b0
<1>1. 2^3 = 8 /\ 2^2 = 4 /\ 2^1 = 2 /\ 2^0 = 1  OBVIOUS
<1>2. QED  BY <1>1 DEF BitOf

(* A bit of the hash is set where the coefficient lies above the median.   *)
LEMMA HashBit ==
    ASSUME NEW x, NEW d \in 1..Digits, NEW k \in 0..3
    PROVE  BitOf(Hash(x)[d], k) = IF PositionOf(d, k) \in Above(x) THEN 1 ELSE 0
<1> PICK median : median = Median(x)  OBVIOUS
<1> DEFINE bit(n) == Bit(x, median, 4 * (d - 1) + n)
<1>1. Hash(x)[d] = 8 * bit(1) + 4 * bit(2) + 2 * bit(3) + bit(4)
  BY DEF Hash
<1>2. \A n \in 1..4 : bit(n) \in {0, 1}  BY DEF Bit
<1>3. \A n \in 1..4 : bit(n) = IF 4 * (d - 1) + n \in Above(x) THEN 1 ELSE 0
  <2> TAKE n \in 1..4
  <2>1. 4 * (d - 1) + n \in Positions  BY DigitsFill DEF Positions
  <2>2. QED  BY <2>1 DEF Bit, Above, Coefficients, Positions
<1>4. BitOf(Hash(x)[d], k) = bit(4 - k)
  <2> HIDE DEF bit
  <2>1. bit(1) \in {0, 1} /\ bit(2) \in {0, 1} /\ bit(3) \in {0, 1} /\ bit(4) \in {0, 1}
    BY <1>2
  <2>2. /\ BitOf(Hash(x)[d], 3) = bit(1) /\ BitOf(Hash(x)[d], 2) = bit(2)
        /\ BitOf(Hash(x)[d], 1) = bit(3) /\ BitOf(Hash(x)[d], 0) = bit(4)
    BY <1>1, <2>1, FourBits
  <2>3. k = 0 \/ k = 1 \/ k = 2 \/ k = 3  OBVIOUS
  <2>4. 4 - 0 = 4 /\ 4 - 1 = 3 /\ 4 - 2 = 2 /\ 4 - 3 = 1  OBVIOUS
  <2>5. QED  BY <2>2, <2>3, <2>4
<1>5. 4 - k \in 1..4  OBVIOUS
<1>6. QED  BY <1>3, <1>4, <1>5 DEF PositionOf

-----------------------------------------------------------------------------
(* The distance of two hashes.                                             *)

(* The differing positions that fall into digit d, and into a set of       *)
(* digits.                                                                 *)
Group(d) == (4 * (d - 1) + 1)..(4 * d)
DifferingInDigit(x, y, d) == DifferingBits(x, y) \cap Group(d)
DifferingIn(x, y, s) == {p \in DifferingBits(x, y) : \E d \in s : p \in Group(d)}

LEMMA DifferingFinite ==
    ASSUME NEW x, NEW y
    PROVE  /\ DifferingBits(x, y) \subseteq Positions
           /\ IsFiniteSet(DifferingBits(x, y))
<1>1. IsFiniteSet(Positions)  BY DigitsFill, FS_Interval DEF Positions
<1>2. DifferingBits(x, y) \subseteq Positions  BY DEF DifferingBits, Above, Coefficients
<1>3. QED  BY <1>1, <1>2, FS_Subset

LEMMA DigitDistanceCounts ==
    ASSUME NEW x, NEW y, NEW d \in 1..Digits
    PROVE  DigitDistance(Hash(x)[d], Hash(y)[d]) = Cardinality(DifferingInDigit(x, y, d))
<1> DEFINE K == {k \in 0..3 : BitOf(Hash(x)[d], k) # BitOf(Hash(y)[d], k)}
           T == DifferingInDigit(x, y, d)
           f == [k \in K |-> PositionOf(d, k)]
<1>1. \A k \in 0..3 : k \in K <=> PositionOf(d, k) \in DifferingBits(x, y)
  <2> TAKE k \in 0..3
  <2>1. BitOf(Hash(x)[d], k) = IF PositionOf(d, k) \in Above(x) THEN 1 ELSE 0  BY HashBit
  <2>2. BitOf(Hash(y)[d], k) = IF PositionOf(d, k) \in Above(y) THEN 1 ELSE 0  BY HashBit
  <2>3. QED  BY <2>1, <2>2 DEF DifferingBits
<1>2. \A k \in 0..3 : PositionOf(d, k) \in Group(d)  BY DEF PositionOf, Group
<1>3. f \in [K -> T]  BY <1>1, <1>2 DEF DifferingInDigit
<1>4. \A k, l \in K : f[k] = f[l] => k = l  BY DEF PositionOf
<1>5. ASSUME NEW p \in T PROVE \E k \in K : f[k] = p
  <2>1. p \in Group(d) /\ p \in DifferingBits(x, y)  BY DEF DifferingInDigit
  <2>2. 4 * d - p \in 0..3 /\ PositionOf(d, 4 * d - p) = p  BY <2>1 DEF Group, PositionOf
  <2>3. 4 * d - p \in K  BY <1>1, <2>1, <2>2
  <2>4. QED  BY <2>2, <2>3
<1>6. f \in Bijection(K, T)
  BY <1>3, <1>4, <1>5 DEF Bijection, Injection, Surjection, IsInjective
<1>7. IsFiniteSet(K)
  <2>1. IsFiniteSet(0..3)
    <3>1. \A m, n \in Int : IsFiniteSet(m..n)  BY FS_Interval
    <3>2. 0 \in Int /\ 3 \in Int  OBVIOUS
    <3>3. QED  BY <3>1, <3>2, Zenon
  <2>2. K \in SUBSET (0..3)  OBVIOUS
  <2>3. QED  BY <2>1, <2>2, FS_Subset
<1>8. Cardinality(T) = Cardinality(K)
  BY <1>6, <1>7, FS_Bijection DEF ExistsBijection
<1>9. QED  BY <1>8 DEF DigitDistance

(* A digit more adds its own differing positions.                          *)
LEMMA DifferingSplits ==
    ASSUME NEW x, NEW y, NEW s \in SUBSET (1..Digits), NEW d \in s
    PROVE  Cardinality(DifferingIn(x, y, s))
              = Cardinality(DifferingInDigit(x, y, d)) + Cardinality(DifferingIn(x, y, s \ {d}))
<1> DEFINE A == DifferingInDigit(x, y, d)
           B == DifferingIn(x, y, s \ {d})
<1>1. IsFiniteSet(A) /\ IsFiniteSet(B)
  <2>1. A \subseteq DifferingBits(x, y) /\ B \subseteq DifferingBits(x, y)
    BY DEF DifferingInDigit, DifferingIn
  <2>2. QED  BY <2>1, DifferingFinite, FS_Subset
<1>2. DifferingIn(x, y, s) = A \cup B  BY DEF DifferingIn, DifferingInDigit
<1>3. A \cap B = {}
  <2>1. \A e \in s \ {d} : Group(d) \cap Group(e) = {}
    <3> TAKE e \in s \ {d}
    <3>1. d \in Int /\ e \in Int /\ (d < e \/ e < d)  OBVIOUS
    <3>2. QED  BY <3>1 DEF Group
  <2>2. QED  BY <2>1 DEF DifferingIn, DifferingInDigit
<1>4. Cardinality(A) \in Nat /\ Cardinality(B) \in Nat  BY <1>1, FS_CardinalityType
<1>5. Cardinality(A \cup B) = Cardinality(A) + Cardinality(B) - Cardinality(A \cap B)
  BY <1>1, FS_Union
<1>6. Cardinality(A \cap B) = 0  BY <1>3, FS_EmptySet
<1> HIDE DEF A, B
<1>7. Cardinality(A \cup B) = Cardinality(A) + Cardinality(B)  BY <1>4, <1>5, <1>6
<1>8. QED  BY <1>2, <1>7 DEF A, B

(* h adds up f over the subsets of U, which it takes apart in the order    *)
(* pick says.                                                              *)
Picks(U, pick) == \A s \in SUBSET U : s # {} => pick[s] \in s
AddsUp(U, pick, f, h) ==
    \A s \in SUBSET U : h[s] = IF s = {} THEN 0 ELSE f[pick[s]] + h[s \ {pick[s]}]

(* There is one such sum: of the sets at which two differ, a smallest one  *)
(* would have to be larger than another.                                   *)
LEMMA SumUnique ==
    ASSUME NEW U, IsFiniteSet(U), NEW pick, NEW f, NEW g, NEW iter,
           Picks(U, pick), AddsUp(U, pick, f, iter), AddsUp(U, pick, f, g)
    PROVE  iter[U] = g[U]
<1> DEFINE T == {s \in SUBSET U : iter[s] # g[s]}
           R == StrictSubsetOrdering(U)
<1>1. SUFFICES ASSUME T # {} PROVE FALSE  OBVIOUS
<1>2. IsWellFoundedOn(R, SUBSET U)
  <2>1. FiniteSubsetsOf(U) = SUBSET U  BY FS_FiniteSubsetsOfFinite
  <2>2. IsWellFoundedOn(R, FiniteSubsetsOf(U))  BY FS_StrictSubsetOrderingWellFounded
  <2>3. QED  BY <2>1, <2>2, Zenon
<1>3. PICK s \in T : \A t \in T : <<t, s>> \notin R
  <2>1. T \subseteq SUBSET U  OBVIOUS
  <2> HIDE DEF T, R
  <2>2. QED  BY <1>1, <1>2, <2>1, WFMin
<1>4. s # {}  BY DEF AddsUp
<1>5. s \ {pick[s]} \in SUBSET U /\ <<s \ {pick[s]}, s>> \in R
  BY <1>4 DEF StrictSubsetOrdering, Picks
<1>6. iter[s \ {pick[s]}] = g[s \ {pick[s]}]  BY <1>3, <1>5
<1>7. iter[s] = g[s]  BY <1>4, <1>6 DEF AddsUp
<1>8. QED  BY <1>7

(* hammingDistance adds up, digit by digit, the positions at which two     *)
(* images lie on different sides of their medians: packing into hex digits *)
(* loses and doubles none, whatever the size of the hash (phash.ts:90-105).*)
THEOREM HammingCountsPositions ==
    ASSUME NEW x, NEW y
    PROVE  HammingDistance(Hash(x), Hash(y)) = Cardinality(DifferingBits(x, y))
<1> DEFINE U == 1..Digits
           f == [d \in U |-> DigitDistance(Hash(x)[d], Hash(y)[d])]
           pick == [s \in SUBSET U |-> CHOOSE d \in s : TRUE]
           g == [s \in SUBSET U |-> Cardinality(DifferingIn(x, y, s))]
           iter == CHOOSE h : h = [s \in SUBSET U |->
                      IF s = {} THEN 0
                      ELSE DigitDistance(Hash(x)[CHOOSE d \in s : TRUE], Hash(y)[CHOOSE d \in s : TRUE])
                           + h[s \ {CHOOSE d \in s : TRUE}]]
<1>1. HammingDistance(Hash(x), Hash(y)) = iter[U]
  BY Zenon DEF HammingDistance, MapThenSumSet, MapThenFoldSet
<1>2. IsFiniteSet(U)  BY DigitsFill, FS_Interval
<1>3. Picks(U, pick)  BY DEF Picks
<1>4. AddsUp(U, pick, f, g)
  <2> SUFFICES \A s \in SUBSET U : g[s] = IF s = {} THEN 0 ELSE f[pick[s]] + g[s \ {pick[s]}]
    BY DEF AddsUp
  <2> TAKE s \in SUBSET U
  <2>1. CASE s = {}
    <3>1. DifferingIn(x, y, s) = {}  BY <2>1 DEF DifferingIn
    <3>2. QED  BY <2>1, <3>1, FS_EmptySet
  <2>2. CASE s # {}
    <3>1. pick[s] \in s  BY <1>3, <2>2 DEF Picks
    <3>2. f[pick[s]] = Cardinality(DifferingInDigit(x, y, pick[s]))
      BY <3>1, DigitDistanceCounts
    <3>3. Cardinality(DifferingIn(x, y, s))
             = Cardinality(DifferingInDigit(x, y, pick[s]))
               + Cardinality(DifferingIn(x, y, s \ {pick[s]}))
      <4> HIDE DEF pick
      <4>1. QED  BY <3>1, DifferingSplits
    <3>4. g[s] = Cardinality(DifferingIn(x, y, s))
      <4> HIDE DEF pick, f, iter
      <4>1. QED  OBVIOUS
    <3>5. g[s \ {pick[s]}] = Cardinality(DifferingIn(x, y, s \ {pick[s]}))
      <4> HIDE DEF pick, f, iter
      <4>1. QED  OBVIOUS
    <3> HIDE DEF pick, f, g, iter
    <3>6. QED  BY <2>2, <3>2, <3>3, <3>4, <3>5
  <2>3. QED  BY <2>1, <2>2
<1>5. g = [s \in SUBSET U |->
             IF s = {} THEN 0
             ELSE DigitDistance(Hash(x)[CHOOSE d \in s : TRUE], Hash(y)[CHOOSE d \in s : TRUE])
                  + g[s \ {CHOOSE d \in s : TRUE}]]
  <2>1. \A s \in SUBSET U : g[s] =
           IF s = {} THEN 0
           ELSE DigitDistance(Hash(x)[CHOOSE d \in s : TRUE], Hash(y)[CHOOSE d \in s : TRUE])
                + g[s \ {CHOOSE d \in s : TRUE}]
    BY <1>3, <1>4 DEF Picks, AddsUp
  <2>2. g = [s \in SUBSET U |-> g[s]]  OBVIOUS
  <2> HIDE DEF g
  <2>3. QED  BY <2>1, <2>2, Zenon
<1>6. iter = [s \in SUBSET U |->
                IF s = {} THEN 0
                ELSE DigitDistance(Hash(x)[CHOOSE d \in s : TRUE], Hash(y)[CHOOSE d \in s : TRUE])
                     + iter[s \ {CHOOSE d \in s : TRUE}]]
  <2> HIDE DEF g
  <2>1. QED  BY <1>5, Zenon
<1>7. AddsUp(U, pick, f, iter)
  <2> HIDE DEF iter
  <2>1. QED  BY <1>3, <1>6 DEF Picks, AddsUp
<1>8. iter[U] = g[U]
  <2> HIDE DEF iter, g, f, pick, U
  <2>1. QED  BY <1>2, <1>3, <1>4, <1>7, SumUnique
<1>9. DifferingIn(x, y, U) = DifferingBits(x, y)
  <2>1. ASSUME NEW p \in Positions PROVE \E d \in U : p \in Group(d)
    <3>1. p \in 1..(4 * Digits) /\ Digits \in Nat  BY DigitsFill DEF Positions
    <3>2. PICK d \in Int : d = (p + 3) \div 4  BY <3>1
    <3>3. d \in U /\ p \in Group(d)  BY <3>1, <3>2 DEF Group
    <3>4. QED  BY <3>3
  <2>2. QED  BY <2>1, DifferingFinite DEF DifferingIn
<1>10. QED  BY <1>1, <1>8, <1>9

-----------------------------------------------------------------------------
(* The median.                                                             *)

(* q is not after p in ascending order.                                    *)
NotAfter(block, p) ==
    {q \in Coefficients : block[q] < block[p] \/ (block[q] = block[p] /\ q <= p)}

LEMMA CoefficientsCounted ==
    IsFiniteSet(Coefficients) /\ Cardinality(Coefficients) = 4 * Digits - 1
<1>1. Coefficients = 2..(4 * Digits)  BY DigitsFill DEF Coefficients, Positions
<1>2. QED  BY <1>1, DigitsFill, FS_Interval

LEMMA NotAfterFinite ==
    ASSUME NEW block, NEW p
    PROVE  /\ IsFiniteSet(NotAfter(block, p)) /\ Cardinality(NotAfter(block, p)) \in Nat
           /\ Cardinality(NotAfter(block, p)) <= 4 * Digits - 1
<1>1. NotAfter(block, p) \in SUBSET Coefficients  BY DEF NotAfter
<1>2. QED  BY <1>1, CoefficientsCounted, FS_Subset, FS_CardinalityType

(* Of two coefficients the later has the higher place.                     *)
LEMMA PlacesGrow ==
    ASSUME NEW block \in [Positions -> Int], NEW p \in Coefficients, NEW q \in Coefficients,
           block[p] < block[q] \/ (block[p] = block[q] /\ p < q)
    PROVE  Cardinality(NotAfter(block, p)) < Cardinality(NotAfter(block, q))
<1>1. /\ p \in Int /\ q \in Int /\ block[p] \in Int /\ block[q] \in Int
      /\ \A r \in Coefficients : r \in Int /\ block[r] \in Int
  BY DigitsFill DEF Coefficients, Positions
<1>2. NotAfter(block, p) \in SUBSET NotAfter(block, q)
  <2> SUFFICES ASSUME NEW r \in NotAfter(block, p) PROVE r \in NotAfter(block, q)
    OBVIOUS
  <2>1. r \in Coefficients /\ (block[r] < block[p] \/ (block[r] = block[p] /\ r <= p))
    BY DEF NotAfter
  <2>2. block[r] < block[q] \/ (block[r] = block[q] /\ r <= q)  BY <1>1, <2>1
  <2>3. QED  BY <2>1, <2>2 DEF NotAfter
<1>3. q \in NotAfter(block, q) /\ q \notin NotAfter(block, p)  BY <1>1 DEF NotAfter
<1>4. NotAfter(block, p) # NotAfter(block, q)  BY <1>3
<1>5. /\ Cardinality(NotAfter(block, p)) <= Cardinality(NotAfter(block, q))
      /\ Cardinality(NotAfter(block, p)) # Cardinality(NotAfter(block, q))
  BY <1>2, <1>4, NotAfterFinite, FS_Subset
<1>6. QED  BY <1>5, NotAfterFinite

(* Each place is taken once.                                               *)
LEMMA PlacesFill ==
    ASSUME NEW block \in [Positions -> Int], NEW place,
           place = [p \in Coefficients |-> Cardinality(NotAfter(block, p))]
    PROVE  /\ place \in [Coefficients -> 1..(4 * Digits - 1)]
           /\ \A p, q \in Coefficients : place[p] = place[q] => p = q
           /\ \A n \in 1..(4 * Digits - 1) : \E p \in Coefficients : place[p] = n
<1> DEFINE N == 4 * Digits - 1
<1>0. N \in Nat  BY DigitsFill
<1>1. \A p \in Coefficients : p \in Int /\ block[p] \in Int
  BY DigitsFill DEF Coefficients, Positions
<1>2. ASSUME NEW p \in Coefficients PROVE place[p] \in 1..N
  <2>1. p \in NotAfter(block, p)  BY <1>1 DEF NotAfter
  <2>2. Cardinality(NotAfter(block, p)) # 0  BY <2>1, NotAfterFinite, FS_EmptySet
  <2>3. QED  BY <1>0, <2>2, NotAfterFinite
<1>3. place \in [Coefficients -> 1..N]  BY <1>2
<1>4. ASSUME NEW p \in Coefficients, NEW q \in Coefficients, p # q PROVE place[p] # place[q]
  <2>1. \/ block[p] < block[q] \/ (block[p] = block[q] /\ p < q)
        \/ block[q] < block[p] \/ (block[q] = block[p] /\ q < p)
    BY <1>1, <1>4
  <2>2. place[p] < place[q] \/ place[q] < place[p]  BY <2>1, PlacesGrow
  <2>3. place[p] \in Int /\ place[q] \in Int  BY <1>2
  <2>4. QED  BY <2>2, <2>3
<1>5. place \in Injection(Coefficients, 1..N)  BY <1>3, <1>4 DEF Injection, IsInjective
<1>6. IsFiniteSet(1..N) /\ Cardinality(1..N) = N  BY <1>0, FS_Interval
<1>7. place \in Surjection(Coefficients, 1..N)
  <2>1. Cardinality(Coefficients) = Cardinality(1..N)  BY <1>6, CoefficientsCounted
  <2> HIDE DEF N
  <2>2. QED  BY <1>5, <1>6, <2>1, FS_Injection
<1>8. QED  BY <1>3, <1>4, <1>7 DEF Surjection

(* Fewer than half of the coefficients lie strictly above the median.      *)
LEMMA AboveCounted ==
    ASSUME NEW block \in [Positions -> Int]
    PROVE  /\ IsFiniteSet(Above(block)) /\ Cardinality(Above(block)) \in Nat
           /\ 2 * Cardinality(Above(block)) < Keep * Keep
<1> DEFINE place == [p \in Coefficients |-> Cardinality(NotAfter(block, p))]
<1>1. /\ place \in [Coefficients -> 1..(4 * Digits - 1)]
      /\ \A p, q \in Coefficients : place[p] = place[q] => p = q
      /\ \A n \in 1..(4 * Digits - 1) : \E p \in Coefficients : place[p] = n
  <2> HIDE DEF place
  <2>1. QED  BY PlacesFill DEF place
<1> DEFINE m == (Keep * Keep - 1) \div 2 + 1
<1>2. m = 2 * Digits /\ m \in 1..(4 * Digits - 1) /\ m \in 1..(Keep * Keep - 1)
  <2>1. PICK n \in Nat : n = Keep * Keep /\ n = 4 * Digits /\ Digits \in Nat \ {0}
    BY DigitsFill
  <2>2. (n - 1) \div 2 + 1 = 2 * Digits  BY <2>1
  <2>3. QED  BY <2>1, <2>2
<1>3. PICK p \in Coefficients : place[p] = m /\ p = CHOOSE q \in Coefficients : place[q] = m
  BY <1>1, <1>2
<1>4. Median(block) = block[p]
  <2>1. Sorted(block) = [n \in 1..(Keep * Keep - 1) |->
                            block[CHOOSE q \in Coefficients : place[q] = n]]
    BY Zenon DEF Sorted, NotAfter
  <2> HIDE DEF m, place
  <2>2. Sorted(block)[m] = block[p]  BY <1>2, <1>3, <2>1
  <2>3. QED  BY <2>2 DEF Median, m
<1> DEFINE T == (2 * Digits + 1)..(4 * Digits - 1)
           f == [q \in Above(block) |-> place[q]]
<1>5. ASSUME NEW q \in Above(block) PROVE q \in Coefficients /\ place[q] \in T
  <2>1. q \in Coefficients /\ block[q] > block[p]  BY <1>4 DEF Above
  <2>2. block[p] \in Int /\ block[q] \in Int  BY <2>1 DEF Coefficients
  <2>3. place[p] < place[q]  BY <2>1, <2>2, PlacesGrow
  <2>4. place[q] \in 1..(4 * Digits - 1)  BY <1>1, <2>1
  <2>5. QED  BY <1>2, <1>3, <2>1, <2>3, <2>4, DigitsFill
<1>6. f \in Injection(Above(block), T)  BY <1>1, <1>5 DEF Injection, IsInjective
<1>7. IsFiniteSet(T) /\ Cardinality(T) = 2 * Digits - 1
  <2>1. PICK a \in Int, b \in Int :
           a = 2 * Digits + 1 /\ b = 4 * Digits - 1 /\ a <= b /\ b - a + 1 = 2 * Digits - 1
    BY DigitsFill
  <2>2. IsFiniteSet(a..b) /\ Cardinality(a..b) = b - a + 1  BY <2>1, FS_Interval
  <2>3. QED  BY <2>1, <2>2
<1>8. IsFiniteSet(Above(block)) /\ Cardinality(Above(block)) <= Cardinality(T)
  <2> HIDE DEF f, T
  <2>1. QED  BY <1>6, <1>7, FS_Injection
<1>9. Cardinality(Above(block)) \in Nat  BY <1>8, FS_CardinalityType
<1>10. QED  BY <1>7, <1>8, <1>9, DigitsFill

(* Fewer than half of the bits of a hash are set (phash.ts:73-87), for     *)
(* every size of the hash and also when coefficients are equal.            *)
THEOREM FewerThanHalf ==
    ASSUME NEW block \in [Positions -> Int]
    PROVE  LET hash == Hash(block)
               ones == {n \in (1..Len(hash)) \X (0..3) : BitOf(hash[n[1]], n[2]) = 1}
           IN  2 * Cardinality(ones) < Keep * Keep
<1> DEFINE hash == Hash(block)
           ones == {n \in (1..Len(hash)) \X (0..3) : BitOf(hash[n[1]], n[2]) = 1}
           f == [n \in ones |-> PositionOf(n[1], n[2])]
<1>1. Len(hash) = Digits  BY DigitsFill DEF Hash
<1>2. ASSUME NEW n \in ones
      PROVE  n[1] \in 1..Digits /\ n[2] \in 0..3 /\ PositionOf(n[1], n[2]) \in Above(block)
  <2>1. n[1] \in 1..Digits /\ n[2] \in 0..3 /\ BitOf(hash[n[1]], n[2]) = 1  BY <1>1
  <2>2. BitOf(hash[n[1]], n[2]) = IF PositionOf(n[1], n[2]) \in Above(block) THEN 1 ELSE 0
    BY <2>1, HashBit
  <2>3. QED  BY <2>1, <2>2
<1>3. ASSUME NEW n \in ones, NEW o \in ones, f[n] = f[o] PROVE n = o
  <2>1. n[1] = o[1] /\ n[2] = o[2]
    <3>1. PositionOf(n[1], n[2]) = PositionOf(o[1], o[2])  BY <1>3
    <3>2. /\ n[1] \in Int /\ o[1] \in Int /\ n[2] \in 0..3 /\ o[2] \in 0..3
      BY <1>2, DigitsFill
    <3> HIDE DEF ones, f
    <3>3. QED  BY <3>1, <3>2, PositionInjective
  <2>2. n = <<n[1], n[2]>> /\ o = <<o[1], o[2]>>  OBVIOUS
  <2>3. QED  BY <2>1, <2>2
<1>4. f \in Injection(ones, Above(block))  BY <1>2, <1>3 DEF Injection, IsInjective
<1>5. IsFiniteSet(ones) /\ Cardinality(ones) <= Cardinality(Above(block))
  <2> HIDE DEF f, ones
  <2>1. QED  BY <1>4, AboveCounted, FS_Injection
<1>6. Cardinality(ones) \in Nat  BY <1>5, FS_CardinalityType
<1> HIDE DEF ones
<1>7. 2 * Cardinality(ones) < Keep * Keep
  BY <1>5, <1>6, AboveCounted, DigitsFill
<1>8. QED  BY <1>7 DEF ones

-----------------------------------------------------------------------------
(* The rules of the validators, on one file.                               *)

(* The code finds a rule broken as the table says or, where it departs     *)
(* from it, the other way round.                                           *)
Finds(f, code) == ~(Breaks(f, code) <=> Departs(f, code))

Size(f) == IF f.mime \in HeicMimes THEN f.jpegBytes ELSE f.bytes

LEMMA FileFacts ==
    ASSUME NEW f \in Files
    PROVE  /\ f.heicDecodes \in BOOLEAN /\ f.header \in BOOLEAN
           /\ f.pixels \in BOOLEAN /\ f.canvas \in BOOLEAN
           /\ f.bytes \in Nat /\ f.jpegBytes \in Nat
           /\ f.width \in Nat \ {0} /\ f.height \in Nat \ {0}
           /\ IsFiniteSet(f.faces) /\ \A a \in f.faces : a.area \in Nat
           /\ f.block \in [Positions -> Int]
  BY FilesAssumption DEF FilesAssumption

LEMMA RuleOfCode ==
    ASSUME NEW f \in Files
    PROVE  /\ Finds(f, Codes[1]) <=> f.mime \notin Allowed
           /\ Finds(f, Codes[2]) <=> ~f.header \/ (f.mime \in HeicMimes /\ ~f.heicDecodes)
           /\ Finds(f, Codes[3]) <=> Size(f) < MinFileBytes
           /\ Finds(f, Codes[4]) <=> f.width < MinWidth \/ f.height < MinHeight
           /\ Finds(f, Codes[5]) <=> Measurable(f) /\ f.variance < BlurThreshold
           /\ Finds(f, Codes[6]) <=> f.faces = {}
           /\ Finds(f, Codes[7]) <=> Cardinality(f.faces) > FaceMaxCount
           /\ Finds(f, Codes[8]) <=>
                 \A a \in f.faces : 100 * a.area < FaceMinPercent * f.width * f.height
           /\ Finds(f, Codes[9]) <=> \E block \in Accepted :
                 Cardinality(DifferingBits(f.block, block)) <= HammingThreshold
<1>1. /\ Codes[1] = "UNSUPPORTED_FORMAT" /\ Codes[2] = "CORRUPT_FILE"
      /\ Codes[3] = "FILE_TOO_SMALL_BYTES" /\ Codes[4] = "RESOLUTION_TOO_LOW"
      /\ Codes[5] = "IMAGE_TOO_BLURRY" /\ Codes[6] = "NO_FACE_DETECTED"
      /\ Codes[7] = "MULTIPLE_FACES" /\ Codes[8] = "FACE_TOO_SMALL"
      /\ Codes[9] = "DUPLICATE_IMAGE"
  BY DEF Codes
<1>2. \A n \in {1, 4, 6, 7, 8, 9} : ~Departs(f, Codes[n])  BY <1>1 DEF Departs
<1>3. \A n \in {1, 4, 6, 7, 8, 9} : Finds(f, Codes[n]) <=> Breaks(f, Codes[n])
  BY <1>2 DEF Finds
<1>4. Finds(f, Codes[2]) <=> ~f.header \/ (f.mime \in HeicMimes /\ ~f.heicDecodes)
  BY <1>1 DEF Finds, Breaks, Departs
<1>5. Finds(f, Codes[3]) <=> Size(f) < MinFileBytes
  BY <1>1 DEF Finds, Breaks, Departs, Size
<1>6. Finds(f, Codes[5]) <=> Measurable(f) /\ f.variance < BlurThreshold
  BY <1>1 DEF Finds, Breaks, Departs
<1>7. /\ Breaks(f, Codes[1]) <=> f.mime \notin Allowed
      /\ Breaks(f, Codes[4]) <=> f.width < MinWidth \/ f.height < MinHeight
      /\ Breaks(f, Codes[6]) <=> f.faces = {}
      /\ Breaks(f, Codes[7]) <=> Cardinality(f.faces) > FaceMaxCount
      /\ Breaks(f, Codes[8]) <=>
            \A a \in f.faces : 100 * a.area < FaceMinPercent * f.width * f.height
      /\ Breaks(f, Codes[9]) <=> \E block \in Accepted :
            Cardinality(DifferingBits(f.block, block)) <= HammingThreshold
  BY <1>1 DEF Breaks
<1>8. QED  BY <1>3, <1>4, <1>5, <1>6, <1>7

(* A file in which faces were found has a largest one: a smallest set of   *)
(* faces without one would have another within it.                         *)
LEMMA LargestExists ==
    ASSUME NEW f \in Files, f.faces # {}
    PROVE  /\ LargestFace(f) \in f.faces
           /\ \A b \in f.faces : b.area <= LargestFace(f).area
<1> DEFINE Largest(a, s) == a \in s /\ \A b \in s : b.area <= a.area
           T == {s \in SUBSET f.faces : s # {} /\ ~\E a \in s : Largest(a, s)}
           R == StrictSubsetOrdering(f.faces)
<1>1. IsFiniteSet(f.faces) /\ \A a \in f.faces : a.area \in Nat  BY FileFacts
<1>2. T = {}
  <2> SUFFICES ASSUME T # {} PROVE FALSE  OBVIOUS
  <2>1. IsWellFoundedOn(R, SUBSET f.faces)
    <3>1. FiniteSubsetsOf(f.faces) = SUBSET f.faces  BY <1>1, FS_FiniteSubsetsOfFinite
    <3>2. IsWellFoundedOn(R, FiniteSubsetsOf(f.faces))  BY FS_StrictSubsetOrderingWellFounded
    <3>3. QED  BY <3>1, <3>2, Zenon
  <2>2. PICK s \in T : \A t \in T : <<t, s>> \notin R
    <3>1. T \subseteq SUBSET f.faces  OBVIOUS
    <3> HIDE DEF T, R
    <3>2. QED  BY <2>1, <3>1, WFMin
  <2>3. PICK a \in s : a \in f.faces  OBVIOUS
  <2>4. s \ {a} \in SUBSET f.faces /\ <<s \ {a}, s>> \in R
    BY <2>3 DEF StrictSubsetOrdering
  <2>5. s \ {a} \notin T  BY <2>2, <2>4
  <2>6. CASE s \ {a} = {}
    <3>1. Largest(a, s)  BY <1>1, <2>3, <2>6
    <3>2. QED  BY <2>3, <3>1
  <2>7. CASE s \ {a} # {}
    <3>1. PICK b \in s \ {a} : Largest(b, s \ {a})  BY <2>4, <2>5, <2>7
    <3>2. Largest(a, s) \/ Largest(b, s)
      <4>1. s \subseteq f.faces  OBVIOUS
      <4>2. \A c \in s : c.area \in Nat  BY <1>1, <4>1
      <4>3. CASE a.area <= b.area  BY <2>3, <3>1, <4>2, <4>3
      <4>4. CASE b.area <= a.area  BY <2>3, <3>1, <4>2, <4>4
      <4>5. QED  BY <2>3, <3>1, <4>2, <4>3, <4>4
    <3>3. QED  BY <2>3, <3>1, <3>2
  <2>8. QED  BY <2>6, <2>7
<1>3. \E a \in f.faces : \A b \in f.faces : b.area <= a.area
  <2>1. f.faces \notin T  BY <1>2
  <2>2. QED  BY <2>1
<1>4. QED  BY <1>3 DEF LargestFace

(* The validators before n have rejected for codes up to this one.         *)
CodesBefore == <<0, 2, 4, 5, 8, 9>>

(* The context a validator finds when those before it have passed.         *)
ContextAt(f, n) ==
    IF n = 1
    THEN [bytes |-> f.bytes, width |-> 0, height |-> 0, display |-> FALSE, hash |-> <<>>]
    ELSE [bytes |-> Size(f), width |-> f.width, height |-> f.height,
          display |-> f.mime \in HeicMimes,
          hash |-> IF n = 6 THEN Hash(f.block) ELSE <<>>]

Context(f) ==
    [bytes : Nat, width : Nat, height : Nat, display : BOOLEAN, hash : {<<>>, Hash(f.block)}]

(* A code decides the rules from lo to hi: "ok" says that none is broken,  *)
(* another is the first that is.                                           *)
Decides(f, code, lo, hi) ==
    IF code = "ok" THEN \A n \in lo..hi : ~Finds(f, Codes[n])
    ELSE \E n \in lo..hi : /\ code = Codes[n] /\ Finds(f, Codes[n])
                          /\ \A k \in lo..(n - 1) : ~Finds(f, Codes[k])

(* Validator n on the context it finds.                                    *)
Sound(f, n, result) ==
    result.code # "throw" =>
        /\ Decides(f, result.code, CodesBefore[n] + 1, CodesBefore[n + 1])
        /\ result.code = "ok" => result.ctx = ContextAt(f, n + 1)

LEMMA CodesBeforeFacts ==
    /\ CodesBefore[1] = 0 /\ CodesBefore[2] = 2 /\ CodesBefore[3] = 4
    /\ CodesBefore[4] = 5 /\ CodesBefore[5] = 8 /\ CodesBefore[6] = 9
  BY DEF CodesBefore

LEMMA CodeNames ==
    \A n \in 1..9 : Codes[n] \notin {"ok", "throw"}
  BY DEF Codes

(* A context, and the context with the size of the image in it.            *)
ContextOf(b, w, h, display, hash) ==
    [bytes |-> b, width |-> w, height |-> h, display |-> display, hash |-> hash]

Resized(r, w, h) == [r EXCEPT !.width = w, !.height = h]

LEMMA ResizedContext ==
    ASSUME NEW b, NEW w, NEW h, NEW display, NEW hash
    PROVE  Resized(ContextOf(b, 0, 0, display, hash), w, h) = ContextOf(b, w, h, display, hash)
<1> DEFINE r == ContextOf(b, 0, 0, display, hash)
           s == ContextOf(b, w, 0, display, hash)
<1>1. [r EXCEPT !.width = w] = s  BY DEF ContextOf
<1>2. [s EXCEPT !.height = h] = ContextOf(b, w, h, display, hash)  BY DEF ContextOf
<1> HIDE DEF r, s
<1>3. Resized(r, w, h) = [[r EXCEPT !.width = w] EXCEPT !.height = h]  BY DEF Resized
<1>4. Resized(r, w, h) = ContextOf(b, w, h, display, hash)  BY <1>1, <1>2, <1>3
<1>5. QED  BY <1>4 DEF r

LEMMA FormatSound ==
    ASSUME NEW f \in Files, NEW result, result = Format(f, ContextAt(f, 1))
    PROVE  Sound(f, 1, result)
<1> DEFINE c == ContextAt(f, 1)
<1>1. f.header \in BOOLEAN /\ f.heicDecodes \in BOOLEAN  BY FileFacts
<1>2. CASE f.mime \notin Allowed
  <2>1. result.code = "UNSUPPORTED_FORMAT" /\ Codes[1] = "UNSUPPORTED_FORMAT"
    BY <1>2 DEF Format, Result, Codes, Allowed, HeicMimes
  <2>2. Finds(f, Codes[1])  BY <1>2, RuleOfCode
  <2>3. QED  BY <2>1, <2>2, CodesBeforeFacts DEF Sound, Decides
<1>3. CASE f.mime \in HeicMimes /\ ~f.heicDecodes
  <2>1. f.mime \in Allowed  BY <1>3 DEF Allowed, HeicMimes
  <2>2. result.code = "CORRUPT_FILE" /\ Codes[2] = "CORRUPT_FILE"
    BY <1>3, <2>1 DEF Format, Result, Codes
  <2>3. ~Finds(f, Codes[1]) /\ Finds(f, Codes[2])  BY <1>3, <2>1, RuleOfCode
  <2>4. QED  BY <2>2, <2>3, CodesBeforeFacts DEF Sound, Decides
<1>4. CASE f.mime \in Allowed /\ (f.mime \in HeicMimes => f.heicDecodes)
  <2>1. result = IF f.header
                 THEN Result("ok", [Converted(f, c) EXCEPT !.width = f.width,
                                                           !.height = f.height])
                 ELSE Result("CORRUPT_FILE", Converted(f, c))
    BY <1>4 DEF Format
  <2>2. ~Finds(f, Codes[1]) /\ (Finds(f, Codes[2]) <=> ~f.header)
    BY <1>1, <1>4, RuleOfCode
  <2>3. CASE f.header
    <3>1. result.code = "ok" /\ result.ctx = [Converted(f, c) EXCEPT !.width = f.width,
                                                                      !.height = f.height]
      BY <2>1, <2>3 DEF Result
    <3>2. result.ctx = ContextAt(f, 2)
      <4>1. /\ c = ContextOf(f.bytes, 0, 0, FALSE, <<>>)
            /\ ContextAt(f, 2) = ContextOf(Size(f), f.width, f.height, f.mime \in HeicMimes, <<>>)
        BY DEF ContextAt, ContextOf
      <4>2. result.ctx = Resized(Converted(f, c), f.width, f.height)  BY <3>1 DEF Resized
      <4> HIDE DEF c
      <4>3. CASE f.mime \in HeicMimes
        <5>1. Converted(f, c) = ContextOf(f.jpegBytes, 0, 0, TRUE, <<>>)
          BY <4>1, <4>3 DEF Converted, ContextOf
        <5>2. Size(f) = f.jpegBytes /\ (f.mime \in HeicMimes) = TRUE  BY <4>3 DEF Size
        <5>3. Resized(ContextOf(f.jpegBytes, 0, 0, TRUE, <<>>), f.width, f.height)
              = ContextOf(f.jpegBytes, f.width, f.height, TRUE, <<>>)
          BY ResizedContext
        <5>4. result.ctx = ContextOf(f.jpegBytes, f.width, f.height, TRUE, <<>>)
          BY <4>1, <4>2, <5>1, <5>3, Zenon
        <5>5. ContextAt(f, 2) = ContextOf(f.jpegBytes, f.width, f.height, TRUE, <<>>)
          BY <4>1, <5>2, Zenon
        <5>6. QED  BY <5>4, <5>5
      <4>4. CASE f.mime \notin HeicMimes
        <5>1. Converted(f, c) = c  BY <4>4 DEF Converted
        <5>2. Size(f) = f.bytes /\ (f.mime \in HeicMimes) = FALSE  BY <4>4 DEF Size
        <5>3. Resized(ContextOf(f.bytes, 0, 0, FALSE, <<>>), f.width, f.height)
              = ContextOf(f.bytes, f.width, f.height, FALSE, <<>>)
          BY ResizedContext
        <5>4. result.ctx = ContextOf(f.bytes, f.width, f.height, FALSE, <<>>)
          BY <4>1, <4>2, <5>1, <5>3, Zenon
        <5>5. ContextAt(f, 2) = ContextOf(f.bytes, f.width, f.height, FALSE, <<>>)
          BY <4>1, <5>2, Zenon
        <5>6. QED  BY <5>4, <5>5
      <4>5. QED  BY <4>3, <4>4
    <3>3. QED  BY <2>2, <2>3, <3>1, <3>2, CodesBeforeFacts DEF Sound, Decides
  <2>4. CASE ~f.header
    <3>1. result.code = "CORRUPT_FILE" /\ Codes[2] = "CORRUPT_FILE"
      BY <2>1, <2>4 DEF Result, Codes
    <3>2. QED  BY <2>2, <2>4, <3>1, CodesBeforeFacts DEF Sound, Decides
  <2>5. QED  BY <1>1, <2>3, <2>4
<1>5. QED  BY <1>1, <1>2, <1>3, <1>4

LEMMA DimensionSound ==
    ASSUME NEW f \in Files, NEW result, result = Dimension(f, ContextAt(f, 2))
    PROVE  Sound(f, 2, result)
<1> DEFINE c == ContextAt(f, 2)
<1>1. /\ f.width \in Nat \ {0} /\ f.height \in Nat \ {0} /\ Size(f) \in Nat
      /\ MinFileBytes \in Nat /\ MinWidth \in Nat /\ MinHeight \in Nat
  BY FileFacts, FilesAssumption DEF FilesAssumption, Size
<1>2. c.bytes = Size(f) /\ c.width = f.width /\ c.height = f.height /\ c = ContextAt(f, 3)
  BY DEF ContextAt
<1> HIDE DEF c
<1>3. /\ Finds(f, Codes[3]) <=> Size(f) < MinFileBytes
      /\ Finds(f, Codes[4]) <=> f.width < MinWidth \/ f.height < MinHeight
  BY RuleOfCode
<1>4. /\ result.ctx = ContextAt(f, 3)
      /\ result.code = IF Size(f) < MinFileBytes THEN "FILE_TOO_SMALL_BYTES"
                       ELSE IF f.width < MinWidth \/ f.height < MinHeight
                       THEN "RESOLUTION_TOO_LOW" ELSE "ok"
  <2>1. result = Dimension(f, c)  BY DEF c
  <2>2. QED  BY <1>1, <1>2, <2>1 DEF Dimension, Result
<1>5. Codes[3] = "FILE_TOO_SMALL_BYTES" /\ Codes[4] = "RESOLUTION_TOO_LOW"  BY DEF Codes
<1>6. QED  BY <1>3, <1>4, <1>5, CodesBeforeFacts DEF Sound, Decides

LEMMA BlurSound ==
    ASSUME NEW f \in Files, NEW result, result = Blur(f, ContextAt(f, 3))
    PROVE  Sound(f, 3, result)
<1>1. ContextAt(f, 3) = ContextAt(f, 4)  BY DEF ContextAt
<1>2. Finds(f, Codes[5]) <=> Measurable(f) /\ f.variance < BlurThreshold  BY RuleOfCode
<1>3. Codes[5] = "IMAGE_TOO_BLURRY"  BY DEF Codes
<1>4. ASSUME result.code # "throw"
      PROVE  /\ result.ctx = ContextAt(f, 4)
             /\ result.code = IF Measurable(f) /\ f.variance < BlurThreshold
                              THEN "IMAGE_TOO_BLURRY" ELSE "ok"
  BY <1>1, <1>4 DEF Blur, Result
<1>5. QED  BY <1>2, <1>3, <1>4, CodesBeforeFacts DEF Sound, Decides

LEMMA FaceSound ==
    ASSUME NEW f \in Files, NEW result, result = Face(f, ContextAt(f, 4))
    PROVE  Sound(f, 4, result)
<1> DEFINE c == ContextAt(f, 4)
           share == FaceMinPercent * f.width * f.height
<1>1. /\ f.width \in Nat \ {0} /\ f.height \in Nat \ {0} /\ f.canvas \in BOOLEAN
      /\ \A a \in f.faces : a.area \in Nat
  BY FileFacts
<1>2. share \in Int
  <2>1. FaceMinPercent \in Nat  BY FilesAssumption DEF FilesAssumption
  <2>2. QED  BY <1>1, <2>1
<1>3. c.width = f.width /\ c.height = f.height /\ c = ContextAt(f, 5)
  BY DEF ContextAt
<1> HIDE DEF c
<1>4. /\ Finds(f, Codes[6]) <=> f.faces = {}
      /\ Finds(f, Codes[7]) <=> Cardinality(f.faces) > FaceMaxCount
      /\ Finds(f, Codes[8]) <=> \A a \in f.faces : 100 * a.area < share
  BY RuleOfCode
<1>5. ASSUME f.faces # {}
      PROVE  Finds(f, Codes[8]) <=> 100 * LargestFace(f).area < share
  <2> HIDE DEF share
  <2>1. /\ LargestFace(f) \in f.faces /\ LargestFace(f).area \in Nat
        /\ \A b \in f.faces : b.area <= LargestFace(f).area
    BY <1>1, <1>5, LargestExists
  <2>2. QED  BY <1>1, <1>2, <1>4, <2>1
<1>6. ASSUME result.code # "throw"
      PROVE  /\ result.ctx = c
             /\ result.code = IF f.faces = {} THEN "NO_FACE_DETECTED"
                              ELSE IF Cardinality(f.faces) > FaceMaxCount THEN "MULTIPLE_FACES"
                              ELSE IF 100 * LargestFace(f).area < share
                              THEN "FACE_TOO_SMALL" ELSE "ok"
  <2>1. result = Face(f, c)  BY DEF c
  <2>2. c.width # 0 /\ c.height # 0  BY <1>1, <1>3
  <2>3. f.canvas /\ "model" \notin down  BY <1>1, <1>6, <2>1, <2>2 DEF Face, Result
  <2>4. QED  BY <1>3, <2>1, <2>2, <2>3 DEF Face, Result
<1>7. /\ Codes[6] = "NO_FACE_DETECTED" /\ Codes[7] = "MULTIPLE_FACES"
      /\ Codes[8] = "FACE_TOO_SMALL"
  BY DEF Codes
<1> HIDE DEF share
<1>8. QED  BY <1>3, <1>4, <1>5, <1>6, <1>7, CodesBeforeFacts DEF Sound, Decides

LEMMA SimilaritySound ==
    ASSUME NEW f \in Files, NEW result, result = Similarity(f, ContextAt(f, 5))
    PROVE  Sound(f, 5, result)
<1> DEFINE c == ContextAt(f, 5)
<1>1. [c EXCEPT !.hash = Hash(f.block)] = ContextAt(f, 6)  BY DEF ContextAt
<1>2. NearDuplicate(Hash(f.block)) <=> Finds(f, Codes[9])
  BY HammingCountsPositions, RuleOfCode DEF NearDuplicate
<1>3. Codes[9] = "DUPLICATE_IMAGE"  BY DEF Codes
<1>4. ASSUME result.code # "throw"
      PROVE  /\ result.ctx = ContextAt(f, 6)
             /\ result.code = IF NearDuplicate(Hash(f.block)) THEN "DUPLICATE_IMAGE" ELSE "ok"
  BY <1>1, <1>4 DEF Similarity, Result
<1>5. QED  BY <1>2, <1>3, <1>4, CodesBeforeFacts DEF Sound, Decides

(* What the validator that threw needed and did not get.                   *)
Failing(f, n) ==
    \/ n = 3 /\ ~f.pixels
    \/ n = 4 /\ (~f.canvas \/ "model" \in down)
    \/ n = 5 /\ (~f.pixels \/ "database" \in down)

(* Whatever it finds in the context, a validator keeps it of its type, and *)
(* it throws only when something it needs fails.                           *)
LEMMA ValidateType ==
    ASSUME NEW f \in Files, NEW c \in Context(f), next \in 1..5
    PROVE  /\ Validate(f, c).ctx \in Context(f)
           /\ Validate(f, c).code = "throw" => Failing(f, next)
<1>1. /\ f.bytes \in Nat /\ f.jpegBytes \in Nat
      /\ f.pixels \in BOOLEAN /\ f.canvas \in BOOLEAN
      /\ f.header \in BOOLEAN /\ f.heicDecodes \in BOOLEAN
      /\ f.width \in Nat /\ f.height \in Nat
  BY FileFacts
<1>2. /\ Validators[1] = "Format" /\ Validators[2] = "Dimension" /\ Validators[3] = "Blur"
      /\ Validators[4] = "Face" /\ Validators[5] = "Similarity"
  BY DEF Validators
<1>3. CASE next = 1
  <2>1. Validate(f, c) = Format(f, c)  BY <1>2, <1>3 DEF Validate
  <2>2. /\ Converted(f, c) \in Context(f)
        /\ [Converted(f, c) EXCEPT !.width = f.width, !.height = f.height] \in Context(f)
    BY <1>1 DEF Converted, Context
  <2>3. QED  BY <1>1, <2>1, <2>2 DEF Format, Result
<1>4. CASE next = 2
  <2>1. Validate(f, c) = Dimension(f, c)  BY <1>2, <1>4 DEF Validate
  <2>2. c.bytes \in Nat /\ MinFileBytes \in Nat
    BY FilesAssumption DEF FilesAssumption, Context
  <2>3. QED  BY <2>1, <2>2 DEF Dimension, Result
<1>5. CASE next = 3
  <2>1. Validate(f, c) = Blur(f, c)  BY <1>2, <1>5 DEF Validate
  <2>2. QED  BY <1>1, <1>5, <2>1 DEF Blur, Result, Failing
<1>6. CASE next = 4
  <2>1. Validate(f, c) = Face(f, c)  BY <1>2, <1>6 DEF Validate
  <2>2. QED  BY <1>1, <1>6, <2>1 DEF Face, Result, Failing
<1>7. CASE next = 5
  <2>1. Validate(f, c) = Similarity(f, c)  BY <1>2, <1>7 DEF Validate
  <2>2. [c EXCEPT !.hash = Hash(f.block)] \in Context(f)  BY DEF Context
  <2>3. QED  BY <1>1, <1>7, <2>1, <2>2 DEF Similarity, Result, Failing
<1>8. QED  BY <1>3, <1>4, <1>5, <1>6, <1>7

LEMMA ValidateSound ==
    ASSUME NEW f \in Files, next \in 1..5
    PROVE  Sound(f, next, Validate(f, ContextAt(f, next)))
<1>1. /\ Validators[1] = "Format" /\ Validators[2] = "Dimension" /\ Validators[3] = "Blur"
      /\ Validators[4] = "Face" /\ Validators[5] = "Similarity"
  BY DEF Validators
<1>2. CASE next = 1  BY <1>1, <1>2, FormatSound DEF Validate
<1>3. CASE next = 2  BY <1>1, <1>3, DimensionSound DEF Validate
<1>4. CASE next = 3  BY <1>1, <1>4, BlurSound DEF Validate
<1>5. CASE next = 4  BY <1>1, <1>5, FaceSound DEF Validate
<1>6. CASE next = 5  BY <1>1, <1>6, SimilaritySound DEF Validate
<1>7. QED  BY <1>2, <1>3, <1>4, <1>5, <1>6
(* A validator that did not throw got what it needed.                      *)
LEMMA NotThrown ==
    ASSUME NEW f \in Files, next \in 1..5, Validate(f, ContextAt(f, next)).code # "throw"
    PROVE  ~Failing(f, next)
<1> DEFINE c == ContextAt(f, next)
<1>1. /\ Validators[1] = "Format" /\ Validators[2] = "Dimension" /\ Validators[3] = "Blur"
      /\ Validators[4] = "Face" /\ Validators[5] = "Similarity"
  BY DEF Validators
<1>2. CASE next \in 1..2  BY <1>2 DEF Failing
<1>3. CASE next = 3
  <2>1. Validate(f, c) = Blur(f, c)  BY <1>1, <1>3 DEF Validate
  <2>2. QED  BY <1>3, <2>1 DEF Blur, Result, Failing
<1>4. CASE next = 4
  <2>1. Validate(f, c) = Face(f, c)  BY <1>1, <1>4 DEF Validate
  <2>2. c.width # 0 /\ c.height # 0  BY <1>4, FileFacts DEF ContextAt
  <2> HIDE DEF c
  <2>3. f.canvas \in BOOLEAN  BY FileFacts
  <2>4. Validate(f, c).code # "throw"  BY DEF c
  <2>5. QED  BY <1>4, <2>1, <2>2, <2>3, <2>4 DEF Face, Result, Failing
<1>5. CASE next = 5
  <2>1. Validate(f, c) = Similarity(f, c)  BY <1>1, <1>5 DEF Validate
  <2>2. f.pixels \in BOOLEAN  BY FileFacts
  <2>3. QED  BY <1>5, <2>1, <2>2 DEF Similarity, Result, Failing
<1>6. QED  BY <1>2, <1>3, <1>4, <1>5

-----------------------------------------------------------------------------
(* The inductive invariant.  While nothing has been collected the context  *)
(* is a function of the file and the place in the chain, and the rules of  *)
(* the validators that ran hold; the first code collected is the first     *)
(* rule broken, and what later validators make of the context they find    *)
(* cannot change it.                                                       *)
RejectionCodes ==
    {"UNSUPPORTED_FORMAT", "CORRUPT_FILE", "FILE_TOO_SMALL_BYTES", "RESOLUTION_TOO_LOW",
     "IMAGE_TOO_BLURRY", "NO_FACE_DETECTED", "MULTIPLE_FACES", "FACE_TOO_SMALL",
     "DUPLICATE_IMAGE"}

CType ==
    /\ file \in Files /\ collectAll \in BOOLEAN /\ ctx \in Context(file)
    /\ down \in SUBSET {"model", "database"}
    /\ next \in 1..6 /\ reasons \in Seq(RejectionCodes)
    /\ outcome \in {"running", "passed", "rejected", "threw"}

FirstRule(f, code) ==
    \E n \in Broken(f) : code = Codes[n] /\ \A k \in Broken(f) : n <= k

(* The validators that have run found no rule broken, and pixels and canvas *)
(* were there for those that need them.                                    *)
Clean ==
    /\ \A n \in 1..CodesBefore[next] : ~Finds(file, Codes[n])
    /\ next > 3 => file.pixels
    /\ next > 4 => file.canvas /\ "model" \notin down

CInv ==
    /\ CType
    /\ reasons = <<>> => Clean
    /\ reasons = <<>> /\ outcome # "threw" => ctx = ContextAt(file, next)
    /\ reasons # <<>> => FirstRule(file, reasons[1])
    /\ reasons # <<>> /\ ~collectAll => next = 6 /\ Len(reasons) = 1
    /\ outcome = "passed" => reasons = <<>> /\ next = 6
    /\ outcome = "rejected" => reasons # <<>>
    /\ outcome = "threw" => next \in 1..5 /\ Failing(file, next)

LEMMA BrokenRules ==
    ASSUME NEW f
    PROVE  Broken(f) = {n \in 1..9 : Finds(f, Codes[n])}
<1>1. Len(Codes) = 9  BY DEF Codes
<1>2. QED  BY <1>1 DEF Broken, Finds

(* A validator that rejects the context of a file that broke no rule yet   *)
(* gives the first rule the file breaks.                                   *)
LEMMA DecidedIsFirst ==
    ASSUME NEW f, NEW n \in 1..5, NEW code, code # "ok",
           \A k \in 1..CodesBefore[n] : ~Finds(f, Codes[k]),
           Decides(f, code, CodesBefore[n] + 1, CodesBefore[n + 1])
    PROVE  FirstRule(f, code)
<1>1. CodesBefore[n] \in 0..9 /\ CodesBefore[n + 1] \in 0..9  BY CodesBeforeFacts
<1>2. PICK m \in (CodesBefore[n] + 1)..CodesBefore[n + 1] :
         /\ code = Codes[m] /\ Finds(f, Codes[m])
         /\ \A k \in (CodesBefore[n] + 1)..(m - 1) : ~Finds(f, Codes[k])
  BY DEF Decides
<1>3. m \in 1..9  BY <1>1, <1>2
<1>4. \A k \in 1..9 : Finds(f, Codes[k]) => m <= k
  <2> SUFFICES ASSUME NEW k \in 1..9, k < m PROVE ~Finds(f, Codes[k])
    BY <1>3
  <2>1. CASE k <= CodesBefore[n]  BY <1>1, <2>1
  <2>2. CASE k > CodesBefore[n]  BY <1>1, <1>2, <1>3, <2>2
  <2>3. QED  BY <1>1, <2>1, <2>2
<1>5. QED  BY <1>2, <1>3, <1>4, BrokenRules DEF FirstRule

LEMMA ValidateCode ==
    ASSUME NEW f \in Files, NEW c, next \in 1..5
    PROVE  Validate(f, c).code \in RejectionCodes \cup {"ok", "throw"}
<1>1. /\ Validators[1] = "Format" /\ Validators[2] = "Dimension" /\ Validators[3] = "Blur"
      /\ Validators[4] = "Face" /\ Validators[5] = "Similarity"
  BY DEF Validators
<1>2. f.pixels \in BOOLEAN  BY FileFacts
<1>3. CASE next = 1
  <2>1. Validate(f, c) = Format(f, c)  BY <1>1, <1>3 DEF Validate
  <2>2. f.mime \notin Allowed \/ (f.mime \in HeicMimes /\ ~f.heicDecodes)
        \/ (f.mime \in Allowed /\ (f.mime \in HeicMimes => f.heicDecodes))
    OBVIOUS
  <2>3. QED  BY <2>1, <2>2 DEF Format, Result, RejectionCodes, Allowed, HeicMimes
<1>4. CASE next = 2
  <2>1. Validate(f, c) = Dimension(f, c)  BY <1>1, <1>4 DEF Validate
  <2>2. QED  BY <2>1 DEF Dimension, Result, RejectionCodes
<1>5. CASE next = 3
  <2>1. Validate(f, c) = Blur(f, c)  BY <1>1, <1>5 DEF Validate
  <2>2. QED  BY <2>1 DEF Blur, Result, RejectionCodes
<1>6. CASE next = 4
  <2>1. Validate(f, c) = Face(f, c)  BY <1>1, <1>6 DEF Validate
  <2>2. QED  BY <2>1 DEF Face, Result, RejectionCodes
<1>7. CASE next = 5
  <2>1. Validate(f, c) = Similarity(f, c)  BY <1>1, <1>7 DEF Validate
  <2>2. QED  BY <2>1 DEF Similarity, Result, RejectionCodes
<1>8. QED  BY <1>3, <1>4, <1>5, <1>6, <1>7

LEMMA CInit == Init => CInv
<1> SUFFICES ASSUME Init PROVE CInv  OBVIOUS
<1>1. ctx = ContextAt(file, 1)  BY DEF Init, ContextAt
<1>2. ctx \in Context(file)
  <2>1. file.bytes \in Nat  BY FileFacts DEF Init
  <2>2. QED  BY <2>1 DEF Init, Context
<1>3. Clean
  <2>1. \A n \in 1..CodesBefore[next] : ~Finds(file, Codes[n])
    BY CodesBeforeFacts DEF Init
  <2>2. QED  BY <2>1 DEF Init, Clean
<1>4. QED  BY <1>1, <1>2, <1>3 DEF Init, CInv, CType

LEMMA CTurn == CInv /\ Turn => CInv'
<1> SUFFICES ASSUME CInv, Turn PROVE CInv'  OBVIOUS
<1> DEFINE result == Validate(file, ctx)
           failed == result.code # "ok"
<1>1. Len(Validators) = 5  BY DEF Validators
<1>2. /\ file \in Files /\ ctx \in Context(file) /\ next \in 1..5 /\ collectAll \in BOOLEAN
      /\ reasons \in Seq(RejectionCodes) /\ outcome = "running"
      /\ down \in SUBSET {"model", "database"}
  BY <1>1 DEF CInv, CType, Turn
<1>3. UNCHANGED <<file, collectAll, down>> /\ ctx' = result.ctx  BY DEF Turn
<1>4. /\ result.ctx \in Context(file)
      /\ result.code = "throw" => Failing(file, next)
      /\ result.code \in RejectionCodes \cup {"ok", "throw"}
  BY <1>2, ValidateType, ValidateCode
<1>5. reasons # <<>> => collectAll  BY <1>2 DEF CInv
<1>6. CASE result.code = "throw"
  <2>1. outcome' = "threw" /\ UNCHANGED <<next, reasons>>  BY <1>6 DEF Turn
  <2>2. CType'
    <3> HIDE DEF result
    <3>1. QED  BY <1>2, <1>3, <1>4, <2>1 DEF CType
  <2>3. (reasons = <<>> => Clean)'  BY <1>3, <2>1 DEF CInv, Clean
  <2> HIDE DEF result
  <2>4. Failing(file, next)'  BY <1>3, <1>4, <1>6, <2>1 DEF Failing
  <2>5. QED  BY <1>2, <1>3, <2>1, <2>2, <2>3, <2>4 DEF CInv
<1>7. CASE result.code # "throw"
  <2>1. /\ outcome' = outcome
        /\ reasons' = IF failed THEN Append(reasons, result.code) ELSE reasons
        /\ next' = IF failed /\ ~collectAll THEN 6 ELSE next + 1
    BY <1>1, <1>7 DEF Turn
  <2> DEFINE code == result.code
  <2>2. ASSUME reasons = <<>>
        PROVE  /\ \A k \in 1..CodesBefore[next] : ~Finds(file, Codes[k])
               /\ Decides(file, code, CodesBefore[next] + 1, CodesBefore[next + 1])
               /\ code = "ok" => result.ctx = ContextAt(file, next + 1)
               /\ ~Failing(file, next) /\ Clean
    <3>1. ctx = ContextAt(file, next)
          /\ \A k \in 1..CodesBefore[next] : ~Finds(file, Codes[k])
      BY <1>2, <2>2 DEF CInv, Clean
    <3>2. Sound(file, next, Validate(file, ContextAt(file, next)))  BY <1>2, ValidateSound
    <3>3. Sound(file, next, result)  BY <3>1, <3>2
    <3>4. ~Failing(file, next)  BY <1>2, <1>7, <3>1, NotThrown
    <3>5. Clean  BY <2>2 DEF CInv
    <3> HIDE DEF result
    <3>6. QED  BY <1>7, <3>1, <3>3, <3>4, <3>5 DEF Sound
  <2> HIDE DEF result
  <2>3. CType'
    <3>1. failed => result.code \in RejectionCodes  BY <1>4, <1>7
    <3>2. reasons' \in Seq(RejectionCodes)  BY <1>2, <2>1, <3>1
    <3>3. next' \in 1..6  BY <1>2, <2>1
    <3>4. QED  BY <1>2, <1>3, <1>4, <2>1, <3>2, <3>3 DEF CType
  <2>4. (reasons = <<>> => Clean)'
    <3> SUFFICES ASSUME reasons' = <<>> PROVE Clean'  OBVIOUS
    <3>1. code = "ok" /\ reasons = <<>> /\ next' = next + 1
      <4>1. CASE failed  BY <1>2, <1>4, <2>1, <4>1
      <4>2. CASE ~failed  BY <2>1, <4>2
      <4>3. QED  BY <4>1, <4>2
    <3>2. \A k \in 1..CodesBefore[next + 1] : ~Finds(file, Codes[k])
      <4>1. CodesBefore[next] \in 0..9 /\ CodesBefore[next + 1] \in 0..9
        BY <1>2, CodesBeforeFacts
      <4>2. \A k \in (CodesBefore[next] + 1)..CodesBefore[next + 1] : ~Finds(file, Codes[k])
        BY <2>2, <3>1 DEF Decides
      <4>3. QED  BY <2>2, <3>1, <4>1, <4>2
    <3>3. /\ next' > 3 => file.pixels
          /\ next' > 4 => file.canvas /\ "model" \notin down
      BY <1>2, <2>2, <3>1 DEF Clean, Failing
    <3>4. QED  BY <1>3, <3>1, <3>2, <3>3 DEF Clean
  <2>5. (reasons # <<>> => FirstRule(file, reasons[1]))'
    <3>1. CASE reasons = <<>>
      <4>1. CASE failed
        <5>1. FirstRule(file, code)  BY <1>2, <2>2, <3>1, <4>1, DecidedIsFirst
        <5>2. reasons'[1] = code  BY <2>1, <3>1, <4>1
        <5>3. QED  BY <1>3, <5>1, <5>2
      <4>2. CASE ~failed  BY <2>1, <3>1, <4>2
      <4>3. QED  BY <4>1, <4>2
    <3>2. CASE reasons # <<>>
      <4>1. reasons'[1] = reasons[1]  BY <1>2, <1>4, <2>1, <3>2
      <4>2. FirstRule(file, reasons[1])  BY <3>2 DEF CInv
      <4>3. QED  BY <1>3, <4>1, <4>2
    <3>3. QED  BY <3>1, <3>2
  <2>6. (reasons # <<>> /\ ~collectAll => next = 6 /\ Len(reasons) = 1)'
    <3> SUFFICES ASSUME reasons' # <<>>, ~collectAll PROVE next' = 6 /\ Len(reasons') = 1
      BY <1>3
    <3>1. reasons = <<>>  BY <1>5
    <3>2. failed  BY <2>1, <3>1
    <3>3. reasons' = <<code>>  BY <2>1, <3>1, <3>2
    <3>4. QED  BY <2>1, <3>2, <3>3
  <2>7. (reasons = <<>> => ctx = ContextAt(file, next))'
    <3> SUFFICES ASSUME reasons' = <<>> PROVE ctx' = ContextAt(file', next')  OBVIOUS
    <3>1. code = "ok" /\ reasons = <<>> /\ next' = next + 1
      <4>1. CASE failed  BY <1>2, <1>4, <2>1, <4>1
      <4>2. CASE ~failed  BY <2>1, <4>2
      <4>3. QED  BY <4>1, <4>2
    <3>2. QED  BY <1>3, <2>1, <2>2, <3>1
  <2>8. QED  BY <1>2, <2>1, <2>3, <2>4, <2>5, <2>6, <2>7 DEF CInv
<1>8. QED  BY <1>6, <1>7

LEMMA CReturn == CInv /\ Return => CInv'
<1> SUFFICES ASSUME CInv, Return PROVE CInv'  OBVIOUS
<1>1. Len(Validators) = 5  BY DEF Validators
<1>2. /\ next = 6 /\ outcome' = (IF reasons = <<>> THEN "passed" ELSE "rejected")
      /\ UNCHANGED <<file, collectAll, down, ctx, next, reasons>>
      /\ outcome = "running"
  BY <1>1 DEF CInv, CType, Return
<1>3. CType'  BY <1>2 DEF CInv, CType
<1>4. (reasons = <<>> => Clean)'  BY <1>2 DEF CInv, Clean
<1>5. (reasons = <<>> => ctx = ContextAt(file, next))'
  BY <1>2 DEF CInv
<1>6. QED  BY <1>2, <1>3, <1>4, <1>5 DEF CInv

LEMMA CInvariant == Spec => []CInv
<1>1. CInv /\ [Next]_vars => CInv'
  <2> SUFFICES ASSUME CInv, [Next]_vars PROVE CInv'  OBVIOUS
  <2>1. CASE Turn  BY <2>1, CTurn
  <2>2. CASE Return  BY <2>2, CReturn
  <2>3. CASE UNCHANGED vars
    <3>1. UNCHANGED <<file, collectAll, down, ctx, next, reasons, outcome>>  BY <2>3 DEF vars
    <3>2. CType'  BY <3>1 DEF CInv, CType
    <3>3. (reasons = <<>> => Clean)'  BY <3>1 DEF CInv, Clean
    <3>4. (reasons = <<>> /\ outcome # "threw" => ctx = ContextAt(file, next))'
      BY <3>1 DEF CInv
    <3>5. (outcome = "threw" => next \in 1..5 /\ Failing(file, next))'
      BY <3>1 DEF CInv, Failing
    <3>6. QED  BY <3>1, <3>2, <3>3, <3>4, <3>5 DEF CInv
  <2>4. QED  BY <2>1, <2>2, <2>3 DEF Next
<1>2. QED  BY CInit, <1>1, PTL DEF Spec

-----------------------------------------------------------------------------
(* The chain decides as the table of rejection codes says, up to the three *)
(* departures of Departs: a file passes only when it can be decoded and    *)
(* breaks no other rule, and the reason for a rejection is the first rule  *)
(* it breaks (validation-pipeline.ts:34-62), for every set of files, every *)
(* threshold, every set of accepted images and whatever call fails.        *)
THEOREM FirstBrokenRuleTheorem == Spec => []FirstBrokenRuleDecides
<1>1. CInv => FirstBrokenRuleDecides
  <2> SUFFICES ASSUME CInv PROVE FirstBrokenRuleDecides  OBVIOUS
  <2>1. ASSUME outcome = "passed" PROVE file.pixels /\ file.canvas /\ Broken(file) = {}
    <3>1. next = 6 /\ Clean  BY <2>1 DEF CInv
    <3>2. \A n \in 1..9 : ~Finds(file, Codes[n])  BY <3>1, CodesBeforeFacts DEF Clean
    <3>3. file.pixels /\ file.canvas  BY <3>1 DEF Clean
    <3>4. QED  BY <3>2, <3>3, BrokenRules
  <2>2. ASSUME outcome = "rejected"
        PROVE  (~collectAll => Len(reasons) = 1) /\ FirstRule(file, reasons[1])
    BY <2>2 DEF CInv
  <2>3. QED  BY <2>1, <2>2 DEF FirstBrokenRuleDecides, FirstRule
<1>2. QED  BY CInvariant, <1>1, PTL

(* What the worker asserts non-null in the context of an image that passed *)
(* is there, and a display copy exactly for HEIC (image.worker.ts:80-97).  *)
THEOREM PassedContextTheorem == Spec => []PassedContextComplete
<1>1. CInv => PassedContextComplete
  <2> SUFFICES ASSUME CInv, outcome = "passed"
               PROVE  /\ ctx.width > 0 /\ ctx.height > 0 /\ ctx.hash # <<>>
                      /\ ctx.display <=> file.mime \in HeicMimes
    BY DEF PassedContextComplete
  <2>1. ctx = ContextAt(file, 6) /\ file \in Files  BY DEF CInv, CType, Clean
  <2>2. /\ ctx.width = file.width /\ ctx.height = file.height
        /\ ctx.hash = Hash(file.block) /\ ctx.display = (file.mime \in HeicMimes)
    BY <2>1 DEF ContextAt
  <2>3. file.width \in Nat \ {0} /\ file.height \in Nat \ {0}  BY <2>1, FileFacts
  <2>4. Hash(file.block) # <<>>
    <3>1. Len(Hash(file.block)) = Digits  BY DigitsFill DEF Hash
    <3>2. QED  BY <3>1, DigitsFill
  <2>5. ctx.display <=> file.mime \in HeicMimes  BY <2>2, Zenon
  <2>6. ctx.width > 0 /\ ctx.height > 0 /\ ctx.hash # <<>>  BY <2>2, <2>3, <2>4
  <2>7. QED  BY <2>5, <2>6
<1>2. QED  BY CInvariant, <1>1, PTL

(* Fewer than half of the bits of the hash put into the context are set    *)
(* (phash.ts:73-87).                                                       *)
THEOREM FewerThanHalfTheorem == Spec => []FewerThanHalfSet
<1>1. CInv => FewerThanHalfSet
  <2> SUFFICES ASSUME CInv, ctx.hash # <<>>
               PROVE  LET ones == {n \in (1..Len(ctx.hash)) \X (0..3) :
                                     BitOf(ctx.hash[n[1]], n[2]) = 1}
                      IN  2 * Cardinality(ones) < Keep * Keep
    BY DEF FewerThanHalfSet
  <2>1. ctx.hash = Hash(file.block) /\ file \in Files  BY DEF CInv, CType, Context
  <2>2. file.block \in [Positions -> Int]  BY <2>1, FileFacts
  <2>3. QED  BY <2>1, <2>2, FewerThanHalf, Zenon
<1>2. QED  BY CInvariant, <1>1, PTL

(* A throw never stands in for a rejection: unless all reasons are         *)
(* collected, no rule judged before the failing call is broken, whatever   *)
(* call fails (validation-pipeline.ts:42-48).                              *)
THEOREM ThrowsTheorem == Spec => []ThrowHidesNoRejection
<1>1. CInv => ThrowHidesNoRejection
  <2> SUFFICES ASSUME CInv, outcome = "threw"
               PROVE  /\ ~file.pixels \/ ~file.canvas \/ down # {}
                      /\ ~collectAll => \A n \in Broken(file) :
                            /\ n > 4 /\ (file.pixels => n > 5)
                            /\ file.pixels /\ file.canvas /\ "model" \notin down => n > 8
    BY DEF ThrowHidesNoRejection
  <2>1. Failing(file, next) /\ next \in 3..5  BY DEF CInv, Failing
  <2>2. ~file.pixels \/ ~file.canvas \/ down # {}  BY <2>1 DEF Failing
  <2>3. ASSUME ~collectAll, NEW n \in Broken(file)
        PROVE  /\ n > 4 /\ (file.pixels => n > 5)
               /\ file.pixels /\ file.canvas /\ "model" \notin down => n > 8
    <3>1. reasons = <<>>  BY <2>1, <2>3 DEF CInv
    <3>2. \A k \in 1..CodesBefore[next] : ~Finds(file, Codes[k])  BY <3>1 DEF CInv, Clean
    <3>3. n \in 1..9 /\ Finds(file, Codes[n])  BY BrokenRules
    <3>4. CodesBefore[3] = 4 /\ CodesBefore[4] = 5 /\ CodesBefore[5] = 8
      BY CodesBeforeFacts
    <3>5. CASE next = 3
      <4>1. n > 4  BY <3>2, <3>3, <3>4, <3>5
      <4>2. ~file.pixels  BY <2>1, <3>5 DEF Failing
      <4>3. QED  BY <4>1, <4>2
    <3>6. CASE next = 4
      <4>1. n > 5  BY <3>2, <3>3, <3>4, <3>6
      <4>2. ~file.canvas \/ "model" \in down  BY <2>1, <3>6 DEF Failing
      <4>3. QED  BY <3>3, <4>1, <4>2
    <3>7. CASE next = 5
      <4>1. n > 8  BY <3>2, <3>3, <3>4, <3>7
      <4>2. QED  BY <3>3, <4>1
    <3>8. QED  BY <2>1, <3>5, <3>6, <3>7
  <2>4. QED  BY <2>2, <2>3
<1>2. QED  BY CInvariant, <1>1, PTL
=============================================================================
