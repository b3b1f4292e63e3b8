---------------------------- MODULE PerceptualHash ----------------------------
(***************************************************************************)
(* The parts of processors/phash.ts that are not floating point: the bits  *)
(* of a hash from the low-frequency DCT block, their packing into hex      *)
(* digits, and the Hamming distance of two hashes.  The DCT itself is      *)
(* represented by the block of coefficients it returns.                    *)
(***************************************************************************)
EXTENDS Integers, SequencesExt

CONSTANT Keep   \* the edge of the block kept, 8 in the code

Positions == 1..(Keep * Keep)   \* row by row; position 1 is the DC coefficient
Digits == (Keep * Keep) \div 4

ASSUME HashAssumption == Keep \in Nat \ {0} /\ (Keep * Keep) % 4 = 0

(* The coefficients without DC, in ascending order, and the middle one.    *)
(* The place of a coefficient is the number of those not after it.         *)
Coefficients == Positions \ {1}

Sorted(block) ==
    LET place == [p \in Coefficients |->
                    Cardinality({q \in Coefficients :
                       block[q] < block[p] \/ (block[q] = block[p] /\ q <= p)})]
    IN  [n \in 1..(Keep * Keep - 1) |-> block[CHOOSE p \in Coefficients : place[p] = n]]

Median(block) == Sorted(block)[((Keep * Keep - 1) \div 2) + 1]

(* Mutant of Bit: >= for >.                                                *)
BitAtLeast(block, median, p) == IF p > 1 /\ block[p] >= median THEN 1 ELSE 0

(* The bit of DC is always 0.                                              *)
Bit(block, median, p) == IF p > 1 /\ block[p] > median THEN 1 ELSE 0

(* computePerceptualHash: four bits to a digit, the first the most         *)
(* significant.                                                            *)
Hash(block) ==
    LET median == Median(block)
        bit(d, k) == Bit(block, median, 4 * (d - 1) + k)
    IN  [d \in 1..Digits |-> 8 * bit(d, 1) + 4 * bit(d, 2) + 2 * bit(d, 3) + bit(d, 4)]

BitOf(digit, k) == (digit \div 2^k) % 2

(* Mutant of DigitDistance: the topmost bit is left out.                   *)
ThreeBits(x, y) == Cardinality({k \in 0..2 : BitOf(x, k) # BitOf(y, k)})

(* The bits set in the exclusive or of two digits.                         *)
DigitDistance(x, y) == Cardinality({k \in 0..3 : BitOf(x, k) # BitOf(y, k)})

(* hammingDistance of two hashes of the same length, as all of them are.   *)
HammingDistance(a, b) ==
    MapThenSumSet(LAMBDA d : DigitDistance(a[d], b[d]), 1..Digits)
=============================================================================
