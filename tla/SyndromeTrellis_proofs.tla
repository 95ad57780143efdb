----------------------- MODULE SyndromeTrellis_proofs -----------------------
(***************************************************************************)
(* That the coder of SyndromeTrellis solves its code: proofs for every     *)
(* height, width of the blocks, length of the segments, cover, cost map    *)
(* and message.                                                            *)
(*                                                                         *)
(* The register is read off the parity-check matrix: after the positions   *)
(* of a vector before p it holds the parities of the columns met so far,   *)
(* and what block after block is shifted out of it is the syndrome.  Over  *)
(* that, the forward pass is a shortest path algorithm (the metric of a    *)
(* register is what the cheapest vector that leads to it costs, and the    *)
(* survivors lead back along one), the backward pass follows one cheapest  *)
(* vector, and the decoder computes the syndrome of that vector.           *)
(***************************************************************************)
EXTENDS SyndromeTrellis, FiniteSetTheorems, SequenceTheorems, WellFoundedInduction, TLAPS

(***************************************************************************)
(* The layout: blocks follow each other without a gap, none is empty, and  *)
(* a segment begins at a multiple of its length.                           *)
(***************************************************************************)
LEMMA Quotient ==
    ASSUME NEW a \in Nat, NEW m \in Nat, m >= 1
    PROVE  /\ a \div m \in Nat
           /\ m * (a \div m) <= a /\ a < m * (a \div m) + m
           /\ a % m = a - m * (a \div m)
  BY SMT

\* A multiple more of the divisor is a larger quotient.
LEMMA QuotientGrows ==
    ASSUME NEW a \in Nat, NEW c \in Nat, NEW m \in Nat, m >= 1, a + m <= c
    PROVE  a \div m < c \div m
<1> DEFINE p == a \div m
           q == c \div m
<1>1. p \in Nat /\ q \in Nat /\ m * p <= a /\ c < m * q + m
  BY Quotient
<1> HIDE DEF p, q
<1>2. SUFFICES ASSUME q <= p PROVE FALSE
  BY <1>1 DEF p, q
<1>3. m * q <= m * p
  BY <1>1, <1>2, SMT
<1> DEFINE mp == m * p
           mq == m * q
<1>4. mp \in Nat /\ mq \in Nat
  BY <1>1, SMT
<1> HIDE DEF mp, mq
<1>5. mp <= a /\ c < mq + m /\ mq <= mp
  BY <1>1, <1>3 DEF mp, mq
<1> QED BY <1>4, <1>5

\* The quotient is the multiple that fits.
LEMMA QuotientIs ==
    ASSUME NEW a \in Nat, NEW m \in Nat, NEW q \in Nat, m >= 1, m * q <= a, a < m * q + m
    PROVE  a \div m = q
<1> DEFINE p == a \div m
<1>1. p \in Nat /\ m * p <= a /\ a < m * p + m
  BY Quotient
<1> HIDE DEF p
<1>2. CASE p < q
  <2>1. m * p + m <= m * q
    BY <1>1, <1>2, SMT
  <2> QED BY <2>1, <1>1, SMT
<1>3. CASE q < p
  <2>1. m * q + m <= m * p
    BY <1>1, <1>3, SMT
  <2> QED BY <2>1, <1>1, SMT
<1> QED BY <1>1, <1>2, <1>3 DEF p

\* The remainder past a multiple is the distance to it.
LEMMA Multiple ==
    ASSUME NEW a \in Nat, NEW c \in Nat, NEW m \in Nat, m >= 1,
           a % m = 0, a <= c, c < a + m
    PROVE  c % m = c - a
<1> DEFINE p == a \div m
<1>1. p \in Nat /\ a = m * p
  BY Quotient, SMT
<1> HIDE DEF p
<1>2. c \div m = p
  BY <1>1, QuotientIs, SMT
<1>3. c % m = c - m * (c \div m)
  BY Quotient
<1> QED BY <1>1, <1>2, <1>3

\* A multiple of the segment's length is followed by one.
LEMMA NextMultiple ==
    ASSUME NEW a \in Nat, NEW m \in Nat, m >= 1, a % m = 0
    PROVE  (a + m) % m = 0
<1> DEFINE p == a \div m
<1>1. p \in Nat /\ a = m * p
  BY Quotient, SMT
<1> HIDE DEF p
<1>2. p + 1 \in Nat /\ m * (p + 1) = a + m
  BY <1>1, SMT
<1>3. (a + m) \div m = p + 1
  BY <1>1, <1>2, QuotientIs, SMT
<1>4. (a + m) % m = a + m - m * ((a + m) \div m)
  BY Quotient, SMT
<1> QED BY <1>1, <1>2, <1>3, <1>4

\* What the assumptions say of the constants, in the form the proofs use.
LEMMA Constants ==
    /\ Height \in Nat /\ Height >= 2 /\ Length \in Nat /\ Length >= 1
    /\ Capacity \in Nat /\ Capacity <= Length
    /\ MaxBlockWidth \in Nat /\ MaxBlockWidth >= 1
    /\ MaxSegmentColumns \in Nat /\ MaxSegmentColumns >= 1
    /\ Infinity \in Nat
  BY TrellisAssumption
-----------------------------------------------------------------------------
\* The positions of a plan, and the vectors of stego bits over them.
Planned ==
    /\ MessageBits \in 1 .. Capacity
    /\ \A p \in Positions : rho[p] >= 0
Vectors == SUBSET (0 .. UsedPositions - 1)
Below(y, p) == {q \in y : q < p}

\* The plan: at least one used position a bit, and at least one block a segment.
LEMMA Layout ==
    ASSUME Planned
    PROVE  /\ MessageBits \in Nat /\ 1 <= MessageBits
           /\ UsedPositions \in Nat /\ MessageBits <= UsedPositions /\ UsedPositions <= Length
           /\ BlocksPerSegment \in Nat /\ BlocksPerSegment >= 1
<1>1. MessageBits \in Nat /\ 1 <= MessageBits /\ MessageBits <= Length
  BY Constants DEF Planned
<1>2. MessageBits * MaxBlockWidth \in Nat /\ MessageBits <= MessageBits * MaxBlockWidth
  BY <1>1, Constants, SMT
<1>3. UsedPositions \in Nat /\ MessageBits <= UsedPositions /\ UsedPositions <= Length
  BY <1>1, <1>2, Constants DEF UsedPositions, Least
<1>4. BlocksPerSegment \in Nat /\ BlocksPerSegment >= 1
  <2>1. UsedPositions \div MessageBits \in Nat
    BY <1>1, <1>3, Quotient
  <2> DEFINE width == Most(1, UsedPositions \div MessageBits)
  <2>2. width \in Nat /\ width >= 1
    BY <2>1 DEF Most
  <2> HIDE DEF width
  <2>3. MaxSegmentColumns \div width \in Nat
    BY <2>2, Constants, Quotient
  <2> QED BY <2>3 DEF BlocksPerSegment, Most, width
<1> QED BY <1>1, <1>3, <1>4

\* No block is empty.
LEMMA BlockAfterBlock ==
    ASSUME Planned, NEW b \in Nat
    PROVE  BlockStart(b) \in Nat /\ BlockStart(b) < BlockStart(b + 1)
<1>1. /\ MessageBits \in Nat /\ 1 <= MessageBits
      /\ UsedPositions \in Nat /\ MessageBits <= UsedPositions
  BY Layout
<1> DEFINE n == b * UsedPositions
           o == (b + 1) * UsedPositions
<1>2. n \in Nat /\ o \in Nat /\ o = n + UsedPositions
  BY <1>1, SMT
<1> HIDE DEF n, o
<1>3. n \div MessageBits \in Nat
  BY <1>1, <1>2, Quotient
<1>4. n + MessageBits <= o
  BY <1>1, <1>2
<1>5. n \div MessageBits < o \div MessageBits
  BY <1>1, <1>2, <1>4, QuotientGrows
<1> QED BY <1>3, <1>5 DEF BlockStart, n, o

\* The blocks of all bits cover the used positions.
LEMMA BlocksSpan ==
    ASSUME Planned
    PROVE  BlockStart(0) = 0 /\ BlockStart(MessageBits) = UsedPositions
<1>1. /\ MessageBits \in Nat /\ 1 <= MessageBits
      /\ UsedPositions \in Nat
  BY Layout
<1>2. 0 * UsedPositions = 0 /\ MessageBits * 0 = 0
  BY <1>1, SMT
<1>3. 0 \div MessageBits = 0
  BY <1>1, <1>2, QuotientIs, SMT
<1> DEFINE n == MessageBits * UsedPositions
<1>4. n \in Nat
  BY <1>1, SMT
<1> HIDE DEF n
<1>5. n \div MessageBits = UsedPositions
  BY <1>1, <1>4, QuotientIs DEF n
<1> QED BY <1>2, <1>3, <1>5 DEF BlockStart, n

\* A later block does not start earlier.
LEMMA BlocksInOrder ==
    ASSUME Planned, NEW a \in Nat, NEW b \in Nat, a <= b
    PROVE  BlockStart(a) <= BlockStart(b)
<1>1. CASE a = b
  BY <1>1, BlockAfterBlock
<1>2. CASE a < b
  <2>1. /\ MessageBits \in Nat /\ 1 <= MessageBits
        /\ UsedPositions \in Nat /\ MessageBits <= UsedPositions
    BY Layout
  <2>2. a * UsedPositions \in Nat /\ b * UsedPositions \in Nat
    BY <2>1, SMT
  <2>3. a * UsedPositions + UsedPositions <= b * UsedPositions
    BY <2>1, <1>2, SMT
  <2> DEFINE n == a * UsedPositions
             o == b * UsedPositions
  <2>4. n \in Nat /\ o \in Nat /\ n + MessageBits <= o
    BY <2>1, <2>2, <2>3
  <2> HIDE DEF n, o
  <2>5. n \div MessageBits < o \div MessageBits
    BY <2>1, <2>4, QuotientGrows
  <2>6. n \div MessageBits \in Nat /\ o \div MessageBits \in Nat
    BY <2>1, <2>4, Quotient
  <2> QED BY <2>5, <2>6 DEF BlockStart, n, o
<1> QED BY <1>1, <1>2

\* A position belongs to one block.
LEMMA OneBlock ==
    ASSUME Planned, NEW q \in Nat, NEW a \in Nat, NEW b \in Nat, InBlock(q, a), InBlock(q, b)
    PROVE  a = b
<1>1. ASSUME NEW c \in Nat, NEW d \in Nat, InBlock(q, c), InBlock(q, d), c < d
      PROVE  FALSE
  <2>1. c + 1 \in Nat /\ c + 1 <= d
    BY <1>1
  <2>2. BlockStart(c + 1) <= BlockStart(d)
    BY <2>1, BlocksInOrder
  <2>3. BlockStart(d) \in Nat /\ BlockStart(c + 1) \in Nat
    BY <2>1, BlockAfterBlock
  <2> QED BY <1>1, <2>2, <2>3 DEF InBlock
<1> QED BY <1>1

\* The register after the positions of y before p, block b being open, and what
\* those positions cost.
At(y, from, b, p) ==
    {i \in 0 .. Height - 1 : Odd({q \in y : q < p /\ Meets(q, from, b, i)})}
Cost(y, p) == Cumulated(Prices(y))[p]

\* A segment begins at a multiple of its length, and no block before its end is
\* of another segment.
LEMMA Segments ==
    ASSUME Planned, first \in Nat, first < MessageBits, first % BlocksPerSegment = 0
    PROVE  /\ SegmentEnd \in Nat /\ first < SegmentEnd /\ SegmentEnd <= MessageBits
           /\ \A b \in first .. SegmentEnd - 1 : SegmentStart(b) = first
           /\ SegmentEnd < MessageBits => SegmentEnd % BlocksPerSegment = 0
<1>1. /\ MessageBits \in Nat /\ 1 <= MessageBits
      /\ BlocksPerSegment \in Nat /\ BlocksPerSegment >= 1
  BY Layout
<1>2. /\ SegmentEnd \in Nat /\ first < SegmentEnd /\ SegmentEnd <= MessageBits
      /\ SegmentEnd <= first + BlocksPerSegment
      /\ SegmentEnd < MessageBits => SegmentEnd = first + BlocksPerSegment
  BY <1>1 DEF SegmentEnd, Least
<1>3. ASSUME NEW b \in first .. SegmentEnd - 1
      PROVE  SegmentStart(b) = first
  <2>1. b \in Nat /\ first <= b /\ b < first + BlocksPerSegment
    BY <1>1, <1>2
  <2>2. b % BlocksPerSegment = b - first
    BY <1>1, <2>1, Multiple
  <2> QED BY <2>1, <2>2 DEF SegmentStart
<1>4. (first + BlocksPerSegment) % BlocksPerSegment = 0
  BY <1>1, NextMultiple
<1> QED BY <1>2, <1>3, <1>4

\* A block is in the segment that starts at it or before it.
LEMMA SegmentStartsBefore ==
    ASSUME Planned, NEW b \in Nat
    PROVE  SegmentStart(b) \in Nat /\ SegmentStart(b) <= b
<1>1. BlocksPerSegment \in Nat /\ BlocksPerSegment >= 1
  BY Layout
<1> DEFINE n == BlocksPerSegment * (b \div BlocksPerSegment)
<1>2. n \in Nat /\ n <= b /\ b % BlocksPerSegment = b - n
  <2> DEFINE k == b \div BlocksPerSegment
  <2>1. /\ k \in Nat /\ BlocksPerSegment * k <= b
        /\ b % BlocksPerSegment = b - BlocksPerSegment * k
    BY <1>1, Quotient
  <2> HIDE DEF k
  <2>2. BlocksPerSegment * k \in Nat
    BY <1>1, <2>1, SMT
  <2> QED BY <2>1, <2>2 DEF k
<1> HIDE DEF n
<1> QED BY <1>2 DEF SegmentStart
-----------------------------------------------------------------------------
(***************************************************************************)
(* The register: adding a column, and shifting a bit out, in terms of the  *)
(* parity-check matrix.                                                    *)
(***************************************************************************)
LEMMA ParityFlips ==
    ASSUME NEW S, NEW x, IsFiniteSet(S), x \notin S
    PROVE  Odd(S \cup {x}) <=> ~ Odd(S)
<1>1. Cardinality(S) \in Nat
  BY FS_CardinalityType
<1>2. Cardinality(S \cup {x}) = Cardinality(S) + 1
  BY FS_AddElement
<1> QED BY <1>1, <1>2, SMT DEF Odd

\* The empty set has even size.
LEMMA NoneIsEven == ~ Odd({})
  BY FS_EmptySet, SMT DEF Odd

\* A vector of stego bits has finitely many ones.
LEMMA VectorsAreFinite ==
    ASSUME NEW y \in SUBSET Positions
    PROVE  IsFiniteSet(y)
<1>1. IsFiniteSet(Positions)
  BY Constants, FS_Interval DEF Positions
<1> QED BY <1>1, FS_Subset

\* Crossing a column twice leads back.
LEMMA XorBack ==
    ASSUME NEW r, NEW c
    PROVE  Xor(Xor(r, c), c) = r
  BY DEF Xor

\* Exclusive or stays inside the register.
LEMMA XorIsRegister ==
    ASSUME NEW r \in Registers, NEW c \in Registers
    PROVE  Xor(r, c) \in Registers
  BY DEF Xor, Registers

\* Shifting left by the bit that was shifted out undoes the shift.
LEMMA ShiftedOut ==
    ASSUME NEW r \in Registers
    PROVE  /\ ShiftRight(r) \in Registers /\ Height - 1 \notin ShiftRight(r)
           /\ ShiftLeft(ShiftRight(r), Emitted(r)) = r
<1>1. ShiftRight(r) \in Registers /\ Height - 1 \notin ShiftRight(r)
  BY Constants DEF ShiftRight, Registers
<1>2. \A i : i \in r => i \in ShiftLeft(ShiftRight(r), Emitted(r))
  <2> SUFFICES ASSUME NEW i \in r PROVE i \in ShiftLeft(ShiftRight(r), Emitted(r))
    OBVIOUS
  <2>1. CASE i = 0
    BY <2>1 DEF ShiftLeft, Emitted
  <2>2. CASE i # 0
    <3>1. i \in Int /\ i - 1 \in ShiftRight(r) /\ (i - 1) + 1 = i
      BY <2>2, Constants DEF ShiftRight, Registers
    <3> QED BY <3>1 DEF ShiftLeft
  <2> QED BY <2>1, <2>2
<1>3. \A i : i \in ShiftLeft(ShiftRight(r), Emitted(r)) => i \in r
  <2> SUFFICES ASSUME NEW i \in ShiftLeft(ShiftRight(r), Emitted(r)) PROVE i \in r
    OBVIOUS
  <2>1. CASE i \in {j + 1 : j \in ShiftRight(r)}
    <3>1. PICK k \in r : i = (k - 1) + 1
      BY <2>1 DEF ShiftRight
    <3>2. k \in Int
      BY Constants DEF Registers
    <3> QED BY <3>1, <3>2
  <2>2. CASE i = 0 /\ Emitted(r) = 1
    BY <2>2 DEF Emitted
  <2> QED BY <2>1, <2>2 DEF ShiftLeft
<1> QED BY <1>1, <1>2, <1>3

\* Without its top bit, a register is found again after a shift to the left.
LEMMA ShiftedIn ==
    ASSUME NEW r \in Registers, Height - 1 \notin r, NEW bit \in {0, 1}
    PROVE  /\ ShiftLeft(r, bit) \in Registers
           /\ ShiftRight(ShiftLeft(r, bit)) = r
           /\ 0 \in ShiftLeft(r, bit) <=> bit = 1
<1>1. \A j \in r : j \in Nat /\ j + 1 \in 0 .. Height - 1 /\ j + 1 # 0
  BY Constants DEF Registers
<1>2. ShiftLeft(r, bit) \in Registers
  BY <1>1, Constants DEF ShiftLeft, Registers
<1>3. 0 \in ShiftLeft(r, bit) <=> bit = 1
  BY <1>1 DEF ShiftLeft
<1>4. \A i : i \in r => i \in ShiftRight(ShiftLeft(r, bit))
  <2> SUFFICES ASSUME NEW i \in r PROVE i \in ShiftRight(ShiftLeft(r, bit))
    OBVIOUS
  <2>1. i + 1 \in ShiftLeft(r, bit) \ {0} /\ (i + 1) - 1 = i
    BY <1>1 DEF ShiftLeft
  <2> QED BY <2>1 DEF ShiftRight
<1>5. \A i : i \in ShiftRight(ShiftLeft(r, bit)) => i \in r
  <2> SUFFICES ASSUME NEW i \in ShiftRight(ShiftLeft(r, bit)) PROVE i \in r
    OBVIOUS
  <2>1. PICK k \in ShiftLeft(r, bit) \ {0} : i = k - 1
    BY DEF ShiftRight
  <2>2. PICK j \in r : k = j + 1
    BY <2>1 DEF ShiftLeft
  <2> QED BY <1>1, <2>1, <2>2
<1> QED BY <1>2, <1>3, <1>4, <1>5

\* Which positions meet a bit of the register: one of the open block those of
\* its own column, and none after the block.
LEMMA MeetsOwnColumn ==
    ASSUME Planned, NEW from \in Nat, NEW b \in Nat, from <= b,
           NEW p \in Nat, InBlock(p, b), NEW i \in Nat
    PROVE  Meets(p, from, b, i) <=> i \in columns[p]
<1>1. ASSUME NEW a \in from .. b, InBlock(p, a)
      PROVE  a = b
  BY <1>1, OneBlock
<1>2. b \in from .. b /\ b - b + i = i
  OBVIOUS
<1> QED BY <1>1, <1>2 DEF Meets

\* A position a block meets lies before the end of that block.
LEMMA MeetsBefore ==
    ASSUME Planned, NEW from \in Nat, NEW b \in Nat, NEW q \in Nat, NEW i, Meets(q, from, b, i)
    PROVE  q < BlockStart(b + 1)
<1>1. PICK a \in from .. b : InBlock(q, a)
  BY DEF Meets
<1>2. BlockStart(a + 1) <= BlockStart(b + 1) /\ BlockStart(a + 1) \in Nat /\ BlockStart(b + 1) \in Nat
  BY BlocksInOrder, BlockAfterBlock
<1> QED BY <1>1, <1>2 DEF InBlock

\* Opening the next block moves every column down by a bit.
LEMMA MeetsShifted ==
    ASSUME Planned, NEW from \in Nat, NEW b \in Nat, from <= b,
           NEW q \in Nat, q < BlockStart(b + 1), NEW i \in Nat
    PROVE  Meets(q, from, b + 1, i) <=> Meets(q, from, b, i + 1)
<1>1. ~ InBlock(q, b + 1)
  BY BlockAfterBlock DEF InBlock
<1>2. ASSUME NEW a \in from .. b + 1, InBlock(q, a), (b + 1) - a + i \in columns[q]
      PROVE  a \in from .. b /\ b - a + (i + 1) \in columns[q]
  <2>1. a # b + 1
    BY <1>1, <1>2
  <2>2. (b + 1) - a + i = b - a + (i + 1)
    OBVIOUS
  <2> QED BY <1>2, <2>1, <2>2
<1>3. ASSUME NEW a \in from .. b, InBlock(q, a), b - a + (i + 1) \in columns[q]
      PROVE  a \in from .. b + 1 /\ (b + 1) - a + i \in columns[q]
  <2>1. (b + 1) - a + i = b - a + (i + 1)
    OBVIOUS
  <2> QED BY <1>3, <2>1
<1> QED BY <1>2, <1>3 DEF Meets

\* The positions before p that a bit counts.
Seen(y, from, b, p, i) == {q \in y : q < p /\ Meets(q, from, b, i)}

\* The positions that meet a bit, one position further.
LEMMA SeenAdds ==
    ASSUME Planned, NEW y \in SUBSET Positions, NEW from \in Nat, NEW b \in Nat, from <= b,
           NEW p \in Positions, InBlock(p, b), NEW i \in 0 .. Height - 1
    PROVE  Odd(Seen(y, from, b, p + 1, i)) <=>
               IF p \in y /\ i \in columns[p] THEN ~ Odd(Seen(y, from, b, p, i))
                                              ELSE Odd(Seen(y, from, b, p, i))
<1>1. p \in Nat /\ i \in Nat /\ \A q \in y : q \in Nat
  BY Constants DEF Positions
<1>2. Meets(p, from, b, i) <=> i \in columns[p]
  BY <1>1, MeetsOwnColumn
<1>3. \A q \in Nat : q < p + 1 <=> q < p \/ q = p
  BY <1>1
<1>4. CASE p \in y /\ i \in columns[p]
  <2>1. Seen(y, from, b, p + 1, i) = Seen(y, from, b, p, i) \cup {p}
    <3>1. ASSUME NEW q \in y
          PROVE  q < p + 1 /\ Meets(q, from, b, i) <=> (q < p /\ Meets(q, from, b, i)) \/ q = p
      <4>1. CASE q = p
        BY <1>1, <1>2, <1>4, <4>1
      <4>2. CASE q # p
        BY <1>1, <1>3, <4>2
      <4> QED BY <4>1, <4>2
    <3>2. ASSUME NEW q
          PROVE  q \in Seen(y, from, b, p + 1, i) <=> q \in Seen(y, from, b, p, i) \/ q = p
      BY <1>4, <3>1 DEF Seen
    <3> QED BY <3>2
  <2>2. p \notin Seen(y, from, b, p, i) /\ Seen(y, from, b, p, i) \in SUBSET Positions
    <3>1. ~ (p < p)
      BY <1>1
    <3>2. Seen(y, from, b, p, i) \subseteq y
      BY DEF Seen
    <3>3. p \notin Seen(y, from, b, p, i)
      BY <3>1 DEF Seen
    <3> QED BY <3>2, <3>3
  <2>3. IsFiniteSet(Seen(y, from, b, p, i))
    BY <2>2, VectorsAreFinite
  <2> QED BY <1>4, <2>1, <2>2, <2>3, ParityFlips
<1>5. CASE ~ (p \in y /\ i \in columns[p])
  <2>1. Seen(y, from, b, p + 1, i) = Seen(y, from, b, p, i)
    BY <1>1, <1>2, <1>3, <1>5 DEF Seen
  <2> QED BY <1>5, <2>1
<1> QED BY <1>4, <1>5

\* The bits of the register, as the parities of the positions that meet them.
LEMMA AtBits ==
    ASSUME NEW y, NEW from, NEW b, NEW p
    PROVE  /\ At(y, from, b, p) \in Registers
           /\ \A i : i \in At(y, from, b, p) <=>
                        i \in 0 .. Height - 1 /\ Odd(Seen(y, from, b, p, i))
  BY DEF At, Registers, Seen

\* A position of the vector adds its column.
LEMMA AtAdds ==
    ASSUME Planned, columns \in [Positions -> Registers],
           NEW y \in SUBSET Positions, NEW from \in Nat, NEW b \in Nat, from <= b,
           NEW p \in Positions, InBlock(p, b)
    PROVE  At(y, from, b, p + 1) = IF p \in y THEN Xor(At(y, from, b, p), columns[p])
                                              ELSE At(y, from, b, p)
<1> DEFINE r == At(y, from, b, p)
           s == At(y, from, b, p + 1)
<1>1. columns[p] \subseteq 0 .. Height - 1
  BY DEF Registers
<1>2. \A i : i \in s <=> IF p \in y /\ i \in columns[p] THEN i \in 0 .. Height - 1 /\ i \notin r
                                                       ELSE i \in r
  <2> SUFFICES ASSUME NEW i
               PROVE  i \in s <=> IF p \in y /\ i \in columns[p]
                                  THEN i \in 0 .. Height - 1 /\ i \notin r ELSE i \in r
    OBVIOUS
  <2>1. i \in s => i \in 0 .. Height - 1
    BY AtBits
  <2>2. i \in r => i \in 0 .. Height - 1
    BY AtBits
  <2>3. ASSUME i \in 0 .. Height - 1
        PROVE  i \in s <=> IF p \in y /\ i \in columns[p] THEN i \notin r ELSE i \in r
    BY <2>3, SeenAdds, AtBits
  <2> HIDE DEF r, s
  <2> QED BY <2>1, <2>2, <2>3
<1> HIDE DEF r, s
<1>3. CASE p \in y
  <2>1. \A i : i \in s <=> i \in Xor(r, columns[p])
    BY <1>1, <1>2, <1>3 DEF Xor
  <2>2. s = Xor(r, columns[p])
    BY <2>1
  <2> QED BY <1>3, <2>2 DEF r, s
<1>4. CASE p \notin y
  <2>1. s = r
    BY <1>2, <1>4
  <2> QED BY <1>4, <2>1 DEF r, s
<1> QED BY <1>3, <1>4

\* The end of a block shifts its bit out.
LEMMA AtShifts ==
    ASSUME Planned, columns \in [Positions -> Registers],
           NEW y \in SUBSET Positions, NEW from \in Nat, NEW b \in Nat, from <= b
    PROVE  At(y, from, b + 1, BlockStart(b + 1)) = ShiftRight(At(y, from, b, BlockStart(b + 1)))
<1> DEFINE p == BlockStart(b + 1)
           r == At(y, from, b, p)
           s == At(y, from, b + 1, p)
<1>1. \A q \in y : q \in Nat /\ q \in Positions
  BY Constants DEF Positions
<1>2. \A i \in Nat : Seen(y, from, b + 1, p, i) = Seen(y, from, b, p, i + 1)
  BY <1>1, MeetsShifted DEF Seen
<1>3. Seen(y, from, b, p, Height) = {}
  <2> SUFFICES ASSUME NEW q \in Seen(y, from, b, p, Height) PROVE FALSE
    OBVIOUS
  <2>0. q \in y /\ Meets(q, from, b, Height)
    BY DEF Seen
  <2>1. PICK a \in from .. b : b - a + Height \in columns[q]
    BY <2>0 DEF Meets
  <2>2. columns[q] \subseteq 0 .. Height - 1
    BY <1>1, <2>0 DEF Registers
  <2> QED BY <2>1, <2>2, Constants
<1>4. ~ Odd(Seen(y, from, b, p, Height))
  BY <1>3, NoneIsEven
<1> HIDE DEF p
<1>5. \A i \in 0 .. Height - 1 : i \in s <=> i + 1 \in r
  <2> SUFFICES ASSUME NEW i \in 0 .. Height - 1 PROVE i \in s <=> i + 1 \in r
    OBVIOUS
  <2>1. i \in s <=> Odd(Seen(y, from, b, p, i + 1))
    BY <1>2, AtBits
  <2>2. CASE i + 1 \in 0 .. Height - 1
    BY <2>1, <2>2, AtBits
  <2>3. CASE i + 1 = Height
    <3>1. i + 1 \notin r
      BY <2>3, AtBits, Constants
    <3> QED BY <2>1, <2>3, <3>1, <1>4
  <2> QED BY <2>2, <2>3, Constants
<1>6. s \subseteq 0 .. Height - 1 /\ r \subseteq 0 .. Height - 1
  BY AtBits
<1> HIDE DEF r, s
<1>7. \A i : i \in ShiftRight(r) <=> i \in 0 .. Height - 1 /\ i + 1 \in r
  <2>1. ASSUME NEW i \in ShiftRight(r) PROVE i \in 0 .. Height - 1 /\ i + 1 \in r
    <3>1. PICK k \in r \ {0} : i = k - 1
      BY DEF ShiftRight
    <3>2. k \in Int /\ k >= 1 /\ k <= Height - 1 /\ (k - 1) + 1 = k
      BY <1>6, <3>1, Constants
    <3> QED BY <3>1, <3>2, Constants
  <2>2. ASSUME NEW i \in 0 .. Height - 1, i + 1 \in r PROVE i \in ShiftRight(r)
    <3>1. i + 1 \in r \ {0} /\ (i + 1) - 1 = i
      BY <2>2
    <3> QED BY <3>1 DEF ShiftRight
  <2> QED BY <2>1, <2>2
<1>8. s = ShiftRight(r)
  BY <1>5, <1>6, <1>7
<1> QED BY <1>8 DEF p, r, s

\* Bit zero at the end of a block is the row of the matrix.
LEMMA AtRow ==
    ASSUME Planned, NEW y \in SUBSET Positions, NEW b \in Nat
    PROVE  0 \in At(y, SegmentStart(b), b, BlockStart(b + 1)) <=> Row(y, b)
<1> DEFINE from == SegmentStart(b)
<1>1. from \in Nat
  BY SegmentStartsBefore
<1>2. \A q \in y : q \in Nat
  BY Constants DEF Positions
<1> HIDE DEF from
<1>3. \A q \in y : Meets(q, from, b, 0) => q < BlockStart(b + 1)
  BY <1>1, <1>2, MeetsBefore
<1>4. Seen(y, from, b, BlockStart(b + 1), 0) = {q \in y : Meets(q, from, b, 0)}
  BY <1>3 DEF Seen
<1>5. 0 \in 0 .. Height - 1
  BY Constants
<1> QED BY <1>4, <1>5, AtBits DEF Row, from

\* A segment starts from the zero register.
LEMMA AtStart ==
    ASSUME Planned, NEW y \in SUBSET Positions, NEW b \in Nat
    PROVE  At(y, b, b, BlockStart(b)) = {}
<1>1. ASSUME NEW i PROVE i \notin At(y, b, b, BlockStart(b))
  <2>1. ASSUME NEW q \in Seen(y, b, b, BlockStart(b), i) PROVE FALSE
    <3>1. q \in y /\ q < BlockStart(b) /\ Meets(q, b, b, i)
      BY <2>1 DEF Seen
    <3>2. PICK a \in b .. b : InBlock(q, a)
      BY <3>1 DEF Meets
    <3>3. a = b /\ q \in Int
      BY <3>1, Constants DEF Positions
    <3> QED BY <3>1, <3>2, <3>3, BlockAfterBlock DEF InBlock
  <2>2. Seen(y, b, b, BlockStart(b), i) = {}
    BY <2>1
  <2> QED BY <2>2, NoneIsEven, AtBits
<1> QED BY <1>1

\* The register and the syndrome look at nothing ahead.
LEMMA AtLooksBack ==
    ASSUME NEW y, NEW z, NEW p, Below(y, p) = Below(z, p), NEW from, NEW b
    PROVE  At(y, from, b, p) = At(z, from, b, p)
<1>1. ASSUME NEW i PROVE Seen(y, from, b, p, i) = Seen(z, from, b, p, i)
  <2>1. Seen(y, from, b, p, i) = {q \in Below(y, p) : Meets(q, from, b, i)}
    BY DEF Seen, Below
  <2>2. Seen(z, from, b, p, i) = {q \in Below(z, p) : Meets(q, from, b, i)}
    BY DEF Seen, Below
  <2> QED BY <2>1, <2>2
<1>2. \A i : i \in At(y, from, b, p) <=> i \in At(z, from, b, p)
  BY <1>1, AtBits
<1> QED BY <1>2
-----------------------------------------------------------------------------
\* The first b bits of the syndrome are those of the message.
Right(y, b) == \A a \in 0 .. b - 1 : Row(y, a) <=> Bit(a) = 1

\* Vectors that agree up to a position agree up to an earlier one.
LEMMA BelowEarlier ==
    ASSUME NEW y \in SUBSET Nat, NEW z \in SUBSET Nat, NEW p \in Nat, NEW q \in Nat, q <= p,
           Below(y, p) = Below(z, p)
    PROVE  Below(y, q) = Below(z, q)
<1>1. \A k \in Nat : k < q => k < p
  OBVIOUS
<1>2. \A k \in Below(y, q) : k \in Below(z, q)
  BY <1>1 DEF Below
<1>3. \A k \in Below(z, q) : k \in Below(y, q)
  BY <1>1 DEF Below
<1> QED BY <1>2, <1>3

\* The first bits of the syndrome depend on the positions of their blocks only.
LEMMA RightLooksBack ==
    ASSUME Planned, NEW y \in SUBSET Positions, NEW z \in SUBSET Positions, NEW b \in Nat,
           Below(y, BlockStart(b)) = Below(z, BlockStart(b)), Right(y, b)
    PROVE  Right(z, b)
<1> SUFFICES ASSUME NEW a \in 0 .. b - 1 PROVE Row(z, a) <=> Bit(a) = 1
  BY DEF Right
<1>1. a \in Nat /\ a + 1 \in Nat /\ a + 1 <= b
  OBVIOUS
<1>2. /\ BlockStart(a + 1) \in Nat /\ BlockStart(b) \in Nat
      /\ BlockStart(a + 1) <= BlockStart(b)
  BY <1>1, BlockAfterBlock, BlocksInOrder
<1>3. Below(y, BlockStart(a + 1)) = Below(z, BlockStart(a + 1))
  <2>1. y \in SUBSET Nat /\ z \in SUBSET Nat
    BY Constants DEF Positions
  <2> QED BY <1>2, <2>1, BelowEarlier
<1>4. Row(y, a) <=> Row(z, a)
  BY <1>1, <1>3, AtLooksBack, AtRow
<1> QED BY <1>4 DEF Right

\* One more bit of the syndrome.
LEMMA RightGrows ==
    ASSUME NEW y, NEW b \in Nat
    PROVE  Right(y, b + 1) <=> Right(y, b) /\ (Row(y, b) <=> Bit(b) = 1)
<1>1. \A a : a \in 0 .. (b + 1) - 1 <=> a \in 0 .. b - 1 \/ a = b
  OBVIOUS
<1> QED BY <1>1 DEF Right

\* No bit of the syndrome is wrong before the first.
LEMMA RightAtOnce ==
    ASSUME NEW y
    PROVE  Right(y, 0)
  BY DEF Right

\* All of it right is what the syndrome says.
LEMMA SyndromeIsRight ==
    ASSUME Planned, message \in Seq({0, 1}), NEW y
    PROVE  Syndrome(y) = message <=> Right(y, MessageBits)
<1>1. /\ MessageBits \in Nat /\ MessageBits = Len(message)
      /\ message \in [1 .. MessageBits -> {0, 1}]
  BY DEF MessageBits
<1>2. Syndrome(y) = message <=>
          \A n \in 1 .. MessageBits : message[n] = IF Row(y, n - 1) THEN 1 ELSE 0
  BY <1>1 DEF Syndrome
<1>3. ASSUME \A n \in 1 .. MessageBits : message[n] = IF Row(y, n - 1) THEN 1 ELSE 0
      PROVE  Right(y, MessageBits)
  <2> SUFFICES ASSUME NEW a \in 0 .. MessageBits - 1 PROVE Row(y, a) <=> Bit(a) = 1
    BY DEF Right
  <2>1. a + 1 \in 1 .. MessageBits /\ (a + 1) - 1 = a
    BY <1>1
  <2>2. message[a + 1] = IF Row(y, a) THEN 1 ELSE 0
    BY <1>3, <2>1
  <2> QED BY <2>2 DEF Bit
<1>4. ASSUME Right(y, MessageBits), NEW n \in 1 .. MessageBits
      PROVE  message[n] = IF Row(y, n - 1) THEN 1 ELSE 0
  <2>1. n - 1 \in 0 .. MessageBits - 1 /\ (n - 1) + 1 = n
    BY <1>1
  <2>2. Row(y, n - 1) <=> message[n] = 1
    BY <1>4, <2>1 DEF Right, Bit
  <2>3. message[n] \in {0, 1}
    BY <1>1
  <2> QED BY <2>2, <2>3
<1> QED BY <1>2, <1>3, <1>4
-----------------------------------------------------------------------------
(***************************************************************************)
(* The sums.  A set of numbers that holds 0 and n + 1 with every n holds   *)
(* all of them, which is how a recursive sum is known to exist.            *)
(***************************************************************************)
LEMMA NatMin ==
    ASSUME NEW T, T \subseteq Nat, T # {}
    PROVE  \E x \in T : \A y \in T : x <= y
<1> DEFINE R == {ss \in Nat \X Nat : ss[1] < ss[2]}
<1>1. IsWellFoundedOn(R, Nat)
  BY NatLessThanWellFounded DEF OpToRel
<1>2. \E x \in T : \A y \in T : <<y, x>> \notin R
  <2> HIDE DEF R
  <2> QED BY <1>1, WFMin
<1>3. \A x, y \in Nat : <<y, x>> \notin R => x <= y
  <2> SUFFICES ASSUME NEW x \in Nat, NEW y \in Nat, ~(x <= y) PROVE <<y, x>> \in R
    OBVIOUS
  <2>1. y < x
    OBVIOUS
  <2> QED BY <2>1
<1> HIDE DEF R
<1> QED BY <1>2, <1>3

\* Induction over a set of naturals, from the least one that is not in it.
LEMMA NatInd ==
    ASSUME NEW S, 0 \in S, \A n \in Nat : n \in S => n + 1 \in S
    PROVE  Nat \subseteq S
<1> DEFINE T == {n \in Nat : n \notin S}
<1> SUFFICES ASSUME T # {} PROVE FALSE
  OBVIOUS
<1>1. PICK x \in T : \A y \in T : x <= y
  <2>1. T \subseteq Nat
    OBVIOUS
  <2> HIDE DEF T
  <2> QED BY <2>1, NatMin
<1>2. x # 0 /\ x \in Nat
  OBVIOUS
<1>3. x - 1 \in Nat /\ x - 1 \notin T
  BY <1>1, <1>2
<1> QED BY <1>2, <1>3

\* What the sum is, up to the n-th place.
Sums(g, f, n) == g = [p \in 0 .. n |-> IF p = 0 THEN 0 ELSE g[p - 1] + f[p - 1]]

\* The recursion of Cumulated defines a function.
LEMMA SumExists ==
    ASSUME NEW f, NEW n \in Nat
    PROVE  \E g : Sums(g, f, n)
<1> DEFINE S == {m \in Nat : \E g : Sums(g, f, m)}
<1>1. 0 \in S
  <2> DEFINE g == [p \in 0 .. 0 |-> 0]
  <2>1. Sums(g, f, 0)
    BY DEF Sums
  <2> QED BY <2>1
<1>2. ASSUME NEW m \in Nat, m \in S
      PROVE  m + 1 \in S
  <2>1. PICK g : Sums(g, f, m)
    BY <1>2
  <2> DEFINE h == [p \in 0 .. m + 1 |-> IF p <= m THEN g[p] ELSE g[m] + f[m]]
  <2>2. \A p \in 0 .. m : g[p] = IF p = 0 THEN 0 ELSE g[p - 1] + f[p - 1]
    BY <2>1 DEF Sums
  <2>3. \A p \in 0 .. m + 1 : h[p] = IF p = 0 THEN 0 ELSE h[p - 1] + f[p - 1]
    <3> SUFFICES ASSUME NEW p \in 0 .. m + 1
                 PROVE  h[p] = IF p = 0 THEN 0 ELSE h[p - 1] + f[p - 1]
      OBVIOUS
    <3>1. CASE p = 0
      BY <2>2, <3>1
    <3>2. CASE p # 0 /\ p <= m
      <4>1. p - 1 \in 0 .. m /\ p \in 0 .. m
        BY <3>2
      <4> QED BY <2>2, <3>2, <4>1
    <3>3. CASE p = m + 1
      <4>1. p - 1 = m /\ m \in 0 .. m + 1 /\ p # 0 /\ ~(p <= m)
        BY <3>3
      <4> QED BY <3>3, <4>1
    <3> QED BY <3>1, <3>2, <3>3
  <2>4. Sums(h, f, m + 1)
    <3>1. h = [p \in 0 .. m + 1 |-> h[p]]
      OBVIOUS
    <3> HIDE DEF h
    <3> QED BY <2>3, <3>1 DEF Sums
  <2> HIDE DEF h
  <2> QED BY <2>4
<1>3. Nat \subseteq S
  <2> HIDE DEF S
  <2> QED BY <1>1, <1>2, NatInd
<1> QED BY <1>3

\* The recursion of Cumulated, one position at a time.
LEMMA CumulatedIs ==
    ASSUME NEW f
    PROVE  /\ Cumulated(f)[0] = 0
           /\ \A p \in Positions : Cumulated(f)[p + 1] = Cumulated(f)[p] + f[p]
<1> DEFINE g == Cumulated(f)
<1>1. g = CHOOSE h : Sums(h, f, Length)
  BY DEF Cumulated, Sums
<1>2. Sums(g, f, Length)
  <2> HIDE DEF g
  <2> QED BY <1>1, SumExists, Constants
<1> HIDE DEF g
<1>3. \A p \in 0 .. Length : g[p] = IF p = 0 THEN 0 ELSE g[p - 1] + f[p - 1]
  BY <1>2 DEF Sums
<1>4. g[0] = 0
  BY <1>3, Constants
<1>5. ASSUME NEW p \in Positions PROVE g[p + 1] = g[p] + f[p]
  <2>1. p + 1 \in 0 .. Length /\ p + 1 # 0 /\ (p + 1) - 1 = p
    BY Constants DEF Positions
  <2> QED BY <1>3, <2>1
<1> QED BY <1>4, <1>5 DEF g

\* Induction along the positions.
LEMMA Along ==
    ASSUME NEW S, 0 \in S, \A p \in Positions : p \in S => p + 1 \in S
    PROVE  0 .. Length \subseteq S
<1> DEFINE T == {n \in Nat : n <= Length => n \in S}
<1>1. 0 \in T
  OBVIOUS
<1>2. ASSUME NEW n \in Nat, n \in T PROVE n + 1 \in T
  <2>1. CASE n + 1 <= Length
    <3>1. n \in Positions
      BY <2>1, Constants DEF Positions
    <3>2. n \in S
      BY <1>2, <2>1, Constants
    <3> QED BY <3>1, <3>2
  <2>2. CASE ~ (n + 1 <= Length)
    BY <2>2
  <2> QED BY <2>1, <2>2
<1>3. Nat \subseteq T
  <2> HIDE DEF T
  <2> QED BY <1>1, <1>2, NatInd
<1>4. ASSUME NEW p \in 0 .. Length PROVE p \in S
  <2>1. p \in Nat /\ p <= Length /\ p \in T
    BY <1>3, Constants
  <2> QED BY <2>1
<1> QED BY <1>4

\* Sums of naturals are naturals.
LEMMA CumulatedNat ==
    ASSUME NEW f \in [Positions -> Nat]
    PROVE  \A p \in 0 .. Length : Cumulated(f)[p] \in Nat
<1> DEFINE S == {p \in 0 .. Length : Cumulated(f)[p] \in Nat}
<1>1. 0 \in S
  BY CumulatedIs, Constants
<1>2. ASSUME NEW p \in Positions, p \in S PROVE p + 1 \in S
  <2>1. Cumulated(f)[p + 1] = Cumulated(f)[p] + f[p]
    BY CumulatedIs
  <2>2. p + 1 \in 0 .. Length
    BY Constants DEF Positions
  <2> QED BY <1>2, <2>1, <2>2
<1>3. 0 .. Length \subseteq S
  <2> HIDE DEF S
  <2> QED BY <1>1, <1>2, Along
<1> QED BY <1>3

\* Sums of naturals grow along the positions.
LEMMA CumulatedGrows ==
    ASSUME NEW f \in [Positions -> Nat], NEW p, NEW q, p \in 0 .. Length, q \in 0 .. Length, p <= q
    PROVE  Cumulated(f)[p] <= Cumulated(f)[q]
<1> DEFINE S == {k \in 0 .. Length : p <= k => Cumulated(f)[p] <= Cumulated(f)[k]}
<1>1. 0 \in S
  BY CumulatedNat, Constants
<1>2. ASSUME NEW k \in Positions, k \in S PROVE k + 1 \in S
  <2>1. Cumulated(f)[k + 1] = Cumulated(f)[k] + f[k] /\ f[k] \in Nat
    BY CumulatedIs
  <2>2. k + 1 \in 0 .. Length /\ k \in 0 .. Length /\ k \in Nat
    BY Constants DEF Positions
  <2>3. Cumulated(f)[k] \in Nat /\ Cumulated(f)[k + 1] \in Nat /\ Cumulated(f)[p] \in Nat
    BY <2>2, CumulatedNat
  <2>4. CASE p <= k
    BY <1>2, <2>1, <2>2, <2>3, <2>4
  <2>5. CASE p = k + 1
    BY <2>2, <2>3, <2>5
  <2>6. CASE p > k + 1
    BY <2>2, <2>6
  <2> QED BY <2>2, <2>4, <2>5, <2>6
<1>3. 0 .. Length \subseteq S
  <2> HIDE DEF S
  <2> QED BY <1>1, <1>2, Along
<1> QED BY <1>3

\* Lower prices, lower sums.
LEMMA CumulatedBelow ==
    ASSUME NEW f \in [Positions -> Nat], NEW g \in [Positions -> Nat],
           \A p \in Positions : f[p] <= g[p]
    PROVE  \A p \in 0 .. Length : Cumulated(f)[p] <= Cumulated(g)[p]
<1> DEFINE S == {p \in 0 .. Length : Cumulated(f)[p] <= Cumulated(g)[p]}
<1>1. 0 \in S
  BY CumulatedIs, Constants
<1>2. ASSUME NEW p \in Positions, p \in S PROVE p + 1 \in S
  <2>1. /\ Cumulated(f)[p + 1] = Cumulated(f)[p] + f[p] /\ f[p] \in Nat
        /\ Cumulated(g)[p + 1] = Cumulated(g)[p] + g[p] /\ g[p] \in Nat /\ f[p] <= g[p]
    BY CumulatedIs
  <2>2. p + 1 \in 0 .. Length /\ p \in 0 .. Length
    BY Constants DEF Positions
  <2>3. Cumulated(f)[p] \in Nat /\ Cumulated(g)[p] \in Nat
    BY <2>2, CumulatedNat
  <2> QED BY <1>2, <2>1, <2>2, <2>3
<1>3. 0 .. Length \subseteq S
  <2> HIDE DEF S
  <2> QED BY <1>1, <1>2, Along
<1> QED BY <1>3

\* A sum depends on the positions before it only.
LEMMA CumulatedLooksBack ==
    ASSUME NEW f, NEW g, NEW q, q \in 0 .. Length,
           \A p \in Positions : p < q => f[p] = g[p]
    PROVE  Cumulated(f)[q] = Cumulated(g)[q]
<1> DEFINE S == {p \in 0 .. Length : p <= q => Cumulated(f)[p] = Cumulated(g)[p]}
<1>1. 0 \in S
  BY CumulatedIs, Constants
<1>2. ASSUME NEW p \in Positions, p \in S PROVE p + 1 \in S
  <2>1. /\ Cumulated(f)[p + 1] = Cumulated(f)[p] + f[p]
        /\ Cumulated(g)[p + 1] = Cumulated(g)[p] + g[p]
    BY CumulatedIs
  <2>2. p + 1 \in 0 .. Length /\ p \in Nat /\ q \in Nat
    BY Constants DEF Positions
  <2>3. CASE p + 1 <= q
    <3>1. p < q /\ p <= q
      BY <2>2, <2>3
    <3>2. f[p] = g[p] /\ Cumulated(f)[p] = Cumulated(g)[p]
      BY <1>2, <3>1
    <3> QED BY <2>1, <2>2, <3>2
  <2>4. CASE ~ (p + 1 <= q)
    BY <2>2, <2>4
  <2> QED BY <2>3, <2>4
<1>3. 0 .. Length \subseteq S
  <2> HIDE DEF S
  <2> QED BY <1>1, <1>2, Along
<1> QED BY <1>3, Constants

(***************************************************************************)
(* What a vector costs.                                                    *)
(***************************************************************************)
Valid == rho \in CostMaps /\ \A p \in Positions : rho[p] >= 0

\* A position costs what changing it costs, or nothing.
LEMMA PricesAre ==
    ASSUME Valid, NEW y
    PROVE  /\ Prices(y) \in [Positions -> Nat] /\ rho \in [Positions -> Nat]
           /\ \A p \in Positions : /\ Prices(y)[p] <= rho[p]
                                   /\ Prices(y)[p] = IF (p \in y) # (cover[p] % 2 = 1)
                                                     THEN rho[p] ELSE 0
<1>1. rho \in [Positions -> Int]
  BY TrellisAssumption DEF Valid
<1>2. \A p \in Positions : rho[p] \in Nat
  BY <1>1 DEF Valid
<1>3. rho \in [Positions -> Nat]
  BY <1>1, <1>2
<1>4. \A p \in Positions : Prices(y)[p] = IF (p \in y) # (cover[p] % 2 = 1) THEN rho[p] ELSE 0
  BY DEF Prices
<1>5. \A p \in Positions : Prices(y)[p] \in Nat /\ Prices(y)[p] <= rho[p]
  <2> SUFFICES ASSUME NEW p \in Positions PROVE Prices(y)[p] \in Nat /\ Prices(y)[p] <= rho[p]
    OBVIOUS
  <2>1. Prices(y)[p] = rho[p] \/ Prices(y)[p] = 0
    BY <1>4
  <2> QED BY <1>2, <2>1
<1>6. Prices(y) \in [Positions -> Nat]
  BY <1>5 DEF Prices
<1> QED BY <1>3, <1>4, <1>5, <1>6

\* The distortion, one position further, stays below the sentinel.
LEMMA CostSteps ==
    ASSUME Valid, NEW y, NEW p \in Positions
    PROVE  /\ Cost(y, p) \in Nat /\ Cost(y, p + 1) \in Nat
           /\ Cost(y, p + 1) = Cost(y, p) + Prices(y)[p] /\ Prices(y)[p] \in Nat
           /\ rho[p] \in Nat /\ Cost(y, p) + rho[p] < Infinity
<1>1. Prices(y) \in [Positions -> Nat] /\ rho \in [Positions -> Nat]
  BY PricesAre
<1>2. p \in 0 .. Length /\ p + 1 \in 0 .. Length /\ p + 1 <= Length /\ Length \in 0 .. Length
  BY Constants DEF Positions
<1>3. Cost(y, p) \in Nat /\ Cost(y, p + 1) \in Nat
  BY <1>1, <1>2, CumulatedNat DEF Cost
<1>4. Cost(y, p + 1) = Cost(y, p) + Prices(y)[p]
  BY CumulatedIs DEF Cost
<1>5. Cost(y, p) <= Cumulated(rho)[p] /\ Cumulated(rho)[p] \in Nat
  <2>1. \A q \in Positions : Prices(y)[q] <= rho[q]
    BY PricesAre
  <2> QED BY <1>1, <1>2, <2>1, CumulatedBelow, CumulatedNat DEF Cost
<1>6. Cumulated(rho)[p + 1] = Cumulated(rho)[p] + rho[p]
  BY CumulatedIs
<1>7. Cumulated(rho)[p + 1] <= Cumulated(rho)[Length]
  BY <1>1, <1>2, CumulatedGrows
<1>8. Cumulated(rho)[Length] < Infinity
  BY TrellisAssumption DEF Valid
<1>9. Cumulated(rho)[Length] \in Nat /\ rho[p] \in Nat /\ Prices(y)[p] \in Nat
  BY <1>1, <1>2, CumulatedNat
<1> QED BY <1>3, <1>4, <1>5, <1>6, <1>7, <1>8, <1>9, Constants

\* No vector costs as much as the sentinel.
LEMMA CostIsFinite ==
    ASSUME Valid, NEW y, NEW p, p \in 0 .. Length
    PROVE  Cost(y, p) \in Nat /\ Cost(y, p) < Infinity
<1>1. Prices(y) \in [Positions -> Nat] /\ rho \in [Positions -> Nat]
  BY PricesAre
<1>2. p <= Length /\ Length \in 0 .. Length
  BY Constants
<1>3. Cost(y, p) \in Nat /\ Cumulated(rho)[p] \in Nat /\ Cumulated(rho)[Length] \in Nat
  BY <1>1, <1>2, CumulatedNat DEF Cost
<1>4. Cost(y, p) <= Cumulated(rho)[p]
  <2>1. \A q \in Positions : Prices(y)[q] <= rho[q]
    BY PricesAre
  <2> QED BY <1>1, <2>1, CumulatedBelow DEF Cost
<1>5. Cumulated(rho)[p] <= Cumulated(rho)[Length]
  BY <1>1, <1>2, CumulatedGrows
<1>6. Cumulated(rho)[Length] < Infinity
  BY TrellisAssumption DEF Valid
<1> QED BY <1>3, <1>4, <1>5, <1>6, Constants

\* The cost up to a position depends on the positions before it only.
LEMMA CostLooksBack ==
    ASSUME NEW y, NEW z, NEW p, p \in 0 .. Length, Below(y, p) = Below(z, p)
    PROVE  Cost(y, p) = Cost(z, p)
<1>1. ASSUME NEW q \in Positions, q < p
      PROVE  Prices(y)[q] = Prices(z)[q]
  <2>1. q \in y <=> q \in z
    BY <1>1 DEF Below
  <2> QED BY <2>1 DEF Prices
<1> QED BY <1>1, CumulatedLooksBack DEF Cost
-----------------------------------------------------------------------------
(***************************************************************************)
(* The invariant.  Going forward, the metric of a register is what its     *)
(* cheapest path costs: some path of the survivors costs that much, and no *)
(* vector with the right bits so far costs less.  Going back, the register *)
(* follows one cheapest path, whose later positions are in stego already.  *)
(***************************************************************************)
Start == BlockStart(first)
End == BlockStart(SegmentEnd)

\* The survivors lead back along y.
Traced(y, p) ==
    \A q \in Start .. p - 1 : \A b \in first .. SegmentEnd - 1 :
        InBlock(q, b) => (q \in y <=> At(y, first, b, q + 1) \in survivors[q])

\* A path to a register of the forward pass, and that there is none cheaper.
Path(y, r) ==
    /\ y \subseteq 0 .. position - 1
    /\ Below(y, Start) = stego
    /\ Right(y, block)
    /\ At(y, first, block, position) = r
    /\ Cost(y, position) = Cost(stego, Start) + metric[r]
    /\ Traced(y, position)

Reached == \A r \in Registers : metric[r] < Infinity => \E y \in Vectors : Path(y, r)

Cheapest ==
    \A z \in Vectors : Right(z, block) =>
        Cost(stego, Start) + metric[At(z, first, block, position)] <= Cost(z, position)

\* Some register is reached, and one of either parity once a block is begun.
Alive ==
    /\ \E r \in Registers : metric[r] < Infinity
    /\ position > BlockStart(block) =>
          \A odd \in BOOLEAN : \E r \in Registers : metric[r] < Infinity /\ (0 \in r <=> odd)

Segment ==
    /\ first \in 0 .. MessageBits - 1 /\ first % BlocksPerSegment = 0
    /\ block \in first .. SegmentEnd

Forward ==
    /\ Planned /\ Segment /\ stego \subseteq 0 .. Start - 1
    /\ Reached /\ Cheapest /\ Alive

Extending ==
    pc = "forward" => /\ Forward /\ block < SegmentEnd
                      /\ position \in BlockStart(block) .. BlockStart(block + 1)

Picking ==
    pc = "pick" => Forward /\ block = SegmentEnd /\ position = End

\* A cheapest path of the segment, of which the backward pass has the end.
Solution(y, upTo, to) ==
    /\ y \subseteq 0 .. to - 1
    /\ Right(y, upTo)
    /\ \A z \in Vectors : Right(z, upTo) => Cost(y, to) <= Cost(z, to)

Tracing(y) ==
    /\ Solution(y, SegmentEnd, End)
    /\ Below(y, Start) = Below(stego, Start)
    /\ \A p \in position .. End - 1 : p \in y <=> p \in stego
    /\ register = At(y, first, block, position)
    /\ Traced(y, position)

Backtracking ==
    pc = "backward" =>
        /\ Planned /\ Segment /\ block < SegmentEnd
        /\ position \in BlockStart(block) .. BlockStart(block + 1)
        /\ \A p \in stego : p < Start \/ (position <= p /\ p < End)
        /\ \E y \in Vectors : Tracing(y)

Solved == pc = "apply" => Planned /\ Solution(stego, MessageBits, UsedPositions)

\* Every sample spells its stego bit, one level from where it was at most.
Spelled ==
    \A p \in Positions :
        /\ samples[p] \in cover[p] - 1 .. cover[p] + 1
        /\ IF p < UsedPositions THEN (samples[p] % 2 = 1) <=> (p \in stego)
                                ELSE samples[p] = cover[p]

Reading ==
    pc = "read" =>
        /\ Planned /\ Right(stego, MessageBits) /\ Spelled /\ result = "ok"
        /\ block \in 0 .. MessageBits - 1
        /\ position \in BlockStart(block) .. BlockStart(block + 1)
        /\ decoded = SubSeq(message, 1, block)
        /\ \/ position = BlockStart(block) /\ block % BlocksPerSegment = 0
           \/ register = At(stego, SegmentStart(block), block, position)

Finishing ==
    pc = "done" =>
        \/ result \in {"exceeds_capacity", "invalid_costs"} /\ samples = cover
        \/ result = "ok" /\ decoded = message /\ (MessageBits = 0 => samples = cover)
              /\ (MessageBits > 0 => Spelled)

Untouched ==
    pc \in {"check", "forward", "pick", "backward", "apply"} =>
        /\ samples = cover /\ result = "pending" /\ decoded = <<>>
        /\ pc = "check" => /\ position = 0 /\ block = 0 /\ first = 0 /\ stego = {}
                           /\ metric = Origin

IInv == /\ TypeOK /\ columns \in [Positions -> Columns] /\ Untouched
        /\ Extending /\ Picking /\ Backtracking /\ Solved /\ Reading /\ Finishing

\* None of this changes while the inputs do not.
LEMMA Kept ==
    ASSUME UNCHANGED inputs
    PROVE  /\ MessageBits' = MessageBits /\ UsedPositions' = UsedPositions
           /\ BlocksPerSegment' = BlocksPerSegment
           /\ (Planned' <=> Planned) /\ Vectors' = Vectors
           /\ \A b : BlockStart(b)' = BlockStart(b) /\ Bit(b)' = Bit(b)
                     /\ SegmentStart(b)' = SegmentStart(b)
           /\ \A q, b : InBlock(q, b)' <=> InBlock(q, b)
           /\ \A y, p : Cost(y, p)' = Cost(y, p)
           /\ \A y, f, b, p : At(y, f, b, p)' = At(y, f, b, p)
<1> USE DEF inputs
<1>1. /\ MessageBits' = MessageBits /\ UsedPositions' = UsedPositions
      /\ BlocksPerSegment' = BlocksPerSegment
  BY DEF MessageBits, UsedPositions, BlocksPerSegment
<1>2. (Planned' <=> Planned) /\ Vectors' = Vectors
  BY <1>1 DEF Planned, Vectors
<1>3. \A b : BlockStart(b)' = BlockStart(b) /\ Bit(b)' = Bit(b)
             /\ SegmentStart(b)' = SegmentStart(b)
  BY <1>1 DEF BlockStart, Bit, SegmentStart
<1>4. \A q, b : InBlock(q, b)' <=> InBlock(q, b)
  BY <1>3 DEF InBlock
<1>5. ASSUME NEW y, NEW p PROVE Cost(y, p)' = Cost(y, p)
  <2>1. Prices(y)' = Prices(y)
    BY DEF Prices
  <2> QED BY <2>1 DEF Cost
<1>6. ASSUME NEW y, NEW f, NEW b, NEW p PROVE At(y, f, b, p)' = At(y, f, b, p)
  BY <1>4 DEF At, Meets
<1> QED BY <1>1, <1>2, <1>3, <1>4, <1>5, <1>6

\* The syndrome does not change while the inputs do not.
LEMMA RightKept ==
    ASSUME UNCHANGED inputs, NEW y, NEW b
    PROVE  Right(y, b)' <=> Right(y, b)
<1>1. \A a : Row(y, a)' <=> Row(y, a)
  BY Kept DEF Row, Meets, inputs
<1> QED BY <1>1, Kept DEF Right

\* Nor does what solves it.
LEMMA SolutionKept ==
    ASSUME UNCHANGED inputs, NEW y, NEW b, NEW p
    PROVE  Solution(y, b, p)' <=> Solution(y, b, p)
  BY Kept, RightKept DEF Solution
-----------------------------------------------------------------------------
\* Every column has its lowest bit set.
LEMMA ColumnsAre ==
    ASSUME columns \in [Positions -> Columns]
    PROVE  columns \in [Positions -> Registers] /\ \A p \in Positions : 0 \in columns[p]
<1>1. ASSUME NEW c \in Columns PROVE c \in Registers /\ 0 \in c
  <2>1. PICK draw \in Registers \ {{}} : c = draw \cup {0, Height - 1}
    BY <1>1 DEF Columns
  <2>2. 0 \in 0 .. Height - 1 /\ Height - 1 \in 0 .. Height - 1
    BY Constants
  <2> QED BY <2>1, <2>2 DEF Registers
<1> QED BY <1>1

\* Where a block of the segment lies.
LEMMA InSegment ==
    ASSUME Planned, Segment, NEW b, b \in first .. SegmentEnd - 1
    PROVE  /\ first \in Nat /\ b \in Nat /\ first <= b /\ b + 1 <= MessageBits
           /\ SegmentEnd \in Nat /\ SegmentEnd <= MessageBits /\ SegmentStart(b) = first
           /\ Start \in Nat /\ BlockStart(b) \in Nat /\ BlockStart(b + 1) \in Nat /\ End \in Nat
           /\ Start <= BlockStart(b) /\ BlockStart(b) < BlockStart(b + 1)
           /\ BlockStart(b + 1) <= End /\ End <= UsedPositions
           /\ UsedPositions \in Nat /\ UsedPositions <= Length
<1>1. MessageBits \in Nat /\ UsedPositions \in Nat /\ UsedPositions <= Length
  BY Layout
<1>2. first \in Nat /\ first < MessageBits /\ first % BlocksPerSegment = 0
  BY <1>1 DEF Segment
<1>3. /\ SegmentEnd \in Nat /\ first < SegmentEnd /\ SegmentEnd <= MessageBits
      /\ SegmentStart(b) = first
  BY <1>2, Segments
<1>4. b \in Nat /\ first <= b /\ b + 1 <= SegmentEnd /\ b + 1 \in Nat
  BY <1>2, <1>3
<1>5. /\ Start \in Nat /\ BlockStart(b) \in Nat /\ BlockStart(b + 1) \in Nat /\ End \in Nat
      /\ BlockStart(b) < BlockStart(b + 1)
  BY <1>2, <1>3, <1>4, BlockAfterBlock DEF Start, End
<1>6. Start <= BlockStart(b) /\ BlockStart(b + 1) <= End
  BY <1>2, <1>3, <1>4, BlocksInOrder DEF Start, End
<1>7. End <= UsedPositions
  BY <1>1, <1>3, BlocksInOrder, BlocksSpan DEF End
<1> QED BY <1>1, <1>2, <1>3, <1>4, <1>5, <1>6, <1>7

\* Vectors are over the positions of the cover.
LEMMA VectorsArePositions ==
    ASSUME Planned
    PROVE  Vectors \subseteq SUBSET Positions
  BY Layout, Constants DEF Vectors, Positions

\* What a path that is reached costs, another position included, is finite.
LEMMA ReachedIsPaid ==
    ASSUME Valid, NEW s, NEW d, d \in 0 .. Length, NEW y, NEW p \in Positions, NEW n \in Nat,
           Cost(y, p) = Cost(s, d) + n
    PROVE  n + rho[p] < Infinity
<1>1. Cost(s, d) \in Nat
  BY CostIsFinite
<1>2. Cost(y, p) + rho[p] < Infinity /\ rho[p] \in Nat
  BY CostSteps
<1> QED BY <1>1, <1>2, Constants

(***************************************************************************)
(* Extend: one more position.                                              *)
(***************************************************************************)
Prolonged(y, p, set) == IF set THEN y \cup {p} ELSE y

\* A path prolonged by a position: its bits, its register and its cost.
LEMMA ProlongedIs ==
    ASSUME NEW p \in Nat, NEW y, y \subseteq 0 .. p - 1, NEW set \in BOOLEAN
    PROVE  /\ Prolonged(y, p, set) \subseteq 0 .. (p + 1) - 1
           /\ p \in Prolonged(y, p, set) <=> set
           /\ Below(Prolonged(y, p, set), p) = Below(y, p)
<1>1. \A q \in y : q \in Nat /\ q < p
  OBVIOUS
<1>2. ~ (p < p)
  OBVIOUS
<1>3. CASE set
  <2>1. Prolonged(y, p, set) = y \cup {p}
    BY <1>3 DEF Prolonged
  <2>2. y \cup {p} \subseteq 0 .. (p + 1) - 1
    BY <1>1
  <2>3. Below(y \cup {p}, p) = Below(y, p)
    BY <1>2 DEF Below
  <2> QED BY <1>3, <2>1, <2>2, <2>3
<1>4. CASE ~ set
  <2>1. Prolonged(y, p, set) = y
    BY <1>4 DEF Prolonged
  <2>2. y \subseteq 0 .. (p + 1) - 1 /\ p \notin y
    BY <1>1, <1>2
  <2> QED BY <1>4, <2>1, <2>2
<1> QED BY <1>3, <1>4

\* Where Extend stands, in numbers.
Standing(f, b, p) ==
    /\ first = f /\ block = b /\ position = p
    /\ f \in Nat /\ b \in Nat /\ f <= b /\ p \in Positions /\ p \in Nat /\ p < UsedPositions
    /\ InBlock(p, b) /\ BlockStart(f) \in Nat /\ BlockStart(b) \in Nat
    /\ BlockStart(f) <= BlockStart(b) /\ BlockStart(b) <= p
    /\ BlockStart(f) \in 0 .. Length

\* Where Extend stands, in rigid names.
LEMMA ExtendStands ==
    ASSUME Extending, Extend
    PROVE  \E f, b, p : Standing(f, b, p)
<1>1. /\ Planned /\ Segment /\ block \in first .. SegmentEnd - 1
      /\ position \in BlockStart(block) .. BlockStart(block + 1)
      /\ position < BlockStart(block + 1)
  <2>1. Forward /\ block < SegmentEnd /\ position \in BlockStart(block) .. BlockStart(block + 1)
    BY DEF Extending, Extend
  <2>2. Planned /\ Segment /\ MessageBits \in Nat
    BY <2>1, Layout DEF Forward
  <2>3. first \in Nat /\ SegmentEnd \in Nat
    <3>1. first \in Nat /\ first < MessageBits /\ first % BlocksPerSegment = 0
      BY <2>2 DEF Segment
    <3> QED BY <2>2, <3>1, Segments
  <2> QED BY <2>1, <2>2, <2>3 DEF Segment, Extend
<1> DEFINE b == block
<1>2. /\ first \in Nat /\ b \in Nat /\ first <= b /\ b + 1 <= MessageBits
      /\ Start \in Nat /\ BlockStart(b) \in Nat /\ BlockStart(b + 1) \in Nat /\ End \in Nat
      /\ Start <= BlockStart(b) /\ BlockStart(b) < BlockStart(b + 1)
      /\ BlockStart(b + 1) <= End /\ End <= UsedPositions
      /\ UsedPositions \in Nat /\ UsedPositions <= Length
  BY <1>1, InSegment
<1>3. /\ position \in Nat /\ position \in Positions /\ position < UsedPositions
      /\ InBlock(position, block) /\ BlockStart(block) <= position /\ Start \in 0 .. Length
  BY <1>1, <1>2, Constants DEF Positions, InBlock
<1> QED BY <1>2, <1>3 DEF Standing, Start

KeepPrice(p) == IF cover[p] % 2 = 1 THEN rho[p] ELSE 0
FlipPrice(p) == IF cover[p] % 2 = 1 THEN 0 ELSE rho[p]
StayAt(r, p) == Plus(metric[r], KeepPrice(p))
CrossAt(r, p) == Plus(metric[Xor(r, columns[p])], FlipPrice(p))

\* What Extend assigns.
LEMMA ExtendIs ==
    ASSUME Extend, NEW p \in Positions, p = position, survivors \in [Positions -> SUBSET Registers]
    PROVE  /\ position' = p + 1 /\ pc = "forward" /\ pc' = "forward"
           /\ UNCHANGED <<inputs, block, first, register, stego, samples, decoded, result>>
           /\ UNCHANGED inputs
           /\ metric' = [r \in Registers |-> IF CrossAt(r, p) < StayAt(r, p)
                                             THEN CrossAt(r, p) ELSE StayAt(r, p)]
           /\ survivors' \in [Positions -> SUBSET Registers]
           /\ \A r \in Registers : r \in survivors'[p] <=> CrossAt(r, p) < StayAt(r, p)
           /\ \A q \in Positions : q # p => survivors'[q] = survivors[q]
<1> DEFINE crossed == {r \in Registers : CrossAt(r, p) < StayAt(r, p)}
<1>1. metric' = [r \in Registers |-> IF r \in crossed THEN CrossAt(r, p) ELSE StayAt(r, p)]
  BY DEF Extend, CrossAt, StayAt, KeepPrice, FlipPrice
<1>2. survivors' = [survivors EXCEPT ![p] = crossed]
  BY DEF Extend, CrossAt, StayAt, KeepPrice, FlipPrice
<1>3. metric' = [r \in Registers |-> IF CrossAt(r, p) < StayAt(r, p)
                                     THEN CrossAt(r, p) ELSE StayAt(r, p)]
  BY <1>1
<1>4. /\ position' = p + 1 /\ pc = "forward" /\ pc' = "forward"
      /\ UNCHANGED <<inputs, block, first, register, stego, samples, decoded, result>>
      /\ UNCHANGED inputs
  BY DEF Extend
<1>5. crossed \in SUBSET Registers
  OBVIOUS
<1>6. \A r \in Registers : r \in crossed <=> CrossAt(r, p) < StayAt(r, p)
  OBVIOUS
<1> HIDE DEF crossed
<1> QED BY <1>2, <1>3, <1>4, <1>5, <1>6

\* The price of a stego bit, from the parity of the sample.
LEMMA PricedAs ==
    ASSUME Valid, NEW y, NEW p \in Positions
    PROVE  /\ Prices(y)[p] = IF p \in y THEN FlipPrice(p) ELSE KeepPrice(p)
           /\ KeepPrice(p) \in Nat /\ KeepPrice(p) <= rho[p]
           /\ FlipPrice(p) \in Nat /\ FlipPrice(p) <= rho[p]
<1>1. Prices(y)[p] = IF (p \in y) # (cover[p] % 2 = 1) THEN rho[p] ELSE 0
  BY PricesAre
<1>2. rho[p] \in Nat
  BY PricesAre
<1> QED BY <1>1, <1>2 DEF FlipPrice, KeepPrice

\* Addition that saturates at the sentinel.
LEMMA PlusIs ==
    ASSUME NEW a \in 0 .. Infinity, NEW b \in Nat
    PROVE  /\ Plus(a, b) \in Nat
           /\ a < Infinity => Plus(a, b) = a + b
           /\ Plus(a, b) < Infinity => a < Infinity
  BY Constants DEF Plus

\* The two ways into a register of the next position.
LEMMA Options ==
    ASSUME Extend, NEW p \in Positions, p = position, Valid,
           survivors \in [Positions -> SUBSET Registers],
           metric \in [Registers -> 0 .. Infinity], columns \in [Positions -> Registers],
           NEW r \in Registers
    PROVE  /\ StayAt(r, p) \in Nat /\ CrossAt(r, p) \in Nat
           /\ metric'[r] <= StayAt(r, p) /\ metric'[r] <= CrossAt(r, p)
           /\ \/ r \in survivors'[p] /\ metric'[r] = CrossAt(r, p)
              \/ r \notin survivors'[p] /\ metric'[r] = StayAt(r, p)
           /\ Xor(r, columns[p]) \in Registers
<1>1. Xor(r, columns[p]) \in Registers
  BY XorIsRegister
<1>2. StayAt(r, p) \in Nat /\ CrossAt(r, p) \in Nat
  BY <1>1, PricedAs, PlusIs DEF StayAt, CrossAt
<1>3. metric'[r] = IF CrossAt(r, p) < StayAt(r, p) THEN CrossAt(r, p) ELSE StayAt(r, p)
  BY ExtendIs
<1>4. r \in survivors'[p] <=> CrossAt(r, p) < StayAt(r, p)
  BY ExtendIs
<1> QED BY <1>1, <1>2, <1>3, <1>4

\* No vector is cheaper than the new metric of its register.
LEMMA ExtendCheapest ==
    ASSUME TypeOK, columns \in [Positions -> Columns], Extending, Extend
    PROVE  Cheapest'
<1> PICK f, b, p : Standing(f, b, p)
  BY ExtendStands
<1>1. Planned /\ Cheapest /\ Valid
  BY DEF Extending, Extend, Forward, Planned, Valid, TypeOK
<1>2. /\ first = f /\ block = b /\ position = p /\ f \in Nat /\ b \in Nat /\ f <= b
      /\ p \in Positions /\ p \in Nat /\ InBlock(p, b) /\ BlockStart(f) \in 0 .. Length
  BY DEF Standing
<1>3. /\ columns \in [Positions -> Registers] /\ metric \in [Registers -> 0 .. Infinity]
      /\ survivors \in [Positions -> SUBSET Registers]
  BY ColumnsAre DEF TypeOK
<1>4. position' = p + 1 /\ UNCHANGED <<inputs, block, first, stego>> /\ UNCHANGED inputs
  BY <1>2, <1>3, ExtendIs
<1> DEFINE S == Cost(stego, BlockStart(f))
<1>5. S \in Nat
  BY <1>1, <1>2, CostIsFinite
<1>6. ASSUME NEW z \in Vectors, Right(z, b)
      PROVE  S + metric'[At(z, f, b, p + 1)] <= Cost(z, p + 1)
  <2> DEFINE r == At(z, f, b, p)
             q == At(z, f, b, p + 1)
  <2>1. S + metric[r] <= Cost(z, p)
    BY <1>1, <1>2, <1>6 DEF Cheapest, Start
  <2>2. r \in Registers /\ q \in Registers
    BY AtBits
  <2>3. q = IF p \in z THEN Xor(r, columns[p]) ELSE r
    <3>1. z \in SUBSET Positions
      BY <1>1, VectorsArePositions
    <3> QED BY <1>1, <1>2, <1>3, <3>1, AtAdds
  <2>4. /\ Cost(z, p) \in Nat /\ Cost(z, p + 1) \in Nat /\ Cost(z, p) < Infinity
        /\ Cost(z, p + 1) = Cost(z, p) + IF p \in z THEN FlipPrice(p) ELSE KeepPrice(p)
        /\ FlipPrice(p) \in Nat /\ KeepPrice(p) \in Nat
    <3>1. p \in 0 .. Length
      BY <1>2, Constants DEF Positions
    <3> QED BY <1>1, <1>2, <3>1, CostSteps, CostIsFinite, PricedAs
  <2> HIDE DEF r, q
  <2>5. metric[r] \in 0 .. Infinity /\ metric[r] < Infinity
    <3>1. metric[r] \in 0 .. Infinity
      BY <1>3, <2>2
    <3> HIDE DEF S
    <3> QED BY <3>1, <1>5, <2>1, <2>4, Constants
  <2>6. /\ StayAt(q, p) \in Nat /\ CrossAt(q, p) \in Nat
        /\ metric'[q] <= StayAt(q, p) /\ metric'[q] <= CrossAt(q, p) /\ metric'[q] \in Nat
    BY <1>1, <1>2, <1>3, <2>2, Options
  <2> HIDE DEF S
  <2>7. CASE p \in z
    <3>1. Xor(q, columns[p]) = r
      BY <2>3, <2>7, XorBack
    <3>2. CrossAt(q, p) = metric[r] + FlipPrice(p)
      BY <3>1, <2>4, <2>5, PlusIs DEF CrossAt
    <3> QED BY <3>2, <2>1, <2>4, <2>5, <2>6, <2>7, <1>5 DEF q
  <2>8. CASE p \notin z
    <3>1. q = r
      BY <2>3, <2>8
    <3>2. StayAt(q, p) = metric[r] + KeepPrice(p)
      BY <3>1, <2>4, <2>5, PlusIs DEF StayAt
    <3> QED BY <3>2, <2>1, <2>4, <2>5, <2>6, <2>8, <1>5 DEF q
  <2> QED BY <2>7, <2>8
<1>7. first' = f /\ block' = b
  BY <1>2, <1>4
<1>8. ASSUME NEW z \in Vectors, Right(z, block)'
      PROVE  (Cost(stego, Start) + metric[At(z, first, block, position)])' <= Cost(z, position)'
  <2>1. Right(z, b)
    BY <1>8, <1>4, <1>2, RightKept
  <2>2. Cost(z, position)' = Cost(z, p + 1)
    BY <1>4, Kept
  <2>3. At(z, first, block, position)' = At(z, f, b, p + 1)
    BY <1>4, <1>7, Kept
  <2>4. Cost(stego, Start)' = S
    <3>1. Start' = BlockStart(f)
      BY <1>4, <1>7, Kept DEF Start
    <3> QED BY <1>4, <3>1, Kept
  <2> QED BY <2>1, <2>2, <2>3, <2>4, <1>6
<1>9. Vectors' = Vectors
  BY <1>4, Kept
<1> QED BY <1>8, <1>9 DEF Cheapest

\* The primed forms of a path, in the values of the step.
LEMMA TracedThen ==
    ASSUME UNCHANGED inputs, NEW f, NEW e, NEW p, NEW y,
           first' = f, SegmentEnd' = e, position' = p,
           \A q \in BlockStart(f) .. p - 1 : \A c \in f .. e - 1 :
               InBlock(q, c) => (q \in y <=> At(y, f, c, q + 1) \in survivors'[q])
    PROVE  Traced(y, position)'
<1>1. Start' = BlockStart(f)
  BY Kept DEF Start
<1> SUFFICES ASSUME NEW q \in BlockStart(f) .. p - 1, NEW c \in f .. e - 1, InBlock(q, c)'
             PROVE  q \in y <=> (At(y, first, c, q + 1) \in survivors[q])'
  BY <1>1 DEF Traced
<1>2. InBlock(q, c)
  BY Kept
<1>3. At(y, first, c, q + 1)' = At(y, f, c, q + 1)
  BY Kept
<1> QED BY <1>2, <1>3

\* A path of the next state, from rigid names.
LEMMA PathThen ==
    ASSUME UNCHANGED inputs, NEW f, NEW b, NEW p, NEW s, NEW y, NEW r,
           first' = f, block' = b, position' = p, stego' = s,
           y \subseteq 0 .. p - 1, Below(y, BlockStart(f)) = s, Right(y, b), At(y, f, b, p) = r,
           Cost(y, p) = Cost(s, BlockStart(f)) + metric'[r], Traced(y, position)'
    PROVE  Path(y, r)'
<1>1. Start' = BlockStart(f)
  BY Kept DEF Start
<1>2. Below(y, Start)' = stego'
  BY <1>1 DEF Below
<1>3. Right(y, block)'
  BY RightKept
<1>4. At(y, first, block, position)' = r
  BY Kept
<1>5. Cost(y, position)' = Cost(y, p)
  BY Kept
<1>6. Cost(stego, Start)' = Cost(s, BlockStart(f))
  BY <1>1, Kept
<1> QED BY <1>2, <1>3, <1>4, <1>5, <1>6 DEF Path

\* The path of the cheaper option, prolonged, is a path to its register.
LEMMA ExtendPath ==
    ASSUME TypeOK, columns \in [Positions -> Columns], Extending, Extend,
           NEW r \in Registers, NEW old \in Registers, NEW y \in Vectors, Path(y, old),
           NEW p, p = position, NEW set \in BOOLEAN,
           set <=> r \in survivors'[p], r = IF set THEN Xor(old, columns[p]) ELSE old,
           metric'[r] = metric[old] + IF set THEN FlipPrice(p) ELSE KeepPrice(p)
    PROVE  Prolonged(y, p, set) \in Vectors /\ Path(Prolonged(y, p, set), r)'
<1> PICK f, b, pp : Standing(f, b, pp)
  BY ExtendStands
<1>0. pp = p
  BY DEF Standing
<1>1. Planned /\ Valid
  BY DEF Extending, Extend, Forward, Planned, Valid, TypeOK
<1>2. /\ first = f /\ block = b /\ position = p /\ f \in Nat /\ b \in Nat /\ f <= b
      /\ p \in Positions /\ p \in Nat /\ InBlock(p, b) /\ BlockStart(f) \in 0 .. Length
      /\ p < UsedPositions /\ BlockStart(f) <= BlockStart(b) /\ BlockStart(b) <= p
      /\ BlockStart(f) \in Nat /\ BlockStart(b) \in Nat
  BY <1>0 DEF Standing
<1>3. /\ columns \in [Positions -> Registers] /\ metric \in [Registers -> 0 .. Infinity]
      /\ survivors \in [Positions -> SUBSET Registers]
  BY ColumnsAre DEF TypeOK
<1>4. position' = p + 1 /\ UNCHANGED <<inputs, block, first, stego>> /\ UNCHANGED inputs
  BY <1>2, <1>3, ExtendIs
<1> DEFINE s == stego
           S == Cost(s, BlockStart(f))
           y2 == Prolonged(y, p, set)
<1>5. /\ y \subseteq 0 .. p - 1 /\ Below(y, BlockStart(f)) = s /\ Right(y, b)
      /\ At(y, f, b, p) = old /\ Cost(y, p) = S + metric[old] /\ Traced(y, p)
  BY <1>2 DEF Path, Start
<1>6. y2 \subseteq 0 .. (p + 1) - 1 /\ (p \in y2 <=> set) /\ Below(y2, p) = Below(y, p)
  BY <1>2, <1>5, ProlongedIs
<1>7. y2 \in Vectors
  BY <1>1, <1>2, <1>6, Layout DEF Vectors
<1>8. y \in SUBSET Positions /\ y2 \in SUBSET Positions /\ y \in SUBSET Nat /\ y2 \in SUBSET Nat
  <2>1. y \in SUBSET Positions /\ y2 \in SUBSET Positions
    <3> HIDE DEF y2
    <3> QED BY <1>1, <1>7, VectorsArePositions
  <2> QED BY <2>1, Constants DEF Positions
<1> HIDE DEF y2
<1>9. \A q \in Nat : q <= p => Below(y2, q) = Below(y, q)
  BY <1>2, <1>6, <1>8, BelowEarlier
<1>10. Below(y2, BlockStart(f)) = s
  BY <1>2, <1>5, <1>9
<1>11. Right(y2, b)
  <2>1. Below(y, BlockStart(b)) = Below(y2, BlockStart(b))
    BY <1>2, <1>9
  <2> QED BY <1>1, <1>2, <1>5, <1>8, <2>1, RightLooksBack
<1>12. At(y2, f, b, p + 1) = r
  <2>1. At(y2, f, b, p) = old
    BY <1>5, <1>6, AtLooksBack
  <2>2. At(y2, f, b, p + 1) = IF p \in y2 THEN Xor(At(y2, f, b, p), columns[p])
                                             ELSE At(y2, f, b, p)
    <3>1. f \in Nat /\ b \in Nat /\ f <= b /\ p \in Positions /\ InBlock(p, b)
      BY <1>2
    <3>2. y2 \in SUBSET Positions /\ columns \in [Positions -> Registers]
      BY <1>3, <1>8
    <3> QED BY <1>1, <3>1, <3>2, AtAdds
  <2> QED BY <2>1, <2>2, <1>6
<1>13. Cost(y2, p + 1) = S + metric'[r]
  <2>1. p \in 0 .. Length
    BY <1>2, Constants DEF Positions
  <2>2. Cost(y2, p) = Cost(y, p)
    BY <2>1, <1>6, CostLooksBack
  <2>3. Cost(y2, p + 1) = Cost(y2, p) + IF set THEN FlipPrice(p) ELSE KeepPrice(p)
    <3>1. Cost(y2, p + 1) = Cost(y2, p) + Prices(y2)[p]
      BY <1>1, <1>2, CostSteps
    <3>2. Prices(y2)[p] = IF p \in y2 THEN FlipPrice(p) ELSE KeepPrice(p)
      BY <1>1, <1>2, PricedAs
    <3> QED BY <3>1, <3>2, <1>6
  <2>4. FlipPrice(p) \in Nat /\ KeepPrice(p) \in Nat
    BY <1>1, <1>2, PricedAs
  <2>5. S \in Nat /\ metric[old] \in Nat
    <3>1. metric[old] \in 0 .. Infinity
      BY <1>3
    <3>2. S \in Nat
      BY <1>1, <1>2, CostIsFinite
    <3> QED BY <3>1, <3>2, Constants
  <2> HIDE DEF S
  <2> QED BY <2>2, <2>3, <2>4, <2>5, <1>5
<1>14. ASSUME NEW q \in BlockStart(f) .. (p + 1) - 1, NEW c \in f .. SegmentEnd - 1, InBlock(q, c)
       PROVE  q \in y2 <=> At(y2, f, c, q + 1) \in survivors'[q]
  <2>1. CASE q = p
    <3>1. c = b
      <4>1. c \in Nat
        BY <1>2
      <4> QED BY <1>1, <1>2, <1>14, <2>1, <4>1, OneBlock
    <3> QED BY <1>6, <1>12, <2>1, <3>1
  <2>2. CASE q # p
    <3>1. q \in Nat /\ q < p /\ q + 1 <= p /\ q \in BlockStart(f) .. p - 1 /\ q + 1 \in Nat
      BY <1>2, <2>2
    <3>2. q \in Positions
      BY <1>2, <3>1, Constants DEF Positions
    <3>3. q \in y <=> At(y, f, c, q + 1) \in survivors[q]
      BY <1>2, <1>5, <1>14, <3>1 DEF Traced, Start
    <3>4. Below(y2, q + 1) = Below(y, q + 1)
      BY <1>9, <3>1
    <3>5. At(y2, f, c, q + 1) = At(y, f, c, q + 1)
      BY <3>4, AtLooksBack
    <3>6. q \in y2 <=> q \in y
      <4>1. q < q + 1
        BY <3>1
      <4> QED BY <3>4, <4>1 DEF Below
    <3>7. survivors'[q] = survivors[q]
      BY <1>2, <1>3, <2>2, <3>2, ExtendIs
    <3> QED BY <3>3, <3>5, <3>6, <3>7
  <2> QED BY <2>1, <2>2
<1>15. Traced(y2, position)'
  <2>1. SegmentEnd' = SegmentEnd
    BY <1>4, Kept DEF SegmentEnd, Least
  <2> DEFINE e == SegmentEnd
  <2>2. PICK g : g = e
    OBVIOUS
  <2>3. SegmentEnd' = g /\ first' = f /\ position' = p + 1
    BY <1>2, <1>4, <2>1, <2>2
  <2> QED BY <1>4, <1>14, <2>2, <2>3, TracedThen
<1> QED BY <1>2, <1>4, <1>6, <1>7, <1>10, <1>11, <1>12, <1>13, <1>15, PathThen DEF y2

\* Every register with a finite metric is reached by a path of the survivors.
LEMMA ExtendReached ==
    ASSUME TypeOK, columns \in [Positions -> Columns], Extending, Extend
    PROVE  /\ Reached' /\ Alive'
           /\ metric' \in [Registers -> 0 .. Infinity]
<1> PICK f, b, p : Standing(f, b, p)
  BY ExtendStands
<1>1. Planned /\ Valid /\ Reached /\ Alive
  BY DEF Extending, Extend, Forward, Planned, Valid, TypeOK
<1>2. /\ first = f /\ block = b /\ position = p /\ b \in Nat /\ p \in Nat
      /\ p \in Positions /\ BlockStart(f) \in 0 .. Length /\ BlockStart(b) <= p
      /\ BlockStart(b) \in Nat
  BY DEF Standing
<1>3. /\ columns \in [Positions -> Registers] /\ metric \in [Registers -> 0 .. Infinity]
      /\ survivors \in [Positions -> SUBSET Registers] /\ 0 \in columns[p]
  BY <1>2, ColumnsAre DEF TypeOK
<1>4. position' = p + 1 /\ UNCHANGED <<inputs, block, first, stego>> /\ UNCHANGED inputs
  BY <1>2, <1>3, ExtendIs
<1>5. FlipPrice(p) \in Nat /\ KeepPrice(p) \in Nat /\ FlipPrice(p) <= rho[p]
      /\ KeepPrice(p) <= rho[p] /\ rho[p] \in Nat
  BY <1>1, <1>2, PricedAs, PricesAre
<1>6. \A r \in Registers : metric[r] \in Nat /\ metric[r] \in 0 .. Infinity
  BY <1>3, Constants
\* What was reached is paid for, and the position can be afforded too.
<1>7. ASSUME NEW r \in Registers, metric[r] < Infinity
      PROVE  /\ \E y \in Vectors : Path(y, r)
             /\ metric[r] + FlipPrice(p) < Infinity
             /\ metric[r] + KeepPrice(p) < Infinity
  <2>1. PICK y \in Vectors : Path(y, r)
    BY <1>1, <1>7 DEF Reached
  <2>2. Cost(y, p) = Cost(stego, BlockStart(f)) + metric[r]
    BY <1>2, <2>1 DEF Path, Start
  <2>3. metric[r] + rho[p] < Infinity
    BY <1>1, <1>2, <1>6, <2>2, ReachedIsPaid
  <2>4. metric[r] \in Nat
    BY <1>6
  <2> QED BY <1>5, <2>1, <2>3, <2>4, Constants
<1>8. ASSUME NEW r \in Registers
      PROVE  /\ StayAt(r, p) \in Nat /\ CrossAt(r, p) \in Nat
             /\ metric'[r] <= StayAt(r, p) /\ metric'[r] <= CrossAt(r, p)
             /\ \/ r \in survivors'[p] /\ metric'[r] = CrossAt(r, p)
                \/ r \notin survivors'[p] /\ metric'[r] = StayAt(r, p)
             /\ Xor(r, columns[p]) \in Registers
  BY <1>1, <1>2, <1>3, Options
<1>9. ASSUME NEW r \in Registers, metric'[r] < Infinity
      PROVE  \E y \in Vectors : Path(y, r)'
  <2>1. CASE r \in survivors'[p]
    <3> DEFINE old == Xor(r, columns[p])
    <3>1. old \in Registers /\ metric'[r] = Plus(metric[old], FlipPrice(p))
      BY <1>8, <2>1 DEF CrossAt
    <3>2. Xor(old, columns[p]) = r
      BY XorBack
    <3> HIDE DEF old
    <3>3. metric[old] < Infinity /\ metric'[r] = metric[old] + FlipPrice(p)
      BY <1>5, <1>6, <1>9, <3>1, PlusIs
    <3>4. PICK y \in Vectors : Path(y, old)
      BY <1>7, <3>1, <3>3
    <3>5. Prolonged(y, p, TRUE) \in Vectors /\ Path(Prolonged(y, p, TRUE), r)'
      BY <1>2, <2>1, <3>1, <3>2, <3>3, <3>4, ExtendPath
    <3> QED BY <3>5
  <2>2. CASE r \notin survivors'[p]
    <3>1. metric'[r] = Plus(metric[r], KeepPrice(p))
      BY <1>8, <2>2 DEF StayAt
    <3>2. metric[r] < Infinity /\ metric'[r] = metric[r] + KeepPrice(p)
      BY <1>5, <1>6, <1>9, <3>1, PlusIs
    <3>3. PICK y \in Vectors : Path(y, r)
      BY <1>7, <3>2
    <3>4. Prolonged(y, p, FALSE) \in Vectors /\ Path(Prolonged(y, p, FALSE), r)'
      BY <1>2, <2>2, <3>2, <3>3, ExtendPath
    <3> QED BY <3>4
  <2> QED BY <2>1, <2>2
<1>10. Reached'
  <2>1. Vectors' = Vectors
    BY <1>4, Kept
  <2> QED BY <1>9, <2>1 DEF Reached
<1>11. ASSUME NEW r \in Registers, metric[r] < Infinity
       PROVE  metric'[r] < Infinity /\ metric'[Xor(r, columns[p])] < Infinity
  <2> DEFINE q == Xor(r, columns[p])
  <2>1. q \in Registers /\ Xor(q, columns[p]) = r
    BY <1>8, XorBack
  <2>2. StayAt(r, p) = metric[r] + KeepPrice(p)
    BY <1>5, <1>6, <1>11, PlusIs DEF StayAt
  <2>3. CrossAt(q, p) = metric[r] + FlipPrice(p)
    BY <1>5, <1>6, <1>11, <2>1, PlusIs DEF CrossAt
  <2>4. metric[r] + FlipPrice(p) < Infinity /\ metric[r] + KeepPrice(p) < Infinity
    BY <1>7, <1>11
  <2>5. /\ StayAt(r, p) \in Nat /\ metric'[r] <= StayAt(r, p)
        /\ metric'[r] \in Nat
    BY <1>8
  <2>6. /\ CrossAt(q, p) \in Nat /\ metric'[q] <= CrossAt(q, p)
        /\ metric'[q] \in Nat
    BY <1>8, <2>1
  <2> HIDE DEF q
  <2>7. metric'[r] < Infinity
    BY <2>2, <2>4, <2>5, Constants
  <2>8. metric'[q] < Infinity
    BY <2>3, <2>4, <2>6, Constants
  <2> QED BY <2>7, <2>8 DEF q
<1>12. Alive'
  <2>1. PICK r \in Registers : metric[r] < Infinity
    BY <1>1 DEF Alive
  <2> DEFINE q == Xor(r, columns[p])
  <2>2. q \in Registers /\ (0 \in q <=> 0 \notin r)
    BY <1>3, <1>8 DEF Xor
  <2>3. metric'[r] < Infinity /\ metric'[q] < Infinity
    BY <1>11, <2>1
  <2> HIDE DEF q
  <2>4. ASSUME NEW odd \in BOOLEAN
        PROVE  \E t \in Registers : metric'[t] < Infinity /\ (0 \in t <=> odd)
    <3>1. CASE 0 \in r <=> odd
      BY <2>3, <3>1
    <3>2. CASE ~ (0 \in r <=> odd)
      <4>1. 0 \in q <=> odd
        BY <2>2, <3>2
      <4> QED BY <2>2, <2>3, <4>1
    <3> QED BY <3>1, <3>2
  <2> QED BY <2>3, <2>4 DEF Alive
<1>13. ASSUME NEW r \in Registers PROVE metric'[r] \in 0 .. Infinity
  <2>1. metric'[r] \in Nat
    BY <1>8
  <2>2. CASE metric[r] < Infinity
    BY <1>11, <2>1, <2>2, Constants
  <2>3. CASE metric[r] = Infinity
    <3>1. StayAt(r, p) = Infinity
      BY <2>3 DEF StayAt, Plus
    <3> QED BY <1>8, <2>1, <3>1, Constants
  <2> QED BY <1>6, <2>2, <2>3, Constants
<1>14. metric' \in [Registers -> 0 .. Infinity]
  <2>1. metric' = [r \in Registers |-> metric'[r]]
    BY <1>2, <1>3, ExtendIs
  <2> QED BY <1>13, <2>1
<1> QED BY <1>10, <1>12, <1>14

\* The forward pass, one position.
LEMMA ExtendKeeps ==
    ASSUME IInv, Extend
    PROVE  IInv'
<1> PICK f, b, p : Standing(f, b, p)
  BY ExtendStands DEF IInv
<1>1. TypeOK /\ columns \in [Positions -> Columns] /\ Extending
  BY DEF IInv
<1>2. /\ first = f /\ block = b /\ position = p /\ b \in Nat /\ p \in Nat
      /\ p \in Positions /\ BlockStart(b) <= p /\ BlockStart(b) \in Nat
  BY DEF Standing
<1>3. /\ position' = p + 1 /\ pc = "forward" /\ pc' = "forward"
      /\ UNCHANGED <<inputs, block, first, register, stego, samples, decoded, result>>
      /\ UNCHANGED inputs /\ survivors' \in [Positions -> SUBSET Registers]
  BY <1>1, <1>2, ExtendIs DEF TypeOK
<1>4. Reached' /\ Alive' /\ metric' \in [Registers -> 0 .. Infinity] /\ Cheapest'
  BY <1>1, ExtendReached, ExtendCheapest
<1>5. Planned /\ Segment /\ stego \subseteq 0 .. Start - 1 /\ block < SegmentEnd
  BY <1>1, <1>3 DEF Extending, Forward
<1>6. Start' = Start /\ SegmentEnd' = SegmentEnd
  BY <1>2, <1>3, Kept DEF Start, SegmentEnd, Least
<1>7. Segment'
  BY <1>3, <1>5, <1>6, Kept DEF Segment
<1>8. Forward' /\ (block < SegmentEnd)'
  BY <1>3, <1>4, <1>5, <1>6, <1>7, Kept DEF Forward
<1>9. (position \in BlockStart(block) .. BlockStart(block + 1))'
  <2>1. p < BlockStart(b + 1) /\ BlockStart(b + 1) \in Nat
    <3>1. p < BlockStart(b + 1)
      BY <1>2 DEF Extend
    <3> QED BY <1>2, <1>5, <3>1, BlockAfterBlock
  <2>2. BlockStart(block)' = BlockStart(b) /\ BlockStart(block + 1)' = BlockStart(b + 1)
    BY <1>2, <1>3, Kept
  <2> QED BY <1>2, <1>3, <2>1, <2>2
<1>10. TypeOK'
  <2>1. position' \in 0 .. Length
    BY <1>2, <1>3, Constants DEF Positions
  <2> QED BY <1>1, <1>3, <1>4, <2>1 DEF TypeOK, inputs
<1>11. Untouched'
  BY <1>3 DEF IInv, Untouched, inputs
<1>12. Extending'
  BY <1>8, <1>9 DEF Extending
<1> QED BY <1>1, <1>3, <1>10, <1>11, <1>12
        DEF IInv, Picking, Backtracking, Solved, Reading, Finishing, inputs

(***************************************************************************)
(* CloseBlock: the registers that would emit the other bit are dropped.    *)
(***************************************************************************)
Closing(f, b, p) ==
    /\ first = f /\ block = b /\ position = p
    /\ f \in Nat /\ b \in Nat /\ f <= b /\ SegmentStart(b) = f
    /\ p = BlockStart(b + 1) /\ p \in Nat /\ p \in 0 .. Length
    /\ BlockStart(f) \in Nat /\ BlockStart(b) \in Nat /\ BlockStart(b) < p
    /\ b + 1 <= SegmentEnd /\ SegmentEnd \in Nat /\ b + 1 <= MessageBits
    /\ Bit(b) \in {0, 1}

\* The bits of the message.
LEMMA BitsAreBits ==
    ASSUME Planned, message \in Payloads, NEW b \in Nat, b + 1 <= MessageBits
    PROVE  Bit(b) \in {0, 1}
<1>1. message \in Seq({0, 1}) /\ MessageBits = Len(message)
  BY TrellisAssumption DEF MessageBits
<1>2. b + 1 \in 1 .. Len(message)
  BY <1>1
<1> QED BY <1>1, <1>2 DEF Bit

\* Where CloseBlock stands, in rigid names.
LEMMA CloseStands ==
    ASSUME TypeOK, Extending, CloseBlock
    PROVE  \E f, b, p : Closing(f, b, p)
<1>1. /\ Forward /\ block < SegmentEnd /\ Planned /\ Segment
      /\ position = BlockStart(block + 1)
  BY DEF Extending, CloseBlock, Forward
<1>2. block \in first .. SegmentEnd - 1
  <2>1. first \in Nat /\ first < MessageBits /\ first % BlocksPerSegment = 0
    BY <1>1, Layout DEF Segment
  <2>2. SegmentEnd \in Nat
    BY <1>1, <2>1, Segments
  <2> QED BY <1>1, <2>1, <2>2 DEF Segment
<1> DEFINE b == block
<1>3. /\ first \in Nat /\ b \in Nat /\ first <= b /\ b + 1 <= MessageBits
      /\ SegmentEnd \in Nat /\ SegmentStart(b) = first
      /\ Start \in Nat /\ BlockStart(b) \in Nat /\ BlockStart(b + 1) \in Nat /\ End \in Nat
      /\ BlockStart(b) < BlockStart(b + 1)
      /\ BlockStart(b + 1) <= End /\ End <= UsedPositions
      /\ UsedPositions \in Nat /\ UsedPositions <= Length
  BY <1>1, <1>2, InSegment
<1>4. b + 1 <= SegmentEnd
  BY <1>1, <1>3
<1>5. Bit(b) \in {0, 1}
  BY <1>1, <1>3, BitsAreBits DEF TypeOK
<1>6. BlockStart(b + 1) \in 0 .. Length
  BY <1>3, Constants
<1> QED BY <1>1, <1>3, <1>4, <1>5, <1>6 DEF Closing, Start

\* The register at the end of a block emits the bit the vector has there, and
\* the next block starts with it shifted.
LEMMA EndOfBlock ==
    ASSUME Planned, columns \in [Positions -> Registers], NEW y \in SUBSET Positions,
           NEW f \in Nat, NEW b \in Nat, f <= b, SegmentStart(b) = f, Bit(b) \in {0, 1},
           Row(y, b) <=> Bit(b) = 1
    PROVE  /\ At(y, f, b + 1, BlockStart(b + 1)) = ShiftRight(At(y, f, b, BlockStart(b + 1)))
           /\ Height - 1 \notin At(y, f, b + 1, BlockStart(b + 1))
           /\ ShiftLeft(At(y, f, b + 1, BlockStart(b + 1)), Bit(b)) = At(y, f, b, BlockStart(b + 1))
<1> DEFINE r == At(y, f, b, BlockStart(b + 1))
           q == At(y, f, b + 1, BlockStart(b + 1))
<1>1. q = ShiftRight(r)
  BY AtShifts
<1>2. r \in Registers
  BY AtBits
<1>3. 0 \in r <=> Row(y, b)
  BY AtRow
<1> HIDE DEF r, q
<1>4. Emitted(r) = Bit(b)
  BY <1>3 DEF Emitted
<1>5. Height - 1 \notin ShiftRight(r) /\ ShiftLeft(ShiftRight(r), Emitted(r)) = r
  BY <1>2, ShiftedOut
<1> QED BY <1>1, <1>4, <1>5 DEF r, q

\* The source of a fold never precedes its target: the highest bit of the target
\* has moved up by one.  So ascending order reads every slot before it is written.
LEMMA SourceNotFolded ==
    ASSUME NEW r \in Registers, NEW bit \in {0, 1}
    PROVE  ~ Folded(ShiftLeft(r, bit), r)
<1> DEFINE s == ShiftLeft(r, bit)
<1>1. SUFFICES ASSUME NEW i \in r \ s, \A j \in Xor(s, r) : j <= i
               PROVE  FALSE
  BY DEF Folded, Precedes
<1>2. i \in Nat
  BY Constants DEF Registers
<1>3. \A j \in r : j \in Nat
  BY Constants DEF Registers
<1> DEFINE S == {k \in Nat : i + k \in r}
<1>4. 0 \in S
  BY <1>2
<1>5. ASSUME NEW k \in Nat, k \in S PROVE k + 1 \in S
  <2>1. (i + k) + 1 \in s
    BY <1>5 DEF ShiftLeft
  <2>2. (i + k) + 1 \in r
    <3> SUFFICES ASSUME (i + k) + 1 \notin r PROVE FALSE
      OBVIOUS
    <3>1. (i + k) + 1 \in Xor(s, r)
      BY <2>1 DEF Xor
    <3> HIDE DEF s
    <3> QED BY <1>1, <1>2, <3>1
  <2>3. i + (k + 1) = (i + k) + 1
    BY <1>2
  <2> QED BY <2>2, <2>3
<1>6. Height \in S
  <2> HIDE DEF S
  <2> QED BY <1>4, <1>5, NatInd, Constants
<1>7. i + Height \in r /\ i + Height \notin 0 .. Height - 1
  BY <1>2, <1>6, Constants
<1> QED BY <1>7 DEF Registers

\* What CloseBlock assigns.
LEMMA CloseIs ==
    ASSUME CloseBlock, NEW b, block = b, Bit(b) \in {0, 1}
    PROVE  /\ metric' = [r \in Registers |-> IF Height - 1 \in r THEN Infinity
                                             ELSE metric[ShiftLeft(r, Bit(b))]]
           /\ pc = "forward" /\ block' = b + 1
           /\ UNCHANGED <<inputs, position, first, survivors, register, stego, samples, decoded,
                          result>>
           /\ UNCHANGED inputs
<1> DEFINE low == {s \in Registers : Height - 1 \notin s}
           source(r) == ShiftLeft(r, Bit(b))
           Slots(f) == f = [r \in low |-> IF Folded(source(r), r) THEN f[source(r)]
                                                                 ELSE metric[source(r)]]
           slot == CHOOSE f : Slots(f)
<1>1. metric' = [r \in Registers |-> IF Height - 1 \in r THEN Infinity ELSE slot[r]]
  BY DEF CloseBlock
<1>2. \A r \in low : ~ Folded(source(r), r)
  BY SourceNotFolded
<1>3. Slots([r \in low |-> metric[source(r)]])
  BY <1>2
<1>4. Slots(slot)
  BY <1>3
<1>5. \A r \in low : slot[r] = metric[source(r)]
  <2> HIDE DEF slot
  <2> QED BY <1>2, <1>4
<1>6. \A r \in Registers : (IF Height - 1 \in r THEN Infinity ELSE slot[r])
                              = IF Height - 1 \in r THEN Infinity ELSE metric[source(r)]
  <2> HIDE DEF slot
  <2> QED BY <1>5
<1>7. metric' = [r \in Registers |-> IF Height - 1 \in r THEN Infinity ELSE metric[source(r)]]
  <2> HIDE DEF slot, source, low
  <2> QED BY <1>1, <1>6
<1> QED BY <1>7 DEF CloseBlock

\* No vector whose next bit is right is cheaper than the shifted metric.
LEMMA CloseCheapest ==
    ASSUME TypeOK, columns \in [Positions -> Columns], Extending, CloseBlock
    PROVE  Cheapest'
<1> PICK f, b, p : Closing(f, b, p)
  BY CloseStands
<1>1. Planned /\ Cheapest
  BY DEF Extending, CloseBlock, Forward
<1>2. /\ first = f /\ block = b /\ position = p /\ f \in Nat /\ b \in Nat /\ f <= b
      /\ SegmentStart(b) = f /\ p = BlockStart(b + 1) /\ Bit(b) \in {0, 1}
  BY DEF Closing
<1>3. columns \in [Positions -> Registers]
  BY ColumnsAre DEF TypeOK
<1>4. block' = b + 1 /\ UNCHANGED <<inputs, position, first, stego>> /\ UNCHANGED inputs
  BY <1>2, CloseIs
<1> DEFINE S == Cost(stego, BlockStart(f))
<1>5. ASSUME NEW z \in Vectors, Right(z, b + 1)
      PROVE  S + metric'[At(z, f, b + 1, p)] <= Cost(z, p)
  <2> DEFINE r == At(z, f, b, p)
             q == At(z, f, b + 1, p)
  <2>1. Right(z, b) /\ (Row(z, b) <=> Bit(b) = 1)
    BY <1>2, <1>5, RightGrows
  <2>2. S + metric[r] <= Cost(z, p)
    BY <1>1, <1>2, <2>1 DEF Cheapest, Start
  <2>3. Height - 1 \notin q /\ ShiftLeft(q, Bit(b)) = r
    <3>1. z \in SUBSET Positions
      BY <1>1, VectorsArePositions
    <3> QED BY <1>1, <1>2, <1>3, <2>1, <3>1, EndOfBlock
  <2>4. q \in Registers
    BY AtBits
  <2> HIDE DEF r, q
  <2>5. metric'[q] = metric[r]
    BY <1>2, <2>3, <2>4, CloseIs
  <2> QED BY <2>2, <2>5 DEF q
<1>6. first' = f /\ position' = p
  BY <1>2, <1>4
<1>7. ASSUME NEW z \in Vectors, Right(z, block)'
      PROVE  (Cost(stego, Start) + metric[At(z, first, block, position)])' <= Cost(z, position)'
  <2>1. Right(z, b + 1)
    BY <1>7, <1>4, RightKept
  <2>2. Cost(z, position)' = Cost(z, p)
    BY <1>4, <1>6, Kept
  <2>3. At(z, first, block, position)' = At(z, f, b + 1, p)
    BY <1>4, <1>6, Kept
  <2>4. Cost(stego, Start)' = S
    <3>1. Start' = BlockStart(f)
      BY <1>4, <1>6, Kept DEF Start
    <3> QED BY <1>4, <3>1, Kept
  <2> QED BY <2>1, <2>2, <2>3, <2>4, <1>5
<1>8. Vectors' = Vectors
  BY <1>4, Kept
<1> QED BY <1>7, <1>8 DEF Cheapest

\* A register that survives the shift is reached by the same path.
LEMMA CloseReached ==
    ASSUME TypeOK, columns \in [Positions -> Columns], Extending, CloseBlock
    PROVE  /\ Reached' /\ Alive'
           /\ metric' \in [Registers -> 0 .. Infinity]
<1> PICK f, b, p : Closing(f, b, p)
  BY CloseStands
<1>1. Planned /\ Reached /\ Alive
  BY DEF Extending, CloseBlock, Forward
<1>2. /\ first = f /\ block = b /\ position = p /\ f \in Nat /\ b \in Nat /\ f <= b
      /\ SegmentStart(b) = f /\ p = BlockStart(b + 1) /\ Bit(b) \in {0, 1}
      /\ BlockStart(b) < p /\ p \in Nat
  BY DEF Closing
<1>3. columns \in [Positions -> Registers] /\ metric \in [Registers -> 0 .. Infinity]
  BY ColumnsAre DEF TypeOK
<1>4. block' = b + 1 /\ UNCHANGED <<inputs, position, first, stego, survivors>> /\ UNCHANGED inputs
  BY <1>2, CloseIs
<1>5. ASSUME NEW r \in Registers
      PROVE  metric'[r] = IF Height - 1 \in r THEN Infinity ELSE metric[ShiftLeft(r, Bit(b))]
  BY <1>2, CloseIs
<1>6. ASSUME NEW r \in Registers, metric'[r] < Infinity
      PROVE  \E y \in Vectors : Path(y, r)'
  <2> DEFINE old == ShiftLeft(r, Bit(b))
  <2>1. Height - 1 \notin r
    BY <1>5, <1>6, Constants
  <2>2. metric'[r] = metric[old]
    BY <1>5, <2>1
  <2>3. old \in Registers /\ ShiftRight(old) = r /\ (0 \in old <=> Bit(b) = 1)
    BY <1>2, <2>1, ShiftedIn
  <2> HIDE DEF old
  <2>4. PICK y \in Vectors : Path(y, old)
    BY <1>1, <1>6, <2>2, <2>3 DEF Reached
  <2>5. /\ y \subseteq 0 .. p - 1 /\ Below(y, BlockStart(f)) = stego /\ Right(y, b)
        /\ At(y, f, b, p) = old /\ Cost(y, p) = Cost(stego, BlockStart(f)) + metric[old]
        /\ Traced(y, p)
    BY <1>2, <2>4 DEF Path, Start
  <2>6. y \in SUBSET Positions
    BY <1>1, VectorsArePositions
  <2>7. Row(y, b) <=> Bit(b) = 1
    BY <1>1, <1>2, <2>3, <2>5, <2>6, AtRow
  <2>8. Right(y, b + 1)
    BY <1>2, <2>5, <2>7, RightGrows
  <2>9. At(y, f, b + 1, p) = r
    <3>1. At(y, f, b + 1, p) = ShiftRight(At(y, f, b, p))
      BY <1>1, <1>2, <1>3, <2>6, AtShifts
    <3> QED BY <3>1, <2>3, <2>5
  <2>10. Traced(y, position)'
    <3>1. SegmentEnd' = SegmentEnd
      BY <1>4, Kept DEF SegmentEnd, Least
    <3>2. PICK e : e = SegmentEnd
      OBVIOUS
    <3>3. \A q \in BlockStart(f) .. p - 1 : \A c \in f .. e - 1 :
              InBlock(q, c) => (q \in y <=> At(y, f, c, q + 1) \in survivors'[q])
      BY <1>2, <1>4, <2>5, <3>2 DEF Traced, Start
    <3>4. first' = f /\ SegmentEnd' = e /\ position' = p
      BY <1>2, <1>4, <3>1, <3>2
    <3> QED BY <1>4, <3>3, <3>4, TracedThen
  <2>11. PICK s : s = stego
    OBVIOUS
  <2>12. Cost(y, p) = Cost(s, BlockStart(f)) + metric'[r] /\ Below(y, BlockStart(f)) = s
    BY <2>2, <2>5, <2>11
  <2>13. first' = f /\ position' = p /\ stego' = s
    BY <1>2, <1>4, <2>11
  <2>14. Path(y, r)'
    BY <1>4, <2>5, <2>8, <2>9, <2>10, <2>12, <2>13, PathThen
  <2> QED BY <2>14
<1>7. Reached'
  <2>1. Vectors' = Vectors
    BY <1>4, Kept
  <2> QED BY <1>6, <2>1 DEF Reached
<1>8. Alive'
  <2>1. PICK r \in Registers : metric[r] < Infinity /\ (0 \in r <=> Bit(b) = 1)
    <3>1. position > BlockStart(block)
      BY <1>2
    <3>2. (Bit(b) = 1) \in BOOLEAN
      OBVIOUS
    <3> QED BY <1>1, <3>1, <3>2 DEF Alive
  <2>2. Emitted(r) = Bit(b)
    BY <1>2, <2>1 DEF Emitted
  <2>3. ShiftRight(r) \in Registers /\ Height - 1 \notin ShiftRight(r)
        /\ ShiftLeft(ShiftRight(r), Bit(b)) = r
    BY <2>2, ShiftedOut
  <2>4. metric'[ShiftRight(r)] < Infinity
    BY <1>5, <2>1, <2>3
  <2>5. BlockStart(block)' = p
    BY <1>2, <1>4, Kept
  <2>6. ~ (position > BlockStart(block))'
    BY <1>2, <1>4, <2>5
  <2> QED BY <2>3, <2>4, <2>6 DEF Alive
<1>9. ASSUME NEW r \in Registers PROVE metric'[r] \in 0 .. Infinity
  <2>1. CASE Height - 1 \in r
    BY <1>5, <2>1, Constants
  <2>2. CASE Height - 1 \notin r
    <3>1. ShiftLeft(r, Bit(b)) \in Registers
      BY <1>2, <2>2, ShiftedIn
    <3> QED BY <1>3, <1>5, <2>2, <3>1
  <2> QED BY <2>1, <2>2
<1>10. metric' \in [Registers -> 0 .. Infinity]
  <2>1. metric' = [r \in Registers |-> metric'[r]]
    BY <1>2, CloseIs
  <2> QED BY <1>9, <2>1
<1> QED BY <1>7, <1>8, <1>10

\* The forward pass, the end of a block.
LEMMA CloseKeeps ==
    ASSUME IInv, CloseBlock
    PROVE  IInv'
<1>1. TypeOK /\ columns \in [Positions -> Columns] /\ Extending
  BY DEF IInv
<1> PICK f, b, p : Closing(f, b, p)
  BY <1>1, CloseStands
<1>2. /\ first = f /\ block = b /\ position = p /\ f \in Nat /\ b \in Nat /\ f <= b
      /\ p = BlockStart(b + 1) /\ p \in Nat /\ b + 1 <= SegmentEnd /\ SegmentEnd \in Nat
      /\ b + 1 <= MessageBits /\ Bit(b) \in {0, 1}
  BY DEF Closing
<1>3. /\ block' = b + 1 /\ pc = "forward"
      /\ UNCHANGED <<inputs, position, first, survivors, register, stego, samples, decoded, result>>
      /\ UNCHANGED inputs
  BY <1>2, CloseIs
<1>4. Reached' /\ Alive' /\ metric' \in [Registers -> 0 .. Infinity] /\ Cheapest'
  BY <1>1, CloseReached, CloseCheapest
<1>5. Planned /\ Segment /\ stego \subseteq 0 .. Start - 1
  BY <1>1, <1>3 DEF Extending, Forward
<1>6. Start' = Start /\ SegmentEnd' = SegmentEnd
  BY <1>2, <1>3, Kept DEF Start, SegmentEnd, Least
<1>7. Segment'
  BY <1>2, <1>3, <1>5, <1>6, Kept DEF Segment
<1>8. Forward'
  BY <1>3, <1>4, <1>5, <1>6, <1>7, Kept DEF Forward
<1>9. pc' = IF block' = SegmentEnd THEN "pick" ELSE "forward"
  BY DEF CloseBlock
<1>10. BlockStart(block)' = p
  BY <1>2, <1>3, Kept
<1>11. Extending'
  <2> SUFFICES ASSUME pc' = "forward"
               PROVE  (block < SegmentEnd /\ position \in BlockStart(block) .. BlockStart(block + 1))'
    BY <1>8 DEF Extending
  <2>1. block' < SegmentEnd'
    BY <1>2, <1>3, <1>6, <1>9
  <2>2. BlockStart(block + 1)' = BlockStart((b + 1) + 1)
    BY <1>3, Kept
  <2>3. BlockStart((b + 1) + 1) \in Nat /\ p < BlockStart((b + 1) + 1)
    BY <1>2, <1>5, BlockAfterBlock
  <2> QED BY <1>2, <1>3, <1>10, <2>1, <2>2, <2>3
<1>12. Picking'
  <2> SUFFICES ASSUME pc' = "pick" PROVE (block = SegmentEnd /\ position = End)'
    BY <1>8 DEF Picking
  <2>1. block' = SegmentEnd'
    BY <1>6, <1>9
  <2>2. End' = p
    <3>1. SegmentEnd' = b + 1
      BY <1>3, <2>1
    <3> QED BY <1>2, <1>3, <3>1, Kept DEF End
  <2> QED BY <1>2, <1>3, <2>1, <2>2
<1>13. TypeOK'
  <2>1. block' \in 0 .. Length
    BY <1>2, <1>3, <1>5, Layout, Constants
  <2>2. pc' \in {"forward", "pick"}
    BY <1>9
  <2> QED BY <1>1, <1>3, <1>4, <2>1, <2>2 DEF TypeOK, inputs
<1>14. pc' \in {"forward", "pick"}
  BY <1>9
<1>15. Untouched'
  BY <1>3, <1>14 DEF IInv, Untouched, inputs
<1> QED BY <1>1, <1>3, <1>11, <1>12, <1>13, <1>14, <1>15
        DEF IInv, Backtracking, Solved, Reading, Finishing, inputs

(***************************************************************************)
(* PickEnd: the register the cheapest path ends in.                        *)
(***************************************************************************)
LEMMA TracingThen ==
    ASSUME UNCHANGED inputs, NEW f, NEW e, NEW b, NEW p, NEW t, NEW y,
           first' = f, SegmentEnd' = e, block' = b, position' = p, stego' = t,
           Solution(y, e, BlockStart(e)), Below(y, BlockStart(f)) = Below(t, BlockStart(f)),
           \A q \in p .. BlockStart(e) - 1 : q \in y <=> q \in t,
           register' = At(y, f, b, p), Traced(y, position)'
    PROVE  Tracing(y)'
<1>1. Start' = BlockStart(f) /\ End' = BlockStart(e)
  BY Kept DEF Start, End
<1>2. Solution(y, SegmentEnd, End)'
  BY <1>1, SolutionKept
<1>3. Below(y, Start)' = Below(stego, Start)'
  BY <1>1 DEF Below
<1>4. At(y, first, block, position)' = At(y, f, b, p)
  BY Kept
<1> QED BY <1>1, <1>2, <1>3, <1>4 DEF Tracing

\* Reopening a block finds the register its closure shifted.
LEMMA Reopened ==
    ASSUME Planned, columns \in [Positions -> Registers], NEW y \in SUBSET Positions,
           NEW f \in Nat, NEW b \in Nat, f <= b, SegmentStart(b) = f, Bit(b) \in {0, 1},
           Right(y, b + 1)
    PROVE  ShiftLeft(At(y, f, b + 1, BlockStart(b + 1)), Bit(b)) = At(y, f, b, BlockStart(b + 1))
<1>1. Row(y, b) <=> Bit(b) = 1
  BY RightGrows
<1> QED BY <1>1, EndOfBlock

\* The end of a segment, its last block being b.
Ending(f, b, p) ==
    /\ first = f /\ block = b + 1 /\ SegmentEnd = b + 1 /\ position = p
    /\ f \in Nat /\ b \in Nat /\ f <= b /\ SegmentStart(b) = f
    /\ p = BlockStart(b + 1) /\ p \in Nat /\ p \in 0 .. Length
    /\ BlockStart(f) \in Nat /\ BlockStart(f) \in 0 .. Length
    /\ BlockStart(b) \in Nat /\ BlockStart(b) < p
    /\ b + 1 <= MessageBits /\ Bit(b) \in {0, 1}

\* Where PickEnd stands, in rigid names.
LEMMA PickStands ==
    ASSUME TypeOK, Picking, PickEnd
    PROVE  \E f, b, p : Ending(f, b, p)
<1>1. /\ Forward /\ block = SegmentEnd /\ Planned /\ Segment /\ position = End
  BY DEF Picking, PickEnd, Forward
<1> DEFINE b == SegmentEnd - 1
<1>2. first \in Nat /\ first < MessageBits /\ first % BlocksPerSegment = 0
  BY <1>1, Layout DEF Segment
<1>3. SegmentEnd \in Nat /\ first < SegmentEnd
  BY <1>1, <1>2, Segments
<1>4. b \in first .. SegmentEnd - 1 /\ b + 1 = SegmentEnd
  BY <1>2, <1>3
<1> HIDE DEF b
<1>5. /\ first \in Nat /\ b \in Nat /\ first <= b /\ b + 1 <= MessageBits
      /\ SegmentStart(b) = first
      /\ Start \in Nat /\ BlockStart(b) \in Nat /\ BlockStart(b + 1) \in Nat /\ End \in Nat
      /\ BlockStart(b) < BlockStart(b + 1) /\ Start <= BlockStart(b)
      /\ BlockStart(b + 1) <= End /\ End <= UsedPositions
      /\ UsedPositions \in Nat /\ UsedPositions <= Length
  BY <1>1, <1>4, InSegment
<1>6. Bit(b) \in {0, 1}
  BY <1>1, <1>5, BitsAreBits DEF TypeOK
<1>7. position = BlockStart(b + 1) /\ block = b + 1
  BY <1>1, <1>4 DEF End
<1>8. BlockStart(b + 1) \in 0 .. Length /\ Start \in 0 .. Length
  BY <1>5, Constants
<1> QED BY <1>4, <1>5, <1>6, <1>7, <1>8 DEF Ending, Start

\* There is an end, so the error arm is not taken.
LEMMA PickFinds ==
    ASSUME TypeOK, columns \in [Positions -> Columns], Picking, PickEnd,
           NEW f, NEW b, NEW p, Ending(f, b, p)
    PROVE  /\ pc = "pick" /\ pc' = "backward" /\ block' = b
           /\ UNCHANGED <<inputs, position, first, metric, survivors, stego, samples, decoded,
                          result>>
           /\ UNCHANGED inputs
           /\ \E end \in Registers :
                 /\ metric[end] < Infinity /\ \A r \in Registers : metric[end] <= metric[r]
                 /\ register' = ShiftLeft(end, Bit(b))
<1>1. Alive
  BY DEF Picking, PickEnd, Forward
<1>2. \A r \in Registers : metric[r] \in Nat
  BY Constants DEF TypeOK
<1>3. PICK end \in Registers :
        /\ \A other \in Registers \ {end} :
              \/ metric[end] < metric[other]
              \/ metric[end] = metric[other] /\ Precedes(end, other)
        /\ \/ /\ metric[end] = Infinity
              /\ result' = "encoding" /\ pc' = "done" /\ UNCHANGED <<block, register>>
           \/ /\ metric[end] < Infinity
              /\ pc' = "backward" /\ block' = block - 1
              /\ register' = ShiftLeft(end, Bit(block - 1))
              /\ UNCHANGED result
  BY DEF PickEnd
<1>4. \A r \in Registers : metric[end] <= metric[r]
  BY <1>2, <1>3
<1>5. PICK r \in Registers : metric[r] < Infinity
  BY <1>1 DEF Alive
<1>6. metric[end] < Infinity
  BY <1>2, <1>4, <1>5, Constants
<1>7. block - 1 = b
  BY DEF Ending
<1>8. /\ pc' = "backward" /\ block' = b /\ register' = ShiftLeft(end, Bit(b)) /\ result' = result
  BY <1>2, <1>3, <1>6, <1>7, Constants
<1> QED BY <1>4, <1>6, <1>8 DEF PickEnd

\* The end of the path: one of the cheapest, so its path solves the segment.
LEMMA PickKeeps ==
    ASSUME IInv, PickEnd
    PROVE  IInv'
<1>1. TypeOK /\ columns \in [Positions -> Columns] /\ Picking /\ Valid
  <2>1. TypeOK /\ columns \in [Positions -> Columns] /\ Picking
    BY DEF IInv
  <2>2. Planned
    BY <2>1 DEF Picking, PickEnd, Forward
  <2> QED BY <2>1, <2>2 DEF TypeOK, Planned, Valid
<1> PICK f, b, p : Ending(f, b, p)
  BY <1>1, PickStands
<1>2. /\ first = f /\ block = b + 1 /\ SegmentEnd = b + 1 /\ position = p
      /\ f \in Nat /\ b \in Nat /\ f <= b /\ SegmentStart(b) = f
      /\ p = BlockStart(b + 1) /\ p \in Nat /\ p \in 0 .. Length
      /\ BlockStart(f) \in Nat /\ BlockStart(f) \in 0 .. Length
      /\ BlockStart(b) \in Nat /\ BlockStart(b) < p
      /\ b + 1 <= MessageBits /\ Bit(b) \in {0, 1}
  BY DEF Ending
<1>3. /\ pc = "pick" /\ pc' = "backward" /\ block' = b
      /\ UNCHANGED <<inputs, position, first, metric, survivors, stego, samples, decoded, result>>
      /\ UNCHANGED inputs
  BY <1>1, PickFinds
<1>4. Planned /\ Segment /\ stego \subseteq 0 .. Start - 1 /\ Reached /\ Cheapest
  BY <1>1, <1>3 DEF Picking, Forward
<1>5. columns \in [Positions -> Registers] /\ \A r \in Registers : metric[r] \in Nat
  BY <1>1, ColumnsAre, Constants DEF TypeOK
<1>6. PICK end \in Registers :
        /\ metric[end] < Infinity /\ \A r \in Registers : metric[end] <= metric[r]
        /\ register' = ShiftLeft(end, Bit(b))
  BY <1>1, PickFinds
<1>7. PICK y \in Vectors : Path(y, end)
  BY <1>4, <1>6 DEF Reached
<1>8. /\ y \subseteq 0 .. p - 1 /\ Below(y, BlockStart(f)) = stego /\ Right(y, b + 1)
      /\ At(y, f, b + 1, p) = end
      /\ Cost(y, p) = Cost(stego, BlockStart(f)) + metric[end] /\ Traced(y, p)
  BY <1>2, <1>7 DEF Path, Start
<1>9. Solution(y, b + 1, p)
  <2> SUFFICES ASSUME NEW z \in Vectors, Right(z, b + 1) PROVE Cost(y, p) <= Cost(z, p)
    BY <1>8 DEF Solution
  <2> DEFINE S == Cost(stego, BlockStart(f))
             r == At(z, f, b + 1, p)
  <2>1. S + metric[r] <= Cost(z, p)
    BY <1>2, <1>4 DEF Cheapest, Start
  <2>2. r \in Registers
    BY AtBits
  <2>3. S \in Nat /\ Cost(z, p) \in Nat /\ Cost(y, p) \in Nat
    BY <1>1, <1>2, CostIsFinite
  <2>4. metric[end] <= metric[r] /\ metric[end] \in Nat /\ metric[r] \in Nat
    BY <1>5, <1>6, <2>2
  <2>5. Cost(y, p) = S + metric[end]
    BY <1>8
  <2> HIDE DEF S, r
  <2> QED BY <2>1, <2>3, <2>4, <2>5
<1>10. register' = At(y, f, b, p)
  <2>1. y \in SUBSET Positions
    BY <1>4, VectorsArePositions
  <2>2. ShiftLeft(At(y, f, b + 1, BlockStart(b + 1)), Bit(b)) = At(y, f, b, BlockStart(b + 1))
    BY <1>2, <1>4, <1>5, <1>8, <2>1, Reopened
  <2> QED BY <1>2, <1>6, <1>8, <2>2
<1>11. PICK t : t = stego
  OBVIOUS
<1>12. SegmentEnd' = b + 1
  <2>1. SegmentEnd' = SegmentEnd
    BY <1>3, Kept DEF SegmentEnd, Least
  <2> QED BY <1>2, <2>1
<1>13. first' = f /\ position' = p /\ stego' = t
  BY <1>2, <1>3, <1>11
<1>14. Traced(y, position)'
  <2>1. \A q \in BlockStart(f) .. p - 1 : \A c \in f .. (b + 1) - 1 :
            InBlock(q, c) => (q \in y <=> At(y, f, c, q + 1) \in survivors'[q])
    BY <1>2, <1>3, <1>8 DEF Traced, Start
  <2> QED BY <1>3, <1>12, <1>13, <2>1, TracedThen
<1>15. Tracing(y)'
  <2>1. Below(y, BlockStart(f)) = Below(t, BlockStart(f))
    BY <1>8, <1>11 DEF Below
  <2>2. \A q \in p .. BlockStart(b + 1) - 1 : q \in y <=> q \in t
    BY <1>2
  <2>3. Solution(y, b + 1, BlockStart(b + 1))
    BY <1>2, <1>9
  <2> QED BY <1>3, <1>10, <1>12, <1>13, <1>14, <2>1, <2>2, <2>3, TracingThen
<1>16. Start' = BlockStart(f)
  BY <1>3, <1>13, Kept DEF Start
<1>17. Backtracking'
  <2>1. (position \in BlockStart(block) .. BlockStart(block + 1))'
    <3>1. BlockStart(block)' = BlockStart(b) /\ BlockStart(block + 1)' = BlockStart(b + 1)
      BY <1>3, Kept
    <3> QED BY <1>2, <1>13, <3>1
  <2>2. Segment' /\ (block < SegmentEnd)'
    BY <1>2, <1>3, <1>4, <1>12, <1>13, Kept DEF Segment
  <2>3. \A q \in stego : q < Start
    <3>1. Start \in Nat
      BY <1>2 DEF Start
    <3> QED BY <1>4, <3>1
  <2>4. (\A q \in stego : q < Start \/ (position <= q /\ q < End))'
    BY <1>2, <1>11, <1>13, <1>16, <2>3 DEF Start
  <2>5. Vectors' = Vectors /\ Planned'
    BY <1>3, <1>4, Kept
  <2> QED BY <1>15, <2>1, <2>2, <2>4, <2>5 DEF Backtracking
<1>18. TypeOK'
  <2>1. block' \in 0 .. Length
    BY <1>2, <1>3, <1>4, Layout, Constants
  <2>2. register' \in Registers
    BY <1>10, AtBits
  <2> QED BY <1>1, <1>3, <2>1, <2>2 DEF TypeOK, inputs
<1>19. Untouched'
  BY <1>3 DEF IInv, Untouched, inputs
<1> QED BY <1>1, <1>3, <1>17, <1>18, <1>19
        DEF IInv, Extending, Picking, Solved, Reading, Finishing, inputs

(***************************************************************************)
(* Trace and Reopen: back along the path.                                  *)
(***************************************************************************)
Going(f, e, b, p, y) ==
    /\ first = f /\ SegmentEnd = e /\ block = b /\ position = p
    /\ f \in Nat /\ e \in Nat /\ b \in Nat /\ f <= b /\ b < e /\ e <= MessageBits
    /\ SegmentStart(b) = f
    /\ p \in Nat /\ BlockStart(b) \in Nat /\ BlockStart(f) \in Nat /\ BlockStart(e) \in Nat
    /\ BlockStart(f) <= BlockStart(b) /\ BlockStart(b) <= p /\ p <= BlockStart(b + 1)
    /\ BlockStart(b + 1) \in Nat /\ BlockStart(b + 1) <= BlockStart(e) /\ p <= Length
    /\ y \in SUBSET Positions /\ y \in Vectors /\ Solution(y, e, BlockStart(e))
    /\ Below(y, BlockStart(f)) = Below(stego, BlockStart(f))
    /\ \A q \in p .. BlockStart(e) - 1 : q \in y <=> q \in stego
    /\ register = At(y, f, b, p)
    /\ \A q \in BlockStart(f) .. p - 1 : \A c \in f .. e - 1 :
           InBlock(q, c) => (q \in y <=> At(y, f, c, q + 1) \in survivors[q])
    /\ \A q \in stego : q < BlockStart(f) \/ (p <= q /\ q < BlockStart(e))

\* Where the backward pass stands, in rigid names.
LEMMA BackStands ==
    ASSUME TypeOK, Backtracking, pc = "backward"
    PROVE  Planned /\ Segment /\ \E f, e, b, p, y : Going(f, e, b, p, y)
<1>1. /\ Planned /\ Segment /\ block < SegmentEnd
      /\ position \in BlockStart(block) .. BlockStart(block + 1)
      /\ \A q \in stego : q < Start \/ (position <= q /\ q < End)
  BY DEF Backtracking
<1>2. PICK y \in Vectors : Tracing(y)
  BY DEF Backtracking
<1>3. first \in Nat /\ first < MessageBits /\ first % BlocksPerSegment = 0
  BY <1>1, Layout DEF Segment
<1>4. SegmentEnd \in Nat
  BY <1>1, <1>3, Segments
<1>5. block \in first .. SegmentEnd - 1
  BY <1>1, <1>3, <1>4 DEF Segment
<1> DEFINE b == block
<1>6. /\ first \in Nat /\ b \in Nat /\ first <= b
      /\ SegmentEnd \in Nat /\ SegmentEnd <= MessageBits /\ SegmentStart(b) = first
      /\ Start \in Nat /\ BlockStart(b) \in Nat /\ BlockStart(b + 1) \in Nat /\ End \in Nat
      /\ Start <= BlockStart(b)
      /\ BlockStart(b + 1) <= End /\ End <= UsedPositions
      /\ UsedPositions \in Nat /\ UsedPositions <= Length
  BY <1>1, <1>5, InSegment
<1>7. /\ position \in Nat /\ BlockStart(b) <= position /\ position <= BlockStart(b + 1)
      /\ position <= Length
  BY <1>1, <1>6, Constants
<1>8. y \in SUBSET Positions
  BY <1>1, VectorsArePositions
<1>9. Going(first, SegmentEnd, block, position, y)
  BY <1>1, <1>2, <1>6, <1>7, <1>8 DEF Going, Tracing, Traced, Start, End
<1> QED BY <1>1, <1>9

\* What the backward pass leaves alone.
LEMMA BackwardKeeps ==
    ASSUME IInv, pc = "backward", pc' = "backward",
           UNCHANGED <<inputs, first, metric, survivors, samples, decoded, result>>,
           NEW f, NEW e, NEW b, NEW p, NEW t, NEW y \in Vectors,
           first' = f, SegmentEnd' = e, block' = b, position' = p, stego' = t, Tracing(y)',
           f \in Nat, b \in Nat, f <= b, b < e, e \in Nat, e <= MessageBits,
           p \in BlockStart(b) .. BlockStart(b + 1), p \in 0 .. Length,
           t \subseteq Positions,
           \A q \in t : q < BlockStart(f) \/ (p <= q /\ q < BlockStart(e))
    PROVE  IInv'
<1>1. TypeOK /\ columns \in [Positions -> Columns] /\ Backtracking
  BY DEF IInv
<1>2. Planned /\ Segment
  BY <1>1 DEF Backtracking
<1>3. UNCHANGED inputs
  OBVIOUS
<1>4. Start' = BlockStart(f) /\ End' = BlockStart(e)
  BY <1>3, Kept DEF Start, End
<1>5. BlockStart(block)' = BlockStart(b) /\ BlockStart(block + 1)' = BlockStart(b + 1)
  BY <1>3, Kept
<1>6. Segment' /\ Planned' /\ Vectors' = Vectors
  <2>1. Planned' /\ Vectors' = Vectors /\ MessageBits' = MessageBits
        /\ BlocksPerSegment' = BlocksPerSegment
    BY <1>2, <1>3, Kept
  <2> QED BY <1>2, <2>1 DEF Segment
<1>7. Backtracking'
  BY <1>4, <1>5, <1>6 DEF Backtracking
<1>8. TypeOK'
  <2>1. block' \in 0 .. Length
    BY <1>2, Layout, Constants
  <2>2. register' \in Registers
    <3>1. register' = At(y, first, block, position)'
      BY DEF Tracing
    <3>2. At(y, first, block, position)' = At(y, f, b, p)
      BY <1>3, Kept
    <3> QED BY <3>1, <3>2, AtBits
  <2> QED BY <1>1, <2>1, <2>2 DEF TypeOK, inputs
<1>9. Untouched'
  BY DEF IInv, Untouched, inputs
<1> QED BY <1>1, <1>7, <1>8, <1>9
        DEF IInv, Extending, Picking, Solved, Reading, Finishing, inputs

\* The backward pass, one position.
LEMMA TraceKeeps ==
    ASSUME IInv, Trace
    PROVE  IInv'
<1>1. /\ TypeOK /\ columns \in [Positions -> Columns] /\ Backtracking
      /\ pc = "backward" /\ pc' = "backward"
      /\ UNCHANGED <<inputs, first, metric, survivors, samples, decoded, result>>
      /\ UNCHANGED inputs
  BY DEF IInv, Trace
<1>2. Planned /\ Segment
  BY <1>1, BackStands
<1> PICK f, e, b, p, y : Going(f, e, b, p, y)
  BY <1>1, BackStands
<1>3. /\ first = f /\ SegmentEnd = e /\ block = b /\ position = p
      /\ f \in Nat /\ e \in Nat /\ b \in Nat /\ f <= b /\ b < e /\ e <= MessageBits
      /\ p \in Nat /\ BlockStart(b) \in Nat /\ BlockStart(f) \in Nat /\ BlockStart(e) \in Nat
      /\ BlockStart(f) <= BlockStart(b) /\ BlockStart(b) < p /\ p <= BlockStart(b + 1)
      /\ BlockStart(b + 1) \in Nat /\ BlockStart(b + 1) <= BlockStart(e) /\ p <= Length
      /\ y \in SUBSET Positions /\ y \in Vectors
  <2>1. p > BlockStart(b)
    BY DEF Going, Trace
  <2> QED BY <2>1 DEF Going
<1> DEFINE q == p - 1
<1>4. /\ q \in Nat /\ q \in Positions /\ q + 1 = p /\ BlockStart(b) <= q /\ BlockStart(f) <= q
      /\ InBlock(q, b) /\ q \in 0 .. Length
  BY <1>3, Constants DEF InBlock, Positions
<1>5. /\ position' = q /\ block' = b
      /\ IF register \in survivors[q]
         THEN stego' = stego \cup {q} /\ register' = Xor(register, columns[q])
         ELSE stego' = stego /\ register' = register
  BY <1>3 DEF Trace
<1> HIDE DEF q
<1>6. columns \in [Positions -> Registers]
  BY <1>1, ColumnsAre
<1>7. register = At(y, f, b, q + 1) /\ register = At(y, f, b, p)
  BY <1>4 DEF Going
<1>8. q \in y <=> register \in survivors[q]
  <2>1. q \in BlockStart(f) .. p - 1 /\ b \in f .. e - 1
    BY <1>3, <1>4
  <2>2. q \in y <=> At(y, f, b, q + 1) \in survivors[q]
    BY <1>4, <2>1 DEF Going
  <2> QED BY <1>7, <2>2
<1>9. register = IF q \in y THEN Xor(At(y, f, b, q), columns[q]) ELSE At(y, f, b, q)
  <2>1. At(y, f, b, q + 1) = IF q \in y THEN Xor(At(y, f, b, q), columns[q])
                                        ELSE At(y, f, b, q)
    BY <1>2, <1>3, <1>4, <1>6, AtAdds
  <2> QED BY <1>7, <2>1
<1>10. register' = At(y, f, b, q)
  <2>1. CASE q \in y
    BY <1>5, <1>8, <1>9, <2>1, XorBack
  <2>2. CASE q \notin y
    BY <1>5, <1>8, <1>9, <2>2
  <2> QED BY <2>1, <2>2
<1>11. PICK t : t = stego'
  OBVIOUS
<1>12. /\ \A k : k \in t <=> k \in stego \/ (k = q /\ q \in y)
  BY <1>5, <1>8, <1>11
<1>13. t \subseteq Positions
  BY <1>1, <1>4, <1>12 DEF TypeOK
<1>14. \A k \in Positions : k \in Nat
  BY Constants DEF Positions
<1>15. Below(y, BlockStart(f)) = Below(t, BlockStart(f))
  <2>1. ~ (q < BlockStart(f))
    BY <1>3, <1>4
  <2>2. \A k : k \in Below(t, BlockStart(f)) <=> k \in Below(stego, BlockStart(f))
    BY <1>12, <2>1 DEF Below
  <2>3. Below(t, BlockStart(f)) = Below(stego, BlockStart(f))
    BY <2>2
  <2> QED BY <2>3 DEF Going
<1>16. q \notin stego
  <2>1. ~ (q < BlockStart(f)) /\ ~ (p <= q)
    BY <1>3, <1>4
  <2> QED BY <2>1 DEF Going
<1>17. \A k \in q .. BlockStart(e) - 1 : k \in y <=> k \in t
  <2> SUFFICES ASSUME NEW k \in q .. BlockStart(e) - 1 PROVE k \in y <=> k \in t
    OBVIOUS
  <2>1. CASE k = q
    BY <1>12, <1>16, <2>1
  <2>2. CASE k # q
    <3>1. k \in p .. BlockStart(e) - 1
      BY <1>3, <1>4, <2>2
    <3> QED BY <1>12, <2>2, <3>1 DEF Going
  <2> QED BY <2>1, <2>2
<1>18. \A k \in t : k < BlockStart(f) \/ (q <= k /\ k < BlockStart(e))
  <2> SUFFICES ASSUME NEW k \in t PROVE k < BlockStart(f) \/ (q <= k /\ k < BlockStart(e))
    OBVIOUS
  <2>1. CASE k = q
    BY <1>3, <1>4, <2>1
  <2>2. CASE k \in stego
    <3>1. k < BlockStart(f) \/ (p <= k /\ k < BlockStart(e))
      BY <2>2 DEF Going
    <3>2. k \in Nat
      BY <1>13, <1>14
    <3> QED BY <1>3, <1>4, <3>1, <3>2
  <2> QED BY <1>12, <2>1, <2>2
<1>19. SegmentEnd' = e
  <2>1. SegmentEnd' = SegmentEnd
    BY <1>1, Kept DEF SegmentEnd, Least
  <2> QED BY <1>3, <2>1
<1>20. first' = f
  BY <1>1, <1>3
<1>21. Traced(y, position)'
  <2>1. \A k \in BlockStart(f) .. q - 1 : \A c \in f .. e - 1 :
            InBlock(k, c) => (k \in y <=> At(y, f, c, k + 1) \in survivors'[k])
    <3>1. \A k \in BlockStart(f) .. q - 1 : k \in BlockStart(f) .. p - 1
      BY <1>3, <1>4
    <3>2. survivors' = survivors
      BY <1>1
    <3> QED BY <3>1, <3>2 DEF Going
  <2> QED BY <1>1, <1>5, <1>19, <1>20, <2>1, TracedThen
<1>22. Tracing(y)'
  <2>1. Solution(y, e, BlockStart(e))
    BY DEF Going
  <2> QED BY <1>1, <1>5, <1>10, <1>11, <1>15, <1>17, <1>19, <1>20, <1>21, <2>1, TracingThen
<1>23. q \in BlockStart(b) .. BlockStart(b + 1)
  BY <1>3, <1>4
<1> QED BY <1>1, <1>3, <1>4, <1>5, <1>11, <1>13, <1>18, <1>19, <1>20, <1>22, <1>23, BackwardKeeps

\* The backward pass, the start of a block.
LEMMA ReopenKeeps ==
    ASSUME IInv, Reopen
    PROVE  IInv'
<1>1. /\ TypeOK /\ columns \in [Positions -> Columns] /\ Backtracking
      /\ pc = "backward" /\ pc' = "backward"
      /\ UNCHANGED <<inputs, position, first, metric, survivors, stego, samples, decoded, result>>
      /\ UNCHANGED inputs
  BY DEF IInv, Reopen
<1>2. Planned /\ Segment
  BY <1>1, BackStands
<1> PICK f, e, bb, p, y : Going(f, e, bb, p, y)
  BY <1>1, BackStands
<1>3. /\ first = f /\ SegmentEnd = e /\ block = bb /\ position = p
      /\ f \in Nat /\ e \in Nat /\ bb \in Nat /\ f < bb /\ bb < e /\ e <= MessageBits
      /\ p \in Nat /\ BlockStart(bb) = p /\ p <= Length /\ BlockStart(e) \in Nat
      /\ y \in SUBSET Positions /\ y \in Vectors
      /\ Solution(y, e, BlockStart(e)) /\ register = At(y, f, bb, p)
  <2>1. block > first /\ position = BlockStart(block)
    BY DEF Reopen
  <2> QED BY <2>1 DEF Going
<1> DEFINE b == bb - 1
<1>4. b \in Nat /\ b + 1 = bb /\ f <= b /\ b < e /\ b + 1 <= MessageBits /\ b \in first .. SegmentEnd - 1
  BY <1>2, <1>3, Layout
<1>5. block' = b /\ register' = ShiftLeft(register, Bit(b))
  BY <1>3 DEF Reopen
<1> HIDE DEF b
<1>6. columns \in [Positions -> Registers]
  BY <1>1, ColumnsAre
<1>7. SegmentStart(b) = f /\ BlockStart(b) \in Nat /\ BlockStart(b) < BlockStart(b + 1)
  BY <1>2, <1>3, <1>4, InSegment
<1>8. Bit(b) \in {0, 1}
  BY <1>1, <1>2, <1>4, BitsAreBits DEF TypeOK
<1>9. Right(y, b + 1)
  <2>1. Right(y, e)
    BY <1>3 DEF Solution
  <2>2. \A a \in 0 .. (b + 1) - 1 : a \in 0 .. e - 1
    BY <1>3, <1>4
  <2> QED BY <2>1, <2>2 DEF Right
<1>10. register' = At(y, f, b, p)
  <2>1. ShiftLeft(At(y, f, b + 1, BlockStart(b + 1)), Bit(b)) = At(y, f, b, BlockStart(b + 1))
    BY <1>2, <1>3, <1>4, <1>6, <1>7, <1>8, <1>9, Reopened
  <2>2. BlockStart(b + 1) = p /\ register = At(y, f, b + 1, p)
    BY <1>3, <1>4
  <2> QED BY <1>5, <2>1, <2>2
<1>11. PICK t : t = stego
  OBVIOUS
<1>12. first' = f /\ position' = p /\ stego' = t /\ SegmentEnd' = e
  <2>1. SegmentEnd' = SegmentEnd
    BY <1>1, Kept DEF SegmentEnd, Least
  <2> QED BY <1>1, <1>3, <1>11, <2>1
<1>13. Traced(y, position)'
  <2>1. \A k \in BlockStart(f) .. p - 1 : \A c \in f .. e - 1 :
            InBlock(k, c) => (k \in y <=> At(y, f, c, k + 1) \in survivors'[k])
    <3>1. survivors' = survivors
      BY <1>1
    <3> QED BY <3>1 DEF Going
  <2> QED BY <1>1, <1>12, <2>1, TracedThen
<1>14. Tracing(y)'
  <2>1. Below(y, BlockStart(f)) = Below(t, BlockStart(f))
    BY <1>11 DEF Going
  <2>2. \A k \in p .. BlockStart(e) - 1 : k \in y <=> k \in t
    BY <1>11 DEF Going
  <2> QED BY <1>1, <1>3, <1>5, <1>10, <1>12, <1>13, <2>1, <2>2, TracingThen
<1>15. p \in BlockStart(b) .. BlockStart(b + 1) /\ p \in 0 .. Length
  BY <1>3, <1>4, <1>7, Constants
<1>16. t \subseteq Positions
  BY <1>1, <1>11 DEF TypeOK
<1>17. \A k \in t : k < BlockStart(f) \/ (p <= k /\ k < BlockStart(e))
  BY <1>11 DEF Going
<1>18. UNCHANGED <<inputs, first, metric, survivors, samples, decoded, result>>
  BY <1>1
<1> QED BY <1>1, <1>3, <1>4, <1>5, <1>12, <1>14, <1>15, <1>16, <1>17, <1>18, BackwardKeeps

(***************************************************************************)
(* A segment begins, at the first block or where the last one ended.       *)
(***************************************************************************)
LEMMA SegmentBegins ==
    ASSUME UNCHANGED inputs, Planned, Valid, NEW f, NEW s,
           first' = f, block' = f, position' = BlockStart(f), metric' = Origin, stego' = s,
           f \in Nat, f < MessageBits, f % BlocksPerSegment = 0,
           s \in Vectors, Solution(s, f, BlockStart(f))
    PROVE  Extending'
<1> DEFINE p == BlockStart(f)
<1>1. MessageBits \in Nat /\ BlocksPerSegment \in Nat /\ BlocksPerSegment >= 1
      /\ UsedPositions \in Nat /\ UsedPositions <= Length
  BY Layout
<1>2. p \in Nat /\ BlockStart(f + 1) \in Nat /\ p < BlockStart(f + 1)
  BY BlockAfterBlock
<1>3. p \in 0 .. Length
  <2>1. p <= BlockStart(MessageBits) /\ BlockStart(MessageBits) = UsedPositions
    BY <1>1, BlocksInOrder, BlocksSpan
  <2> QED BY <1>1, <1>2, <2>1, Constants
<1>4. /\ Start' = p /\ SegmentEnd' = Least(f + BlocksPerSegment, MessageBits)
      /\ BlockStart(block)' = p /\ BlockStart(block + 1)' = BlockStart(f + 1)
  BY Kept DEF Start, SegmentEnd, Least
<1> HIDE DEF p
<1>5. position' = p
  BY DEF p
<1>6. Segment' /\ (block < SegmentEnd)'
  <2>1. f < SegmentEnd' /\ SegmentEnd' \in Nat
    BY <1>1, <1>4 DEF Least
  <2> QED BY <1>1, <2>1, Kept DEF Segment
<1>7. (position \in BlockStart(block) .. BlockStart(block + 1))'
  BY <1>2, <1>4, <1>5
<1>8. s \in SUBSET Positions
  BY VectorsArePositions
<1>9. s \subseteq 0 .. p - 1 /\ Right(s, f)
  BY DEF Solution, p
<1>10. \A z \in Vectors : At(z, f, f, p) = {}
  BY VectorsArePositions, AtStart DEF p
<1>11. /\ {} \in Registers /\ metric'[{}] = 0
       /\ \A r \in Registers : metric'[r] < Infinity => r = {}
       /\ 0 < Infinity
  <2>1. {} \in Registers
    BY DEF Registers
  <2>2. 0 < Infinity
    <3>1. Cost(s, p) \in Nat /\ Cost(s, p) < Infinity
      BY <1>3, CostIsFinite
    <3> QED BY <3>1, Constants
  <2>3. \A r \in Registers : metric'[r] = IF r = {} THEN 0 ELSE Infinity
    BY DEF Origin
  <2> QED BY <2>1, <2>2, <2>3, Constants
<1>12. Alive'
  <2>1. \E r \in Registers : metric'[r] < Infinity
    BY <1>11
  <2>2. ~ (position > BlockStart(block))'
    BY <1>2, <1>4, <1>5
  <2> QED BY <2>1, <2>2 DEF Alive
<1>13. Cost(s, p) \in Nat
  BY <1>3, CostIsFinite
<1>14. Path(s, {})'
  <2>1. Below(s, p) = s
    <3>1. \A q \in s : q < p
      BY <1>2, <1>9
    <3> QED BY <3>1 DEF Below
  <2>2. Cost(s, p) = Cost(s, p) + metric'[{}]
    BY <1>11, <1>13
  <2>3. Traced(s, position)'
    <3>1. PICK e : e = SegmentEnd'
      OBVIOUS
    <3>2. \A q \in BlockStart(f) .. p - 1 : \A c \in f .. e - 1 :
              InBlock(q, c) => (q \in s <=> At(s, f, c, q + 1) \in survivors'[q])
      BY <1>2 DEF p
    <3> QED BY <1>5, <3>1, <3>2, TracedThen
  <2>4. At(s, f, f, p) = {}
    BY <1>10
  <2> QED BY <1>5, <1>9, <2>1, <2>2, <2>3, <2>4, PathThen DEF p
<1>15. Reached'
  <2>1. Vectors' = Vectors
    BY Kept
  <2> QED BY <1>11, <1>14, <2>1 DEF Reached
<1>16. Cheapest'
  <2> SUFFICES ASSUME NEW z \in Vectors, Right(z, block)'
               PROVE  (Cost(stego, Start) + metric[At(z, first, block, position)])'
                         <= Cost(z, position)'
    <3>1. Vectors' = Vectors
      BY Kept
    <3> QED BY <3>1 DEF Cheapest
  <2>1. Right(z, f)
    BY RightKept
  <2>2. Cost(s, p) <= Cost(z, p)
    BY <2>1 DEF Solution, p
  <2>3. At(z, first, block, position)' = {}
    <3>1. At(z, first, block, position)' = At(z, f, f, p)
      BY <1>5, Kept
    <3> QED BY <1>10, <3>1
  <2>4. Cost(stego, Start)' = Cost(s, p) /\ Cost(z, position)' = Cost(z, p)
    BY <1>4, <1>5, Kept
  <2>5. Cost(stego, Start)' + metric'[{}] <= Cost(z, position)'
    BY <1>11, <1>13, <2>2, <2>4
  <2> QED BY <2>3, <2>5
<1>17. (stego \subseteq 0 .. Start - 1)' /\ Planned'
  BY <1>4, <1>9, Kept
<1> QED BY <1>6, <1>7, <1>12, <1>15, <1>16, <1>17 DEF Extending, Forward

\* The metric a segment begins with.
LEMMA OriginIsMetric == Origin \in [Registers -> 0 .. Infinity]
  BY Constants DEF Origin

\* The end of a segment: the next one begins, or the vector is complete.
LEMMA NextKeeps ==
    ASSUME IInv, NextSegment
    PROVE  IInv'
<1>1. /\ TypeOK /\ columns \in [Positions -> Columns] /\ Backtracking /\ pc = "backward"
      /\ UNCHANGED <<inputs, survivors, register, stego, samples, decoded, result>>
      /\ UNCHANGED inputs /\ metric' = Origin
      /\ pc' = IF SegmentEnd = MessageBits THEN "apply" ELSE "forward"
  BY DEF IInv, NextSegment
<1>2. Planned /\ Segment /\ Valid
  BY <1>1, BackStands DEF TypeOK, Valid, Planned
<1> PICK f, e, b, p, y : Going(f, e, b, p, y)
  BY <1>1, BackStands
<1>3. /\ first = f /\ SegmentEnd = e /\ block = f /\ position = p
      /\ f \in Nat /\ e \in Nat /\ f < e /\ e <= MessageBits
      /\ p \in Nat /\ BlockStart(f) = p /\ BlockStart(e) \in Nat
      /\ y \in SUBSET Positions /\ y \in Vectors /\ Solution(y, e, BlockStart(e))
  <2>1. position = BlockStart(block) /\ block = first
    BY DEF NextSegment
  <2> QED BY <2>1 DEF Going
<1>4. first' = e /\ block' = e /\ position' = BlockStart(e)
  BY <1>3 DEF NextSegment
<1>5. y = stego
  <2>1. \A q \in y : q \in Nat /\ q < BlockStart(e)
    <3>1. y \subseteq 0 .. BlockStart(e) - 1
      BY <1>3 DEF Solution
    <3> QED BY <1>3, <3>1
  <2>2. \A q \in stego : q \in Nat
    BY <1>1, Constants DEF TypeOK, Positions
  <2>3. \A q : q < p => (q \in y <=> q \in stego)
    <3>1. Below(y, p) = Below(stego, p)
      BY <1>3 DEF Going
    <3> QED BY <3>1 DEF Below
  <2>4. \A q \in p .. BlockStart(e) - 1 : q \in y <=> q \in stego
    BY <1>3 DEF Going
  <2>5. \A q \in stego : q < p \/ (p <= q /\ q < BlockStart(e))
    BY <1>3 DEF Going
  <2>6. ASSUME NEW q \in y PROVE q \in stego
    <3>1. q \in Nat /\ q < BlockStart(e)
      BY <2>1, <2>6
    <3>2. CASE q < p
      BY <2>3, <2>6, <3>2
    <3>3. CASE p <= q
      <4>1. q \in p .. BlockStart(e) - 1
        BY <1>3, <3>1, <3>3
      <4> QED BY <2>4, <2>6, <4>1
    <3> QED BY <1>3, <3>1, <3>2, <3>3
  <2>7. ASSUME NEW q \in stego PROVE q \in y
    <3>1. q \in Nat
      BY <2>2, <2>7
    <3>2. CASE q < p
      BY <2>3, <2>7, <3>2
    <3>3. CASE p <= q /\ q < BlockStart(e)
      <4>1. q \in p .. BlockStart(e) - 1
        BY <1>3, <3>1, <3>3
      <4> QED BY <2>4, <2>7, <4>1
    <3> QED BY <2>5, <2>7, <3>2, <3>3
  <2> QED BY <2>6, <2>7
<1>6. MessageBits \in Nat /\ UsedPositions \in Nat /\ UsedPositions <= Length
  BY <1>2, Layout
<1>7. SegmentEnd < MessageBits => e % BlocksPerSegment = 0
  <2>1. first % BlocksPerSegment = 0 /\ first < MessageBits /\ first \in Nat
    BY <1>2, <1>3, <1>6 DEF Segment
  <2> QED BY <1>2, <1>3, <2>1, Segments
<1>8. PICK s : s = stego
  OBVIOUS
<1>9. stego' = s /\ s \in Vectors /\ Solution(s, e, BlockStart(e))
  BY <1>1, <1>3, <1>5, <1>8
<1>10. CASE e = MessageBits
  <2>1. pc' = "apply"
    BY <1>1, <1>3, <1>10
  <2>2. Solved'
    <3>1. Solution(stego, MessageBits, UsedPositions)'
      <4>1. BlockStart(e) = UsedPositions
        BY <1>2, <1>10, BlocksSpan
      <4>2. PICK u : u = UsedPositions
        OBVIOUS
      <4>3. Solution(s, e, u)
        BY <1>9, <4>1, <4>2
      <4>4. MessageBits' = e /\ UsedPositions' = u
        BY <1>1, <1>10, <4>2, Kept
      <4>5. Solution(s, e, u)'
        BY <1>1, <4>3, SolutionKept
      <4> QED BY <1>9, <4>4, <4>5
    <3> QED BY <1>1, <1>2, <3>1, Kept DEF Solved
  <2>3. position' \in 0 .. Length /\ block' \in 0 .. Length /\ first' \in 0 .. Length
    <3>1. BlockStart(e) = UsedPositions
      BY <1>2, <1>10, BlocksSpan
    <3> QED BY <1>2, <1>3, <1>4, <1>6, <3>1, Constants, Layout
  <2>4. TypeOK'
    BY <1>1, <2>1, <2>3, OriginIsMetric DEF TypeOK, inputs
  <2>5. Untouched'
    BY <1>1, <2>1 DEF IInv, Untouched, inputs
  <2> QED BY <1>1, <2>1, <2>2, <2>4, <2>5
          DEF IInv, Extending, Picking, Backtracking, Reading, Finishing, inputs
<1>11. CASE e # MessageBits
  <2>1. pc' = "forward" /\ e < MessageBits
    BY <1>1, <1>3, <1>6, <1>11
  <2>2. Extending'
    BY <1>1, <1>2, <1>3, <1>4, <1>7, <1>9, <2>1, SegmentBegins
  <2>3. position' \in 0 .. Length /\ block' \in 0 .. Length /\ first' \in 0 .. Length
    <3>1. BlockStart(e) <= BlockStart(MessageBits) /\ BlockStart(MessageBits) = UsedPositions
      BY <1>2, <1>3, <1>6, BlocksInOrder, BlocksSpan
    <3> QED BY <1>2, <1>3, <1>4, <1>6, <3>1, Constants, Layout
  <2>4. TypeOK'
    BY <1>1, <2>1, <2>3, OriginIsMetric DEF TypeOK, inputs
  <2>5. Untouched'
    BY <1>1, <2>1 DEF IInv, Untouched, inputs
  <2> QED BY <1>1, <2>1, <2>2, <2>4, <2>5
          DEF IInv, Picking, Backtracking, Solved, Reading, Finishing, inputs
<1> QED BY <1>10, <1>11

\* The pre-conditions: a rejected input ends the coder, another begins a segment.
LEMMA CheckKeeps ==
    ASSUME IInv, Check
    PROVE  IInv'
<1>1. /\ TypeOK /\ columns \in [Positions -> Columns] /\ Untouched /\ pc = "check"
      /\ UNCHANGED <<inputs, position, block, first, metric, survivors, register, stego, samples,
                     decoded>>
      /\ UNCHANGED inputs
  BY DEF IInv, Check
<1>2. /\ samples = cover /\ result = "pending" /\ decoded = <<>> /\ position = 0 /\ block = 0
      /\ first = 0 /\ stego = {} /\ metric = Origin
  BY <1>1 DEF Untouched
<1>3. message \in Seq({0, 1}) /\ MessageBits = Len(message) /\ MessageBits \in Nat
  BY <1>1, TrellisAssumption DEF TypeOK, MessageBits
<1>4. MessageBits' = MessageBits
  BY <1>1, Kept
<1>5. CASE result' \in {"exceeds_capacity", "invalid_costs"} /\ pc' = "done"
  <2>1. TypeOK'
    BY <1>1, <1>5 DEF TypeOK, inputs
  <2>2. Finishing'
    BY <1>1, <1>2, <1>5 DEF Finishing, inputs
  <2> QED BY <1>1, <1>5, <2>1, <2>2
          DEF IInv, Extending, Picking, Backtracking, Solved, Reading, Untouched, inputs
<1>6. CASE MessageBits = 0 /\ result' = "ok" /\ pc' = "done"
  <2>1. TypeOK'
    BY <1>1, <1>6 DEF TypeOK, inputs
  <2>2. Finishing'
    <3>1. message = <<>>
      BY <1>3, <1>6, EmptySeq
    <3>2. (decoded = message)' /\ (samples = cover)' /\ ~ (MessageBits > 0)'
      BY <1>1, <1>2, <1>4, <1>6, <3>1 DEF inputs
    <3> QED BY <1>6, <3>2 DEF Finishing
  <2> QED BY <1>1, <1>6, <2>1, <2>2
          DEF IInv, Extending, Picking, Backtracking, Solved, Reading, Untouched, inputs
<1>7. CASE /\ MessageBits \in 1 .. Capacity /\ \A p \in Positions : rho[p] >= 0
           /\ pc' = "forward" /\ UNCHANGED result
  <2>1. TypeOK'
    BY <1>1, <1>7 DEF TypeOK, inputs
  <2>2. Planned /\ Valid
    BY <1>1, <1>7 DEF Planned, Valid, TypeOK
  <2>3. BlockStart(0) = 0
    BY <2>2, BlocksSpan
  <2>4. Solution({}, 0, BlockStart(0)) /\ {} \in Vectors
    <3>1. Right({}, 0)
      BY RightAtOnce
    <3>2. ASSUME NEW z PROVE Cost({}, 0) <= Cost(z, 0)
      <4>1. Cost({}, 0) = 0 /\ Cost(z, 0) = 0
        BY CumulatedIs DEF Cost
      <4> QED BY <4>1
    <3> QED BY <2>3, <3>1, <3>2 DEF Solution, Vectors
  <2>5. 0 % BlocksPerSegment = 0 /\ 0 < MessageBits
    <3>1. BlocksPerSegment \in Nat /\ BlocksPerSegment >= 1
      BY <2>2, Layout
    <3> QED BY <1>3, <1>7, <3>1, SMT
  <2>6. first' = 0 /\ block' = 0 /\ position' = BlockStart(0) /\ metric' = Origin /\ stego' = {}
    BY <1>1, <1>2, <2>3
  <2>7. Extending'
    BY <1>1, <2>2, <2>4, <2>5, <2>6, SegmentBegins
  <2>8. Untouched'
    BY <1>1, <1>2, <1>7 DEF Untouched, inputs
  <2> QED BY <1>1, <1>7, <2>1, <2>7, <2>8
          DEF IInv, Picking, Backtracking, Solved, Reading, Finishing, inputs
<1> QED BY <1>5, <1>6, <1>7 DEF Check
-----------------------------------------------------------------------------
(***************************************************************************)
(* The samples are written, and read back.                                 *)
(***************************************************************************)
\* A move is by one level, inside the range of a sample, and flips its parity.
LEMMA MovesOneLevel ==
    ASSUME NEW v \in 0 .. 255, NEW w \in Moves(v)
    PROVE  /\ w \in 0 .. 255 /\ w \in v - 1 .. v + 1
           /\ (w % 2 = 1) <=> ~ (v % 2 = 1)
<1>1. w \in 0 .. 255 /\ (w = v - 1 \/ w = v + 1)
  BY DEF Moves
<1> QED BY <1>1, SMT

\* apply_changes leaves samples that spell the vector, one level away.
LEMMA ApplySpells ==
    ASSUME TypeOK, Planned, Apply
    PROVE  samples' \in [Positions -> 0 .. 255] /\ Spelled'
<1>1. UNCHANGED inputs /\ cover' = cover /\ stego' = stego
  BY DEF Apply, inputs
<1>2. cover \in [Positions -> 0 .. 255]
  BY TrellisAssumption DEF TypeOK
<1> DEFINE agrees(p) == (p \in stego) <=> (cover[p] % 2 = 1)
<1>3. /\ samples' \in [Positions -> UNION {Moves(cover[p]) \cup {cover[p]} : p \in Positions}]
      /\ \A p \in Positions : IF p >= UsedPositions \/ agrees(p)
                              THEN samples'[p] = cover[p] ELSE samples'[p] \in Moves(cover[p])
  BY DEF Apply
<1>4. DOMAIN samples' = Positions /\ samples' = [p \in Positions |-> samples'[p]]
  BY <1>3
<1>5. ASSUME NEW p \in Positions
      PROVE  /\ samples'[p] \in 0 .. 255
             /\ samples'[p] \in cover[p] - 1 .. cover[p] + 1
             /\ p >= UsedPositions => samples'[p] = cover[p]
             /\ ~ (p >= UsedPositions) => ((samples'[p] % 2 = 1) <=> (p \in stego))
  <2>1. cover[p] \in 0 .. 255
    BY <1>2
  <2>2. CASE p >= UsedPositions \/ agrees(p)
    <3>1. samples'[p] = cover[p]
      BY <1>3, <2>2
    <3> QED BY <2>1, <2>2, <3>1
  <2>3. CASE ~ (p >= UsedPositions) /\ ~ agrees(p)
    <3>1. samples'[p] \in Moves(cover[p])
      BY <1>3, <2>3
    <3>2. /\ samples'[p] \in 0 .. 255 /\ samples'[p] \in cover[p] - 1 .. cover[p] + 1
          /\ (samples'[p] % 2 = 1) <=> ~ (cover[p] % 2 = 1)
      BY <2>1, <3>1, MovesOneLevel
    <3> QED BY <2>3, <3>2
  <2> QED BY <2>2, <2>3
<1>6. samples' \in [Positions -> 0 .. 255]
  BY <1>4, <1>5
<1>7. UsedPositions' = UsedPositions
  BY <1>1, Kept
<1>8. \A p \in Positions : p < UsedPositions <=> ~ (p >= UsedPositions)
  BY Layout, Constants DEF Positions
<1>9. ASSUME NEW p \in Positions
      PROVE  /\ samples'[p] \in cover[p] - 1 .. cover[p] + 1
             /\ IF p < UsedPositions THEN (samples'[p] % 2 = 1) <=> (p \in stego)
                                     ELSE samples'[p] = cover[p]
  BY <1>5, <1>8
<1> QED BY <1>1, <1>6, <1>7, <1>9 DEF Spelled

\* The samples are written, and the decoder begins.
LEMMA ApplyKeeps ==
    ASSUME IInv, Apply
    PROVE  IInv'
<1>1. /\ TypeOK /\ columns \in [Positions -> Columns] /\ Untouched /\ Solved
      /\ pc = "apply" /\ pc' = "read"
      /\ UNCHANGED <<inputs, first, metric, survivors, stego, decoded>>
      /\ UNCHANGED inputs
      /\ result' = "ok" /\ position' = 0 /\ block' = 0 /\ register' = {}
  BY DEF IInv, Apply, Goto
<1>2. Planned /\ Right(stego, MessageBits)
  BY <1>1 DEF Solved, Solution
<1>3. samples' \in [Positions -> 0 .. 255] /\ Spelled'
  BY <1>1, <1>2, ApplySpells
<1>4. TypeOK'
  <2>1. {} \in Registers
    BY DEF Registers
  <2> QED BY <1>1, <1>3, <2>1, Constants DEF TypeOK, inputs
<1>5. Reading'
  <2>1. (Planned /\ Right(stego, MessageBits))'
    <3>1. PICK m : m = MessageBits
      OBVIOUS
    <3>2. PICK s : s = stego
      OBVIOUS
    <3>3. MessageBits' = m /\ stego' = s
      BY <1>1, <3>1, <3>2, Kept
    <3>4. Right(s, m)'
      BY <1>1, <1>2, <3>1, <3>2, RightKept
    <3> QED BY <1>1, <1>2, <3>3, <3>4, Kept
  <2>2. MessageBits' = MessageBits /\ MessageBits \in Nat /\ 1 <= MessageBits
    BY <1>1, <1>2, Layout, Kept
  <2>3. BlockStart(block)' = 0 /\ BlockStart(block + 1)' \in Nat
    <3>1. BlockStart(0) = 0 /\ BlockStart(0 + 1) \in Nat
      BY <1>2, BlocksSpan, BlockAfterBlock
    <3> QED BY <1>1, <3>1, Kept
  <2>4. (block % BlocksPerSegment = 0)'
    <3>1. BlocksPerSegment \in Nat /\ BlocksPerSegment >= 1
      BY <1>2, Layout
    <3>2. 0 % BlocksPerSegment = 0
      BY <3>1, SMT
    <3> QED BY <1>1, <3>2, Kept
  <2>5. (decoded = SubSeq(message, 1, block))'
    <3>1. message \in Seq({0, 1}) /\ decoded = <<>>
      BY <1>1, TrellisAssumption DEF TypeOK, Untouched
    <3>2. SubSeq(message, 1, 0) = <<>>
      BY <3>1, SMT
    <3> QED BY <1>1, <3>1, <3>2 DEF inputs
  <2> QED BY <1>1, <1>3, <2>1, <2>2, <2>3, <2>4, <2>5 DEF Reading
<1> QED BY <1>1, <1>4, <1>5
        DEF IInv, Untouched, Extending, Picking, Backtracking, Solved, Finishing, inputs

\* The next block is in the same segment, unless it starts one.
LEMMA SegmentStartStays ==
    ASSUME Planned, NEW b \in Nat, ~ ((b + 1) % BlocksPerSegment = 0)
    PROVE  SegmentStart(b + 1) = SegmentStart(b)
<1>1. BlocksPerSegment \in Nat /\ BlocksPerSegment >= 1
  BY Layout
<1> DEFINE n == BlocksPerSegment
           k == b \div n
           m == n * k
<1>2. /\ k \in Nat /\ m <= b /\ b < m + n
      /\ b % n = b - m
  BY <1>1, Quotient
<1>3. m \in Nat /\ m % n = 0 /\ m + n \in Nat /\ (m + n) % n = 0
  <2>1. m \in Nat
    BY <1>1, <1>2, SMT
  <2>2. m % n = 0
    BY <1>1, <1>2, SMT
  <2> QED BY <1>1, <2>1, <2>2, NextMultiple
<1>4. b + 1 # m + n
  BY <1>3
<1>5. (b + 1) % n = (b + 1) - m
  <2> HIDE DEF m, n
  <2>1. b + 1 \in Nat /\ m <= b + 1 /\ b + 1 < m + n
    BY <1>2, <1>3, <1>4, <1>1
  <2> QED BY <1>1, <1>3, <2>1, Multiple DEF n
<1> HIDE DEF m, n
<1> QED BY <1>1, <1>2, <1>3, <1>5 DEF SegmentStart, n

\* A block that starts a segment.
LEMMA SegmentStartHere ==
    ASSUME NEW b \in Nat, b % BlocksPerSegment = 0
    PROVE  SegmentStart(b) = b
  BY DEF SegmentStart

\* Only the reading moves on.
LEMMA ReadingThen ==
    ASSUME UNCHANGED <<inputs, stego, samples, result>>, Planned, Reading, pc = "read",
           NEW b, NEW p, NEW r, block' = b, position' = p, register' = r,
           NEW d, decoded' = d,
           b \in 0 .. MessageBits - 1, p \in BlockStart(b) .. BlockStart(b + 1),
           d = SubSeq(message, 1, b),
           \/ p = BlockStart(b) /\ b % BlocksPerSegment = 0
           \/ r = At(stego, SegmentStart(b), b, p)
    PROVE  Reading'
<1>1. UNCHANGED inputs /\ message' = message /\ cover' = cover
  BY DEF inputs
<1>2. PICK s : s = stego
  OBVIOUS
<1>3. PICK m : m = MessageBits
  OBVIOUS
<1>4. PICK f : f = SegmentStart(b)
  OBVIOUS
<1>5. stego' = s /\ MessageBits' = m /\ SegmentStart(block)' = f /\ UsedPositions' = UsedPositions
  BY <1>1, <1>2, <1>3, <1>4, Kept
<1>6. Planned' /\ Right(stego, MessageBits)'
  <2>1. Right(s, m)'
    BY <1>1, <1>2, <1>3, RightKept DEF Reading
  <2> QED BY <1>1, <1>5, <2>1, Kept
<1>7. Spelled' /\ result' = "ok"
  <2>1. Spelled /\ result = "ok"
    BY DEF Reading
  <2> QED BY <1>1, <1>5, <2>1 DEF Spelled
<1>8. /\ (block \in 0 .. MessageBits - 1)'
      /\ (position \in BlockStart(block) .. BlockStart(block + 1))'
      /\ (decoded = SubSeq(message, 1, block))'
  BY <1>1, Kept
<1>9. \/ (position = BlockStart(block) /\ block % BlocksPerSegment = 0)'
      \/ (register = At(stego, SegmentStart(block), block, position))'
  <2>1. CASE p = BlockStart(b) /\ b % BlocksPerSegment = 0
    BY <1>1, <2>1, Kept
  <2>2. CASE r = At(stego, SegmentStart(b), b, p)
    <3>1. At(stego, SegmentStart(block), block, position)' = At(s, f, b, p)
      BY <1>1, <1>5, Kept
    <3> QED BY <1>2, <1>4, <2>2, <3>1
  <2> QED BY <2>1, <2>2
<1> QED BY <1>6, <1>7, <1>8, <1>9 DEF Reading

\* The decoder, one position: its register is the one of the stego vector.
LEMMA ReadSampleKeeps ==
    ASSUME IInv, ReadSample
    PROVE  IInv'
<1>1. /\ TypeOK /\ columns \in [Positions -> Columns] /\ Reading /\ pc = "read"
      /\ UNCHANGED <<inputs, pc, block, first, metric, survivors, stego, samples, decoded, result>>
      /\ UNCHANGED inputs /\ pc' = "read"
      /\ position < BlockStart(block + 1) /\ position' = position + 1
  BY DEF IInv, ReadSample
<1>2. Planned /\ Spelled
  BY <1>1 DEF Reading
<1> PICK b, p, s : b = block /\ p = position /\ s = stego
  OBVIOUS
<1>3. /\ b \in 0 .. MessageBits - 1 /\ p \in BlockStart(b) .. BlockStart(b + 1)
      /\ decoded = SubSeq(message, 1, b)
      /\ \/ p = BlockStart(b) /\ b % BlocksPerSegment = 0
         \/ register = At(s, SegmentStart(b), b, p)
  BY <1>1 DEF Reading
<1>4. /\ MessageBits \in Nat /\ 1 <= MessageBits
      /\ UsedPositions \in Nat /\ UsedPositions <= Length /\ Length \in Nat
  BY <1>2, Layout, Constants
<1>5. b \in Nat /\ b + 1 \in Nat /\ b + 1 <= MessageBits
  BY <1>3, <1>4
<1>6. BlockStart(b) \in Nat /\ BlockStart(b + 1) \in Nat /\ BlockStart(b) < BlockStart(b + 1)
  BY <1>2, <1>5, BlockAfterBlock
<1>7. BlockStart(b + 1) <= UsedPositions
  BY <1>2, <1>4, <1>5, BlocksInOrder, BlocksSpan
<1>8. p \in Nat /\ BlockStart(b) <= p /\ p < BlockStart(b + 1) /\ p < UsedPositions
  BY <1>1, <1>3, <1>6, <1>7, <1>4
<1>9. p \in Positions /\ InBlock(p, b) /\ p + 1 \in 0 .. Length
      /\ p + 1 \in BlockStart(b) .. BlockStart(b + 1)
  BY <1>4, <1>6, <1>8 DEF Positions, InBlock
<1>10. columns \in [Positions -> Registers]
  BY <1>1, ColumnsAre
<1>11. s \in SUBSET Positions
  BY <1>1 DEF TypeOK
<1>12. SegmentStart(b) \in Nat /\ SegmentStart(b) <= b
  BY <1>2, <1>5, SegmentStartsBefore
<1> DEFINE resets == position = BlockStart(block) /\ block % BlocksPerSegment = 0
           start == IF resets THEN {} ELSE register
<1>13. start = At(s, SegmentStart(b), b, p)
  <2>1. CASE resets
    <3>1. p = BlockStart(b) /\ b % BlocksPerSegment = 0
      BY <2>1
    <3>2. SegmentStart(b) = b
      BY <1>5, <3>1, SegmentStartHere
    <3>3. At(s, b, b, BlockStart(b)) = {}
      BY <1>2, <1>5, <1>11, AtStart
    <3> QED BY <2>1, <3>1, <3>2, <3>3
  <2>2. CASE ~ resets
    BY <1>3, <2>2
  <2> QED BY <2>1, <2>2
<1>14. register' = IF samples[p] % 2 = 1 THEN Xor(start, columns[p]) ELSE start
  BY DEF ReadSample
<1>15. samples[p] % 2 = 1 <=> p \in s
  BY <1>2, <1>8, <1>9 DEF Spelled
<1> HIDE DEF start, resets
<1>16. register' = At(s, SegmentStart(b), b, p + 1)
  <2>1. At(s, SegmentStart(b), b, p + 1) =
            IF p \in s THEN Xor(At(s, SegmentStart(b), b, p), columns[p])
                       ELSE At(s, SegmentStart(b), b, p)
    BY <1>2, <1>5, <1>9, <1>10, <1>11, <1>12, AtAdds
  <2> QED BY <1>13, <1>14, <1>15, <2>1
<1>17. Reading'
  BY <1>1, <1>2, <1>3, <1>9, <1>16, ReadingThen
<1>18. TypeOK'
  <2>1. register' \in Registers
    BY <1>16, AtBits
  <2> QED BY <1>1, <1>9, <2>1 DEF TypeOK, inputs
<1> QED BY <1>1, <1>17, <1>18
        DEF IInv, Untouched, Extending, Picking, Backtracking, Solved, Finishing, inputs

\* The decoder, the end of a block: the bit shifted out is a bit of the syndrome.
LEMMA ReadBitKeeps ==
    ASSUME IInv, ReadBit
    PROVE  IInv'
<1>1. /\ TypeOK /\ columns \in [Positions -> Columns] /\ Reading /\ pc = "read"
      /\ UNCHANGED <<inputs, position, first, metric, survivors, stego, samples, result>>
      /\ UNCHANGED inputs
      /\ position = BlockStart(block + 1) /\ block' = block + 1
      /\ decoded' = Append(decoded, Emitted(register)) /\ register' = ShiftRight(register)
      /\ pc' = IF block' = MessageBits THEN "done" ELSE "read"
  BY DEF IInv, ReadBit
<1>2. Planned /\ Spelled /\ Right(stego, MessageBits) /\ result = "ok"
  BY <1>1 DEF Reading
<1> PICK b, p, s : b = block /\ p = position /\ s = stego
  OBVIOUS
<1>3. /\ b \in 0 .. MessageBits - 1 /\ p = BlockStart(b + 1)
      /\ decoded = SubSeq(message, 1, b)
      /\ \/ p = BlockStart(b) /\ b % BlocksPerSegment = 0
         \/ register = At(s, SegmentStart(b), b, p)
  BY <1>1 DEF Reading
<1>4. /\ MessageBits \in Nat /\ 1 <= MessageBits /\ MessageBits = Len(message)
      /\ MessageBits <= Length /\ Length \in Nat
      /\ message \in Seq({0, 1})
  BY <1>1, <1>2, Layout, Constants, TrellisAssumption DEF MessageBits, TypeOK
<1>5. b \in Nat /\ b + 1 \in Nat /\ b + 1 <= MessageBits /\ b < MessageBits
  BY <1>3, <1>4
<1>6. BlockStart(b) \in Nat /\ p \in Nat /\ BlockStart(b) < p
  BY <1>2, <1>3, <1>5, BlockAfterBlock
<1>7. register = At(s, SegmentStart(b), b, BlockStart(b + 1))
  BY <1>3, <1>6
<1>8. columns \in [Positions -> Registers]
  BY <1>1, ColumnsAre
<1>9. s \in SUBSET Positions
  BY <1>1 DEF TypeOK
<1>10. SegmentStart(b) \in Nat /\ SegmentStart(b) <= b
  BY <1>2, <1>5, SegmentStartsBefore
<1>11. Emitted(register) = Bit(b)
  <2>1. 0 \in register <=> Row(s, b)
    BY <1>2, <1>5, <1>7, <1>9, AtRow
  <2>2. Row(s, b) <=> Bit(b) = 1
    <3>1. b \in 0 .. MessageBits - 1
      BY <1>3
    <3> QED BY <1>2, <3>1 DEF Right
  <2>3. Bit(b) \in {0, 1}
    BY <1>1, <1>2, <1>5, BitsAreBits DEF TypeOK
  <2> QED BY <2>1, <2>2, <2>3 DEF Emitted
<1>12. Bit(b) = message[b + 1] /\ Bit(b) \in {0, 1}
  BY <1>1, <1>2, <1>5, BitsAreBits DEF TypeOK, Bit
<1>13. decoded' = SubSeq(message, 1, b + 1)
  <2>1. decoded' = Append(SubSeq(message, 1, b), message[b + 1])
    BY <1>1, <1>3, <1>11, <1>12
  <2>2. Append(SubSeq(message, 1, b), message[b + 1]) = SubSeq(message, 1, b + 1)
    BY <1>4, <1>5, SMT
  <2> QED BY <2>1, <2>2
<1>14. register' = At(s, SegmentStart(b), b + 1, p)
  <2>1. At(s, SegmentStart(b), b + 1, BlockStart(b + 1)) = ShiftRight(register)
    BY <1>2, <1>5, <1>7, <1>8, <1>9, <1>10, AtShifts
  <2> QED BY <1>1, <1>3, <2>1
<1>15. TypeOK'
  <2>1. register' \in Registers
    BY <1>14, AtBits
  <2>2. decoded' \in Seq({0, 1})
    <3>1. Emitted(register) \in {0, 1} /\ decoded \in Seq({0, 1})
      BY <1>1 DEF Emitted, TypeOK
    <3> QED BY <1>1, <3>1, AppendProperties
  <2>3. block' \in 0 .. Length
    BY <1>1, <1>4, <1>5
  <2>4. pc' \in {"read", "done"}
    BY <1>1
  <2> QED BY <1>1, <2>1, <2>2, <2>3, <2>4 DEF TypeOK, inputs
<1>16. CASE b + 1 = MessageBits
  <2>1. pc' = "done"
    BY <1>1, <1>16
  <2>2. decoded' = message
    BY <1>4, <1>13, <1>16, SMT
  <2>3. Spelled'
    <3>1. UsedPositions' = UsedPositions /\ UNCHANGED <<cover, stego, samples>>
      BY <1>1, Kept DEF inputs
    <3> QED BY <1>2, <3>1 DEF Spelled
  <2>4. Finishing'
    <3>1. message' = message /\ MessageBits' = MessageBits /\ result' = "ok"
      BY <1>1, <1>2, Kept DEF inputs
    <3> QED BY <1>4, <2>2, <2>3, <3>1 DEF Finishing
  <2> QED BY <1>1, <1>15, <2>1, <2>4
          DEF IInv, Untouched, Extending, Picking, Backtracking, Solved, Reading, inputs
<1>17. CASE b + 1 # MessageBits
  <2>1. pc' = "read" /\ b + 1 \in 0 .. MessageBits - 1
    BY <1>1, <1>4, <1>5, <1>17
  <2>2. p \in BlockStart(b + 1) .. BlockStart((b + 1) + 1)
    <3>1. /\ BlockStart(b + 1) \in Nat
          /\ BlockStart((b + 1) + 1) \in Nat /\ BlockStart(b + 1) < BlockStart((b + 1) + 1)
      BY <1>2, <1>5, BlockAfterBlock
    <3> QED BY <1>3, <3>1
  <2>3. \/ p = BlockStart(b + 1) /\ (b + 1) % BlocksPerSegment = 0
        \/ register' = At(stego, SegmentStart(b + 1), b + 1, p)
    <3>1. CASE (b + 1) % BlocksPerSegment = 0
      BY <1>3, <3>1
    <3>2. CASE ~ ((b + 1) % BlocksPerSegment = 0)
      <4>1. SegmentStart(b + 1) = SegmentStart(b)
        BY <1>2, <1>5, <3>2, SegmentStartStays
      <4> QED BY <1>14, <4>1
    <3> QED BY <3>1, <3>2
  <2>4. UNCHANGED <<inputs, stego, samples, result>> /\ position' = p /\ block' = b + 1
    BY <1>1
  <2>5. Reading'
    BY <1>1, <1>2, <1>13, <2>1, <2>2, <2>3, <2>4, ReadingThen
  <2> QED BY <1>1, <1>15, <2>1, <2>5
          DEF IInv, Untouched, Extending, Picking, Backtracking, Solved, Finishing, inputs
<1> QED BY <1>16, <1>17
-----------------------------------------------------------------------------
\* The coder begins in a state of the invariant.
LEMMA InitHolds ==
    ASSUME Init
    PROVE  IInv
<1>1. /\ cover \in [Positions -> 0 .. 255] /\ {} \in Registers
  BY TrellisAssumption DEF Init, Registers
<1>2. columns \in [Positions -> Registers]
  BY ColumnsAre DEF Init
<1>3. <<>> \in Seq({0, 1})
  BY EmptySeq
<1>4. TypeOK
  BY <1>1, <1>2, <1>3, OriginIsMetric, Constants DEF Init, TypeOK
<1> QED BY <1>4
        DEF Init, IInv, Untouched, Extending, Picking, Backtracking, Solved, Reading, Finishing

\* A step that changes nothing keeps the invariant.
LEMMA Stutters ==
    ASSUME IInv, UNCHANGED vars
    PROVE  IInv'
<1>1. /\ UNCHANGED inputs
      /\ UNCHANGED <<cover, rho, message, columns, pc, position, block, first, metric, survivors,
                     register, stego, samples, decoded, result>>
  BY DEF vars, inputs
<1>2. TypeOK' /\ Untouched' /\ (columns \in [Positions -> Columns])'
  BY <1>1 DEF IInv, TypeOK, Untouched
<1> PICK f, b, p, s, e, m, u : /\ f = first /\ b = block /\ p = position /\ s = stego
                               /\ e = SegmentEnd /\ m = MessageBits /\ u = UsedPositions
  OBVIOUS
<1>3. /\ first' = f /\ block' = b /\ position' = p /\ stego' = s
      /\ MessageBits' = m /\ UsedPositions' = u /\ Vectors' = Vectors
      /\ BlocksPerSegment' = BlocksPerSegment
      /\ Planned => Planned'
  BY <1>1, Kept
<1>4. SegmentEnd' = e /\ (Segment => Segment')
  <2>1. SegmentEnd' = e
    BY <1>1, <1>3 DEF SegmentEnd, Least
  <2> QED BY <1>1, <1>3, <2>1 DEF Segment
<1>5. Start = BlockStart(f) /\ Start' = BlockStart(f) /\ End = BlockStart(e) /\ End' = BlockStart(e)
  BY <1>1, <1>3, <1>4, Kept DEF Start, End
<1>6. Spelled => Spelled'
  BY <1>1, <1>3 DEF Spelled, inputs
<1>7. ASSUME NEW y, Traced(y, position)
      PROVE  Traced(y, position)'
  <2>1. \A q \in BlockStart(f) .. p - 1 : \A c \in f .. e - 1 :
            InBlock(q, c) => (q \in y <=> At(y, f, c, q + 1) \in survivors'[q])
    BY <1>1, <1>5, <1>7 DEF Traced
  <2> QED BY <1>1, <1>3, <1>4, <2>1, TracedThen
<1>8. ASSUME NEW y, NEW r, Path(y, r)
      PROVE  Path(y, r)'
  <2>1. /\ y \subseteq 0 .. p - 1 /\ Below(y, BlockStart(f)) = s /\ Right(y, b)
        /\ At(y, f, b, p) = r /\ Traced(y, position)'
        /\ Cost(y, p) = Cost(s, BlockStart(f)) + metric'[r]
    BY <1>1, <1>5, <1>7, <1>8 DEF Path
  <2> QED BY <1>1, <1>3, <2>1, PathThen
<1>9. ASSUME NEW y, Tracing(y)
      PROVE  Tracing(y)'
  <2>1. /\ Solution(y, e, BlockStart(e)) /\ Below(y, BlockStart(f)) = Below(s, BlockStart(f))
        /\ \A q \in p .. BlockStart(e) - 1 : q \in y <=> q \in s
        /\ register' = At(y, f, b, p) /\ Traced(y, position)'
    BY <1>1, <1>5, <1>7, <1>9 DEF Tracing
  <2> QED BY <1>1, <1>3, <1>4, <2>1, TracingThen
<1>10. ASSUME Forward
       PROVE  Forward'
  <2>1. Planned' /\ Segment' /\ (stego \subseteq 0 .. Start - 1)'
    BY <1>1, <1>3, <1>4, <1>5, <1>10 DEF Forward
  <2>2. Reached'
    BY <1>1, <1>3, <1>8, <1>10 DEF Forward, Reached
  <2>3. Alive'
    <3>1. BlockStart(block)' = BlockStart(block)
      BY <1>1, Kept
    <3> QED BY <1>1, <1>10, <3>1 DEF Forward, Alive
  <2>4. Cheapest'
    <3> SUFFICES ASSUME NEW z \in Vectors, Right(z, block)'
                 PROVE  (Cost(stego, Start) + metric[At(z, first, block, position)])'
                           <= Cost(z, position)'
      BY <1>3 DEF Cheapest
    <3>1. Right(z, b)
      BY <1>1, <1>3, RightKept
    <3>2. Cost(s, BlockStart(f)) + metric[At(z, f, b, p)] <= Cost(z, p)
      BY <1>5, <1>10, <3>1 DEF Forward, Cheapest
    <3>3. At(z, first, block, position)' = At(z, f, b, p)
      BY <1>1, <1>3, Kept
    <3>4. Cost(stego, Start)' = Cost(s, BlockStart(f)) /\ Cost(z, position)' = Cost(z, p)
      BY <1>1, <1>3, <1>5, Kept
    <3> QED BY <1>1, <3>2, <3>3, <3>4
  <2> QED BY <2>1, <2>2, <2>3, <2>4 DEF Forward
<1>11. /\ BlockStart(block)' = BlockStart(block) /\ BlockStart(block + 1)' = BlockStart(block + 1)
  BY <1>1, Kept
<1>12. Extending'
  BY <1>1, <1>3, <1>4, <1>10, <1>11 DEF IInv, Extending
<1>13. Picking'
  BY <1>1, <1>3, <1>4, <1>5, <1>10 DEF IInv, Picking
<1>14. Backtracking'
  <2> SUFFICES ASSUME pc = "backward"
               PROVE  Backtracking'
    BY <1>1 DEF Backtracking
  <2>1. /\ Planned /\ Segment /\ block < SegmentEnd
        /\ position \in BlockStart(block) .. BlockStart(block + 1)
        /\ \A q \in stego : q < Start \/ (position <= q /\ q < End)
    BY DEF IInv, Backtracking
  <2>2. PICK y \in Vectors : Tracing(y)
    BY DEF IInv, Backtracking
  <2>3. (\E z \in Vectors : Tracing(z))'
    BY <1>3, <1>9, <2>2
  <2>4. (\A q \in stego : q < Start \/ (position <= q /\ q < End))'
    BY <1>1, <1>5, <2>1
  <2> QED BY <1>1, <1>3, <1>4, <1>11, <2>1, <2>3, <2>4 DEF Backtracking
<1>15. Solved'
  <2> SUFFICES ASSUME pc = "apply"
               PROVE  Solved'
    BY <1>1 DEF Solved
  <2>1. Planned /\ Solution(s, m, u)
    BY DEF IInv, Solved
  <2>2. Solution(s, m, u)'
    BY <1>1, <2>1, SolutionKept
  <2>3. Solution(stego, MessageBits, UsedPositions)'
    BY <1>3, <2>2
  <2> QED BY <1>3, <2>1, <2>3 DEF Solved
<1>16. Reading'
  <2> SUFFICES ASSUME pc = "read"
               PROVE  Reading'
    BY <1>1 DEF Reading
  <2>1. /\ Planned /\ Reading /\ b \in 0 .. MessageBits - 1
        /\ p \in BlockStart(b) .. BlockStart(b + 1) /\ decoded = SubSeq(message, 1, b)
        /\ \/ p = BlockStart(b) /\ b % BlocksPerSegment = 0
           \/ register = At(stego, SegmentStart(b), b, p)
    BY DEF IInv, Reading
  <2>2. UNCHANGED <<inputs, stego, samples, result>> /\ register' = register /\ decoded' = decoded
    BY <1>1
  <2> QED BY <1>3, <2>1, <2>2, ReadingThen
<1>17. Finishing'
  BY <1>1, <1>3, <1>6 DEF IInv, Finishing, inputs
<1> QED BY <1>2, <1>12, <1>13, <1>14, <1>15, <1>16, <1>17 DEF IInv
-----------------------------------------------------------------------------
(***************************************************************************)
(* The theorems.                                                           *)
(***************************************************************************)
\* Every step keeps the invariant.
LEMMA StepKeeps ==
    ASSUME IInv, [Next]_vars
    PROVE  IInv'
<1>1. CASE Check
  BY <1>1, CheckKeeps
<1>2. CASE Extend
  BY <1>2, ExtendKeeps
<1>3. CASE CloseBlock
  BY <1>3, CloseKeeps
<1>4. CASE PickEnd
  BY <1>4, PickKeeps
<1>5. CASE Trace
  BY <1>5, TraceKeeps
<1>6. CASE Reopen
  BY <1>6, ReopenKeeps
<1>7. CASE NextSegment
  BY <1>7, NextKeeps
<1>8. CASE Apply
  BY <1>8, ApplyKeeps
<1>9. CASE ReadSample
  BY <1>9, ReadSampleKeeps
<1>10. CASE ReadBit
  BY <1>10, ReadBitKeeps
<1>11. CASE Finished \/ UNCHANGED vars
  BY <1>11, Stutters DEF Finished
<1> QED BY <1>1, <1>2, <1>3, <1>4, <1>5, <1>6, <1>7, <1>8, <1>9, <1>10, <1>11 DEF Next

\* The metrics, the survivors, the register of either pass and the samples are
\* what the invariant above says in every state of stc_encode_safe and of
\* stc_decode_safe.
THEOREM Invariant == Spec => []IInv
<1>1. Init => IInv
  BY InitHolds
<1>2. IInv /\ [Next]_vars => IInv'
  BY StepKeeps
<1> QED BY <1>1, <1>2, PTL DEF Spec

\* The state keeps its types: no metric exceeds the sentinel, the positions and
\* blocks stay inside the cover, and a moved sample is a sample.
THEOREM TypeCorrect == Spec => []TypeOK
<1>1. IInv => TypeOK
  BY DEF IInv
<1> QED BY <1>1, Invariant, PTL

\* The error arm of solve_trellis is never taken and the decoder returns the
\* message: whatever the height of the code, the segments, the columns, the
\* cover and the costs.
THEOREM Survives == Spec => []MessageSurvives
<1>1. IInv => MessageSurvives
  BY DEF IInv, Finishing, MessageSurvives
<1> QED BY <1>1, Invariant, PTL

\* The vector the backward pass leaves has the syndrome of the message, and no
\* vector with that syndrome has a lower distortion: the code is solved, not
\* approximated, although the forward pass keeps one path per register and the
\* segments are solved one after the other.
THEOREM Optimal == Spec => []CheapestVector
<1>1. ASSUME IInv
      PROVE  CheapestVector
  <2> SUFFICES ASSUME pc = "apply"
               PROVE  /\ Syndrome(stego) = message
                      /\ \A y \in Vectors : Syndrome(y) = message =>
                                                Distortion(stego) <= Distortion(y)
    BY DEF CheapestVector, Vectors
  <2>1. Planned /\ Solution(stego, MessageBits, UsedPositions) /\ message \in Seq({0, 1})
    BY <1>1, TrellisAssumption DEF IInv, Solved, TypeOK
  <2>2. \A y : Syndrome(y) = message <=> Right(y, MessageBits)
    BY <2>1, SyndromeIsRight
  <2>3. \A y : Distortion(y) = Cost(y, UsedPositions)
    BY DEF Distortion, Cost
  <2> QED BY <2>1, <2>2, <2>3 DEF Solution
<1> QED BY <1>1, Invariant, PTL

\* No sample moves by more than one level, wraps or leaves its range; each used
\* one spells its stego bit; and a rejected input is returned as it was.
THEOREM Imperceptible == Spec => []OneLevel
<1>1. ASSUME IInv
      PROVE  OneLevel
  <2>1. cover \in [Positions -> 0 .. 255] /\ TypeOK
    BY <1>1, TrellisAssumption DEF IInv, TypeOK
  <2>2. MessageBits \in Nat
    BY <2>1, TrellisAssumption DEF TypeOK, MessageBits
  <2>3. CASE samples = cover /\ (result # "ok" \/ MessageBits = 0)
    <3>1. \A p \in Positions : samples[p] \in cover[p] - 1 .. cover[p] + 1
      BY <2>1, <2>3
    <3> QED BY <2>2, <2>3, <3>1 DEF OneLevel
  <2>4. CASE result = "ok" /\ Spelled
    BY <2>4 DEF OneLevel, Spelled
  <2>5. pc \in {"check", "forward", "pick", "backward", "apply", "read", "done"}
    BY <2>1 DEF TypeOK
  <2>6. \/ samples = cover /\ (result # "ok" \/ MessageBits = 0)
        \/ result = "ok" /\ Spelled
    <3>1. CASE pc = "read"
      BY <1>1, <3>1 DEF IInv, Reading
    <3>2. CASE pc = "done"
      BY <1>1, <2>2, <3>2 DEF IInv, Finishing
    <3>3. CASE pc \in {"check", "forward", "pick", "backward", "apply"}
      BY <1>1, <3>3 DEF IInv, Untouched
    <3> QED BY <2>5, <3>1, <3>2, <3>3
  <2> QED BY <2>3, <2>4, <2>6
<1> QED BY <1>1, Invariant, PTL
=============================================================================
