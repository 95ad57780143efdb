-------------------------- MODULE Placement_proofs --------------------------
(***************************************************************************)
(* How much an image holds, and in which order its positions are visited:  *)
(* three small components, for every size, payload and keystream.          *)
(*                                                                         *)
(* FrameBudget: the sizer, the coder and the receiver agree for images of  *)
(* every size, whatever the roundings of f32 and whatever share of the     *)
(* image is usable.                                                        *)
(*                                                                         *)
(* ContainerGeometry: the core is BreakEven, that the number of pixels the *)
(* suggestion is computed from is exactly where the capacity starts to     *)
(* admit the payload, through two roundings in opposite directions.        *)
(*                                                                         *)
(* VisitingOrder: the argument is a run that neither end executes, the     *)
(* states that one end goes through if it consumes the stream word by      *)
(* word.  Either end is always at the state of that run at its own cursor, *)
(* and only the last state of the run is finished, so two ends that have   *)
(* finished have read the same words.                                      *)
(***************************************************************************)
EXTENDS FrameBudget, ContainerGeometry, VisitingOrder, WellFoundedInduction, TLAPS

\* A cipher text of s bytes and 24 more fit in so many bits, and at less than
\* 86 % of the positions at 50 positions a bit.  Of n positions, r are behind
\* the header region.
Holds(bits, s) == 8 * (s + 24) <= bits
Behind(n, r) == r <= n /\ n <= r + 6400
Paid(n, s) == 5000 * 8 * (s + 24) <= 86 * n

\* A payload that fits leaves room for the header region and its rounding: its
\* bits are at most what 85 % of the positions pay for, less the overhead.
LEMMA Afforded ==
    ASSUME NEW n \in Nat, NEW u \in 0 .. n, NEW g \in Nat, NEW c \in Nat, NEW s \in Nat,
           CeilingOf(u, g), NetOf(g, c), Holds(c, s)
    PROVE  Paid(n, s)
<1>1. 50 * g <= u + (u \div 4194304)
  BY SMT DEF CeilingOf, Error
<1>2. 100 * c <= 85 * g + ((85 * g) \div 4194304)
  BY SMT DEF NetOf, Error
<1>3. u \div 4194304 <= n \div 4194304 /\ 4194304 * (n \div 4194304) <= n
  BY SMT
<1>4. 4194304 * ((85 * g) \div 4194304) <= 85 * g
  BY SMT
<1> QED
  BY <1>1, <1>2, <1>3, <1>4, SMT DEF Holds, Paid

\* The region behind the header admits what was afforded.
LEMMA RegionAdmits ==
    ASSUME NEW n \in Nat, NEW r \in Nat, NEW s \in Nat, NEW b \in Nat,
           Paid(n, s), Behind(n, r), CeilingOf(r, b)
    PROVE  8 * s <= b
<1> DEFINE e == r \div 4194304
<1>1. r - e - 1 < 50 * (b + 1)
  BY SMT DEF CeilingOf, Error
<1>2. e \in Nat /\ 4194304 * e <= r
  BY SMT
<1> HIDE DEF e
<1>3. 100 * (r - e - 1) <= 5000 * (b + 1)
  BY <1>1, <1>2, SMT
<1>4. 5000 * (8 * s) <= 86 * n - 960000
  BY SMT DEF Paid
<1>5. 86 * n - 960000 < 100 * (r - e - 1) - 5000
  BY <1>2, SMT DEF Behind
<1>6. 5000 * (8 * s) < 5000 * b
  BY <1>3, <1>4, <1>5, <1>2, SMT
<1> QED
  BY <1>6, SMT
-----------------------------------------------------------------------------
USE BudgetAssumption

\* What holds of the four limits at every step.
Limits ==
    /\ positions \in Positions /\ usable \in 0 .. positions
    /\ ceilings \in Ceilings /\ net \in Nat /\ sealed \in Nat
    /\ CeilingOf(usable, ceilings.usable)
    /\ CeilingOf(HeaderRegion, ceilings.header)
    /\ CeilingOf(PayloadRegion, ceilings.payload)

Stages ==
    /\ pc \in {"measure", "fit", "header", "payload", "decode", "done"}
    /\ result \in {"pending", "payload_too_large", "read"}

Measured == pc # "measure" => NetOf(ceilings.usable, net)

Accepted == pc \in {"header", "payload", "decode"} => sealed >= MAC_OVERHEAD_BYTES /\ Fits(sealed)

IInv == Limits /\ Stages /\ Measured /\ Accepted

\* The regions, in numbers.
LEMMA RegionSizes ==
    ASSUME positions \in Nat
    PROVE  /\ HEADER_POSITIONS \in 1664 .. 6400
           /\ HeaderRegion \in 0 .. 6400 /\ HeaderRegion <= positions
           /\ PayloadRegion = positions - HeaderRegion
           /\ positions >= 6400 => HeaderRegion = HEADER_POSITIONS
  BY SMT DEF HEADER_POSITIONS, HeaderRegion, PayloadRegion, Smaller

LEMMA Candidates ==
    ASSUME NEW n \in Nat, NEW b \in Around(n)
    PROVE  b \in Nat /\ CeilingOf(n, b)
  BY SMT DEF Around

LEMMA InitHolds == Init => IInv
<1> SUFFICES ASSUME Init PROVE IInv
  OBVIOUS
<1>1. positions \in Nat /\ positions \in Positions
  BY DEF Init
<1>2. usable \in 0 .. positions
  BY <1>1, SMT DEF Init
<1>3. HeaderRegion \in Nat /\ PayloadRegion \in Nat /\ usable \in Nat
  <2>1. HeaderRegion \in 0 .. 6400 /\ HeaderRegion <= positions
    BY <1>1, RegionSizes
  <2>2. PayloadRegion = positions - HeaderRegion
    BY <1>1, RegionSizes
  <2> QED
    BY <1>1, <1>2, <2>1, <2>2
<1>4. /\ ceilings.usable \in Around(usable) /\ ceilings.header \in Around(HeaderRegion)
      /\ ceilings.payload \in Around(PayloadRegion)
      /\ ceilings = [usable |-> ceilings.usable, header |-> ceilings.header,
                      payload |-> ceilings.payload]
  BY DEF Init
<1>5. /\ ceilings.usable \in Nat /\ CeilingOf(usable, ceilings.usable)
      /\ ceilings.header \in Nat /\ CeilingOf(HeaderRegion, ceilings.header)
      /\ ceilings.payload \in Nat /\ CeilingOf(PayloadRegion, ceilings.payload)
  BY <1>3, <1>4, Candidates
<1>6. ceilings \in Ceilings
  BY <1>4, <1>5 DEF Ceilings
<1>7. Limits
  BY <1>1, <1>2, <1>5, <1>6 DEF Limits, Init
<1> QED
  BY <1>7 DEF Init, IInv, Stages, Measured, Accepted

\* What a payload that fits is worth to the three gates behind the sizer.
LEMMA AcceptedPasses ==
    ASSUME Limits, Measured, Accepted, pc \in {"header", "payload", "decode"}
    PROVE  LENGTH_HEADER_BITS <= ceilings.header /\ 8 * sealed <= ceilings.payload
<1>1. /\ positions \in Nat /\ usable \in 0 .. positions /\ net \in Nat /\ sealed \in Nat
      /\ ceilings.usable \in Nat /\ ceilings.header \in Nat /\ ceilings.payload \in Nat
  BY DEF Limits, Ceilings
<1>2. /\ CeilingOf(usable, ceilings.usable) /\ CeilingOf(HeaderRegion, ceilings.header)
      /\ CeilingOf(PayloadRegion, ceilings.payload)
      /\ NetOf(ceilings.usable, net)
  BY DEF Limits, Measured
<1>3. Holds(net, sealed)
  <2>1. sealed >= 0 /\ sealed + FRAME_OVERHEAD_BYTES <= Available
    BY <1>1 DEF Accepted, Fits
  <2>2. sealed + 8 + 16 <= net \div 8
    BY <1>1, <2>1, SMT DEF Available
  <2> QED
    BY <1>1, <2>2, SMT DEF Holds
<1>4. Paid(positions, sealed)
  BY <1>1, <1>2, <1>3, Afforded
<1>5. 8 * sealed <= ceilings.payload
  <2>1. PayloadRegion \in Nat /\ Behind(positions, PayloadRegion)
    <3>1. HeaderRegion \in 0 .. 6400 /\ HeaderRegion <= positions
      BY <1>1, RegionSizes
    <3>2. PayloadRegion = positions - HeaderRegion
      BY <1>1, RegionSizes
    <3> QED
      BY <1>1, <3>1, <3>2, SMT DEF Behind
  <2> QED
    BY <1>1, <1>2, <1>4, <2>1, RegionAdmits
<1>6. positions >= 6400
  <2>1. sealed >= 16
    BY <1>1, SMT DEF Accepted
  <2> QED
    BY <1>1, <1>4, <2>1, SMT DEF Paid
<1>7. HeaderRegion \in 1664 .. 6400
  <2>1. HeaderRegion = HEADER_POSITIONS
    BY <1>1, <1>6, RegionSizes
  <2> QED
    BY <1>1, <2>1, RegionSizes
<1>8. LENGTH_HEADER_BITS <= ceilings.header
  BY <1>1, <1>2, <1>7, SMT DEF CeilingOf, Error
<1> QED
  BY <1>5, <1>8

\* Nothing but the net figure and the length ever changes.
LEMMA LimitsKept ==
    ASSUME Limits, UNCHANGED <<positions, usable, ceilings>>, net' \in Nat, sealed' \in Nat
    PROVE  Limits'
  BY DEF Limits, Ceilings, CeilingOf, HeaderRegion, PayloadRegion, HEADER_POSITIONS, Smaller, Error

LEMMA StepHolds == IInv /\ [Next]_vars => IInv'
<1> SUFFICES ASSUME IInv, [Next]_vars PROVE IInv'
  OBVIOUS
<1> USE DEF IInv, Stages, Step, Return
<1>0. net \in Nat /\ sealed \in Nat /\ pc \in {"measure", "fit", "header", "payload", "decode", "done"}
  BY DEF Limits
<1>1. CASE Measure
  <2>1. PICK n \in Int : n >= 0 /\ NetOf(ceilings.usable, n) /\ net' = n
    BY <1>1 DEF Measure, Limits, Ceilings
  <2>2. UNCHANGED <<positions, usable, ceilings, sealed, result>> /\ pc' = "fit"
    BY <1>1 DEF Measure
  <2>3. Limits'
    BY <1>0, <2>1, <2>2, LimitsKept
  <2>4. Measured'
    BY <2>1, <2>2 DEF Measured, NetOf, Error
  <2> QED
    BY <2>2, <2>3, <2>4 DEF Accepted
<1>2. CASE Fit
  <2>1. PICK len \in Int : /\ len >= MAC_OVERHEAD_BYTES /\ sealed' = len
                           /\ \/ Fits(len) /\ Step("fit", "header")
                              \/ pc = "fit" /\ ~Fits(len) /\ Return("payload_too_large")
    BY <1>2 DEF Fit, Available, Limits
  <2>2. UNCHANGED <<positions, usable, ceilings, net>> /\ pc = "fit"
    BY <1>2 DEF Fit
  <2>3. sealed' \in Nat /\ sealed' >= MAC_OVERHEAD_BYTES
    BY <2>1
  <2>4. Limits'
    BY <1>0, <2>2, <2>3, LimitsKept
  <2>5. Measured'
    BY <2>2 DEF Measured, NetOf, Error
  <2>6. CASE Fits(len) /\ Step("fit", "header")
    <3>1. Fits(sealed)'
      BY <2>1, <2>2, <2>6 DEF Fits, Available
    <3> QED
      BY <2>3, <2>4, <2>5, <2>6, <3>1 DEF Accepted
  <2>7. CASE Return("payload_too_large")
    BY <2>4, <2>5, <2>7 DEF Accepted
  <2> QED
    BY <2>1, <2>6, <2>7
<1>3. CASE EncodeHeader \/ EncodePayload \/ Decode
  <2>1. UNCHANGED <<positions, usable, ceilings, net, sealed>>
    BY <1>3 DEF EncodeHeader, EncodePayload, Decode
  <2>2. pc \in {"header", "payload", "decode"}
    BY <1>3 DEF EncodeHeader, EncodePayload, Decode
  <2>3. Limits'
    BY <1>0, <2>1, LimitsKept
  <2>4. Measured'
    BY <2>1, <2>2 DEF Measured, NetOf, Error
  <2>5. Accepted'
    BY <2>1, <2>2 DEF Accepted, Fits, Available
  <2>6. LENGTH_HEADER_BITS <= ceilings.header /\ 8 * sealed <= ceilings.payload
    BY <2>2, AcceptedPasses
  <2>7. ~(LENGTH_HEADER_BITS > ceilings.header) /\ ~(8 * sealed > ceilings.payload)
    BY <1>0, <2>6 DEF Limits, Ceilings
  <2>8. MAC_OVERHEAD_BYTES <= sealed
    BY <1>0, <2>2 DEF Accepted
  <2>9. Stages'
    BY <1>3, <2>6, <2>7, <2>8 DEF EncodeHeader, EncodePayload, Decode
  <2> QED
    BY <2>3, <2>4, <2>5, <2>9
<1>4. CASE UNCHANGED vars
  <2>1. Limits'
    BY <1>0, <1>4, LimitsKept DEF vars
  <2> QED
    BY <1>4, <2>1 DEF vars, Measured, NetOf, Error, Accepted, Fits, Available
<1> QED
  BY <1>1, <1>2, <1>3, <1>4 DEF Next, Finished

\* The invariant of the four limits.
THEOREM Invariant == Spec => []IInv
  BY InitHolds, StepHolds, PTL DEF Spec

\* Type correctness.
THEOREM TypeCorrect == Spec => []TypeOK
<1>1. IInv => TypeOK
  BY DEF IInv, Limits, Stages, TypeOK
<1> QED
  BY <1>1, Invariant, PTL

\* A payload that the sizer accepts is refused by nothing behind it, for images
\* of every size and every share of usable positions.
THEOREM AcceptedCoded == Spec => []AcceptedIsCoded
<1>1. IInv => AcceptedIsCoded
  BY DEF IInv, Stages, AcceptedIsCoded
<1> QED
  BY <1>1, Invariant, PTL
-----------------------------------------------------------------------------
(***************************************************************************)
(* The container of generate.                                              *)
(***************************************************************************)
USE GeometryAssumption

LEMMA CeilDivLeast ==
    ASSUME NEW a \in Nat, NEW b \in Nat \ {0}
    PROVE  /\ CeilDiv(a, b) \in Nat
           /\ CeilDiv(a, b) * b >= a
           /\ \A n \in Nat : n * b >= a => n >= CeilDiv(a, b)
<1> DEFINE q == (a + b - 1) \div b
           r == (a + b - 1) % b
<1>1. q \in Nat /\ r \in 0 .. b - 1 /\ a + b - 1 = b * q + r
  BY SMT
<1>2. q * b >= a
  BY <1>1, SMT
<1>3. ASSUME NEW n \in Nat, n * b >= a PROVE n >= q
  <2>1. SUFFICES ASSUME n + 1 <= q PROVE FALSE
    BY <1>1
  <2>2. (n + 1) * b <= q * b
    BY <1>1, <2>1, SMT
  <2>3. n * b + b <= a + b - 1
    BY <1>1, <2>2, SMT
  <2> QED
    BY <1>3, <2>3, SMT
<1> QED
  BY <1>1, <1>2, <1>3 DEF CeilDiv

LEMMA CapacityAdmits ==
    ASSUME NEW area \in Nat, NEW bytes \in Nat
    PROVE  /\ Capacity(area) \in Nat
           /\ Capacity(area) >= bytes <=> area * Channels >= 8 * bytes
<1> DEFINE x == area * Channels
<1>1. x \in Nat
  BY SMT
<1> HIDE DEF x
<1>2. x \div 8 \in Nat /\ (x \div 8 >= bytes <=> x >= 8 * bytes)
  BY <1>1, SMT
<1> QED
  BY <1>2 DEF Capacity, x

\* A set of natural numbers has a least member.
LEMMA LeastNatural ==
    ASSUME NEW S \in SUBSET Nat, S # {}
    PROVE  \E m \in S : \A n \in S : m <= n
<1> DEFINE R == {ss \in Nat \X Nat : ss[1] < ss[2]}
<1>1. IsWellFoundedOn(R, Nat)
  BY NatLessThanWellFounded DEF OpToRel
<1> HIDE DEF R
<1>2. PICK m \in S : \A n \in S : ~ (<<n, m>> \in R)
  BY <1>1, WFMin
<1>3. ASSUME NEW n \in S PROVE m <= n
  <2>1. <<n, m>> \in Nat \X Nat /\ ~ (<<n, m>> \in R)
    BY <1>2
  <2>2. ~ (n < m)
    BY <2>1 DEF R
  <2> QED
    BY <2>2
<1> QED
  BY <1>3

\* The root of a number of area that is permitted.
LEMMA RootCovers ==
    ASSUME NEW v \in Nat, v <= MaxPixels
    PROVE  SqrtCeil(v) \in Nat /\ SqrtCeil(v) * SqrtCeil(v) >= v
<1> DEFINE S == {r \in 0 .. MaxRoot : r * r >= v}
<1>1. S \in SUBSET Nat /\ MaxRoot \in S
  BY SMT
<1>2. PICK m \in S : \A n \in S : m <= n
  BY <1>1, LeastNatural
<1>3. m \in 0 .. MaxRoot /\ m * m >= v
  BY <1>2
<1>4. m > 0 => (m - 1) * (m - 1) < v
  <2> SUFFICES ASSUME m > 0, (m - 1) * (m - 1) >= v PROVE FALSE
    BY <1>3, SMT
  <2>1. m - 1 \in S
    BY <1>3, SMT
  <2> QED
    BY <1>2, <1>3, <2>1, SMT
<1>5. \E r \in 0 .. MaxRoot : r * r >= v /\ (r > 0 => (r - 1) * (r - 1) < v)
  BY <1>3, <1>4
<1>6. SqrtCeil(v) \in 0 .. MaxRoot /\ SqrtCeil(v) * SqrtCeil(v) >= v
  BY <1>5 DEF SqrtCeil
<1> QED
  BY <1>6, SMT

\* What a payload has to share the carrier with.
Overhead(m) == Tag + Header + KeyTransport(m)

LEMMA OverheadNat == \A m : Overhead(m) \in Nat /\ KeyTransport(m) \in Nat
  BY DEF Overhead, KeyTransport

LEMMA CapacityLeft ==
    ASSUME NEW area \in Nat, NEW p \in Nat \ {0}, NEW m
    PROVE  /\ PayloadCapacity(area, m) \in Nat
           /\ p <= PayloadCapacity(area, m) <=> Capacity(area) >= p + Overhead(m)
<1>1. Capacity(area) \in Nat
  BY CapacityAdmits
<1>2. KeyTransport(m) \in Nat
  BY OverheadNat
<1> QED
  BY <1>1, <1>2, SMT DEF PayloadCapacity, SaturatingSub, Overhead

\* The area a suggestion is computed from are exactly those at which the
\* capacity begins to admit the payload.
LEMMA BreakEven ==
    ASSUME NEW area \in Nat, NEW p \in Nat \ {0}, NEW m
    PROVE  /\ NeededPixels(p, m) \in Nat
           /\ p <= PayloadCapacity(area, m) <=> area >= NeededPixels(p, m)
<1> DEFINE bytes == p + Overhead(m)
           needed == NeededPixels(p, m)
<1>1. bytes \in Nat /\ 8 * bytes \in Nat
  BY OverheadNat
<1>2. needed = CeilDiv(8 * bytes, Channels)
  <2>1. p + Tag + Header + KeyTransport(m) = bytes
    BY OverheadNat DEF Overhead
  <2> QED
    BY <2>1 DEF NeededPixels
<1> HIDE DEF bytes
<1>3. /\ needed \in Nat /\ needed * Channels >= 8 * bytes
      /\ \A n \in Nat : n * Channels >= 8 * bytes => n >= needed
  BY <1>1, <1>2, CeilDivLeast
<1> HIDE DEF needed
<1>4. area >= needed => area * Channels >= 8 * bytes
  <2> SUFFICES ASSUME area >= needed PROVE area * Channels >= 8 * bytes
    OBVIOUS
  <2>1. area * Channels >= needed * Channels
    BY <1>3, SMT
  <2> QED
    BY <1>1, <1>3, <2>1, SMT
<1>5. area >= needed <=> area * Channels >= 8 * bytes
  BY <1>3, <1>4
<1>6. area * Channels >= 8 * bytes <=> Capacity(area) >= bytes
  BY <1>1, CapacityAdmits
<1>7. p <= PayloadCapacity(area, m) <=> Capacity(area) >= bytes
  BY CapacityLeft DEF bytes
<1> QED
  BY <1>3, <1>5, <1>6, <1>7 DEF needed

LEMMA SquaresGrow ==
    ASSUME NEW a \in Nat, NEW b \in Nat, a <= b
    PROVE  a * a <= b * b
<1>1. a * a <= a * b /\ a * b <= b * b
  BY SMT
<1> QED
  BY <1>1, SMT

\* A suggestion covers the area that are needed, and a refusal without one
\* means that no permitted size does.
LEMMA AdviceCovers ==
    ASSUME NEW p \in Nat \ {0}, NEW m
    PROVE  /\ RecommendedSide(p, m) \in Nat
           /\ RecommendedSide(p, m) = 0 => NeededPixels(p, m) > MaxPixels
           /\ RecommendedSide(p, m) # 0 =>
                 RecommendedSide(p, m) * RecommendedSide(p, m) >= NeededPixels(p, m)
<1> DEFINE needed == NeededPixels(p, m)
           root == SqrtCeil(needed)
           exact == Larger(root, MinSide)
           rounded == CeilDiv(exact, Round) * Round
<1>1. needed \in Nat
  BY BreakEven
<1>2. CASE needed > MaxPixels
  BY <1>2 DEF RecommendedSide
<1>3. CASE needed <= MaxPixels
  <2> HIDE DEF needed
  <2>1. root \in Nat /\ root * root >= needed
    BY <1>1, <1>3, RootCovers
  <2> HIDE DEF root
  <2>2. exact \in Nat /\ exact > 0 /\ root <= exact
    BY <2>1, SMT DEF Larger
  <2> HIDE DEF exact
  <2>3. rounded \in Nat /\ exact <= rounded
    BY <2>2, CeilDivLeast
  <2> HIDE DEF rounded
  <2>4. exact * exact >= needed /\ rounded * rounded >= needed
    BY <1>1, <2>1, <2>2, <2>3, SquaresGrow, SMT
  <2>5. RecommendedSide(p, m) \in {exact, rounded}
    <3>1. ~ (needed > MaxPixels)
      BY <1>1, <1>3
    <3>2. RecommendedSide(p, m) = IF rounded * rounded <= MaxPixels THEN rounded ELSE exact
      BY <3>1 DEF RecommendedSide, needed, root, exact, rounded
    <3> QED
      BY <3>2
  <2>6. exact # 0 /\ rounded # 0
    BY <2>2, <2>3
  <2> QED
    BY <2>2, <2>3, <2>4, <2>5, <2>6 DEF needed
<1> QED
  BY <1>1, <1>2, <1>3
-----------------------------------------------------------------------------
Shapes ==
    /\ asked \in Nat \X Nat /\ payload \in Payloads /\ mode \in Modes
    /\ advised \in BOOLEAN /\ side \in Nat
    /\ verdict \in {"pending", "out_of_range", "too_large", "accepted"}

\* The last refusal for size is remembered by its suggestion, a request that
\* follows one is never refused again, and what was accepted fits.
Suggested == verdict = "too_large" => side = RecommendedSide(payload, mode)
Followed ==
    advised => /\ side = RecommendedSide(payload, mode) /\ side # 0
               /\ asked = <<side, side>> /\ verdict # "too_large"
Held == verdict = "accepted" => payload <= PayloadCapacity(Area, mode)

GeometryInv == Shapes /\ Suggested /\ Followed /\ Held

LEMMA GeometryInitHolds == GeometryInit => GeometryInv
<1> SUFFICES ASSUME GeometryInit PROVE GeometryInv
  OBVIOUS
<1>1. asked \in Nat \X Nat
  BY DEF GeometryInit
<1> QED
  BY <1>1 DEF GeometryInit, GeometryInv, Shapes, Suggested, Followed, Held

LEMMA GeometryStepHolds == GeometryInv /\ [GeometryNext]_geometryVars => GeometryInv'
<1> SUFFICES ASSUME GeometryInv, [GeometryNext]_geometryVars PROVE GeometryInv'
  OBVIOUS
<1>0. payload \in Nat \ {0} /\ Area \in Nat /\ side \in Nat /\ asked \in Nat \X Nat
  BY SMT DEF GeometryInv, Shapes, Area
<1>1. RecommendedSide(payload, mode) \in Nat
  BY <1>0, AdviceCovers
<1>2. CASE RefuseDimensions
  BY <1>2 DEF RefuseDimensions, GeometryInv, Shapes, Suggested, Followed, Held
<1>3. CASE RefusePayload
  <2>1. ~advised
    <3> SUFFICES ASSUME advised PROVE FALSE
      BY DEF GeometryInv, Shapes
    <3>1. side = RecommendedSide(payload, mode) /\ side # 0 /\ Area = side * side
      BY DEF GeometryInv, Followed, Area
    <3>2. Area >= NeededPixels(payload, mode)
      BY <1>0, <3>1, AdviceCovers
    <3>3. payload <= PayloadCapacity(Area, mode)
      BY <1>0, <3>2, BreakEven
    <3>4. PayloadCapacity(Area, mode) \in Nat /\ payload > PayloadCapacity(Area, mode)
      BY <1>0, <1>3, CapacityLeft DEF RefusePayload
    <3> QED
      BY <1>0, <3>3, <3>4
  <2> QED
    BY <1>1, <1>3, <2>1 DEF RefusePayload, GeometryInv, Shapes, Suggested, Followed, Held
<1>4. CASE Accept
  <2>1. Held'
    BY <1>4 DEF Accept, Held, Area
  <2> QED
    BY <1>4, <2>1 DEF Accept, GeometryInv, Shapes, Suggested, Followed
<1>5. CASE TakeAdvice
  BY <1>0, <1>5 DEF TakeAdvice, GeometryInv, Shapes, Suggested, Followed, Held
<1>6. CASE UNCHANGED geometryVars
  BY <1>6 DEF geometryVars, GeometryInv, Shapes, Suggested, Followed, Held, Area
<1> QED
  BY <1>2, <1>3, <1>4, <1>5, <1>6 DEF GeometryNext, Answered

\* The invariant of a request and of the suggestion it follows.
THEOREM GeometryInvariant == GeometrySpec => []GeometryInv
  BY GeometryInitHolds, GeometryStepHolds, PTL DEF GeometrySpec

\* Type correctness.
THEOREM GeometryTypeCorrect == GeometrySpec => []GeometryTypeOK
<1>1. GeometryInv => GeometryTypeOK
  <2> SUFFICES ASSUME GeometryInv PROVE GeometryTypeOK
    OBVIOUS
  <2>1. payload \in Nat \ {0} /\ Area \in Nat
    BY SMT DEF GeometryInv, Shapes, Area
  <2>2. PayloadCapacity(Area, mode) \in Nat
    BY <2>1, CapacityLeft
  <2> QED
    BY <2>2 DEF GeometryInv, Shapes, GeometryTypeOK
<1> QED
  BY <1>1, GeometryInvariant, PTL

\* An accepted container holds header and payload, is filled to its last byte,
\* and is read back from as many bytes as were sealed.
THEOREM NothingIsCutOff == GeometrySpec => []NothingCutOff
<1>1. GeometryInv => NothingCutOff
  <2> SUFFICES ASSUME GeometryInv, verdict = "accepted" PROVE NothingCutOff
    BY DEF NothingCutOff
  <2>1. payload \in Nat \ {0} /\ Area \in Nat
    BY SMT DEF GeometryInv, Shapes, Area
  <2>2. Capacity(Area) \in Nat /\ KeyTransport(mode) \in Nat
    BY <2>1, CapacityAdmits, OverheadNat
  <2>3. Capacity(Area) >= payload + Tag + Header + KeyTransport(mode)
    <3>1. Capacity(Area) >= payload + Overhead(mode)
      BY <2>1, CapacityLeft DEF GeometryInv, Held
    <3> QED
      BY <2>1, <2>2, <3>1, SMT DEF Overhead
  <2>4. /\ SealedPlain(Area, mode) = Capacity(Area) - KeyTransport(mode) - Tag
        /\ ReadLength(Area, mode) = Capacity(Area) - KeyTransport(mode)
    BY <2>1, <2>2, <2>3, SMT DEF SealedPlain, ReadLength, SaturatingSub
  <2>5. Carrier(Area, mode) = Capacity(Area)
    BY <2>2, <2>4, SMT DEF Carrier
  <2> QED
    BY <2>1, <2>2, <2>3, <2>4, <2>5, SMT DEF NothingCutOff
<1> QED
  BY <1>1, GeometryInvariant, PTL

\* Following a suggestion never meets a second refusal for size.
THEOREM AdviceIsEnough == GeometrySpec => []AdviceFits
<1>1. GeometryInv => AdviceFits
  BY DEF GeometryInv, Followed, AdviceFits
<1> QED
  BY <1>1, GeometryInvariant, PTL

\* Where nothing is suggested, no permitted size of any shape would do.
THEOREM NoAdviceFinal == GeometrySpec => []NoAdviceIsFinal
<1>1. GeometryInv => NoAdviceIsFinal
  <2> SUFFICES ASSUME GeometryInv, verdict = "too_large", side = 0,
                      NEW w \in Sides, NEW h \in Sides, Permitted(w, h)
               PROVE  payload > PayloadCapacity(w * h, mode)
    BY DEF NoAdviceIsFinal
  <2>1. payload \in Nat \ {0} /\ w * h \in Nat /\ w * h <= MaxPixels
    BY SMT DEF GeometryInv, Shapes, Permitted
  <2>2. NeededPixels(payload, mode) > MaxPixels
    BY <2>1, AdviceCovers DEF GeometryInv, Suggested
  <2>3. NeededPixels(payload, mode) \in Nat
    BY <2>1, BreakEven
  <2>4. ~ (w * h >= NeededPixels(payload, mode))
    BY <2>1, <2>2, <2>3
  <2>5. ~ (payload <= PayloadCapacity(w * h, mode))
    BY <2>1, <2>4, BreakEven
  <2>6. PayloadCapacity(w * h, mode) \in Nat
    BY <2>1, CapacityLeft
  <2> QED
    BY <2>1, <2>5, <2>6
<1> QED
  BY <1>1, GeometryInvariant, PTL

\* A suggestion is enough, and its absence final.
THEOREM AdviceTrue == GeometrySpec => []AdviceIsTrue
  BY AdviceIsEnough, NoAdviceFinal, PTL DEF AdviceIsTrue
-----------------------------------------------------------------------------
(***************************************************************************)
(* The two ends of the visiting order.                                     *)
(***************************************************************************)
USE OrderAssumption

State == [index : Indices, order : [Indices -> Indices]]
Start == [index |-> Pixels - 1, order |-> [i \in Indices |-> i]]

\* What a word does to a state.
Draw(s, word) ==
    IF word < Ceiling(s.index + 1)
    THEN [index |-> s.index - 1, order |-> Swap(s.order, s.index, word % (s.index + 1))]
    ELSE s

Run(h, words) ==
    /\ h \in [0 .. Len(words) -> State]
    /\ h[0] = Start
    /\ \A n \in 0 .. Len(words) - 1 : h[n].index > 0 /\ h[n + 1] = Draw(h[n], words[n + 1])

Follows(h) == \A e \in Ends : index[e] = h[cursor[e]].index /\ order[e] = h[cursor[e]].order

Injective(f) == \A i, j \in Indices : f[i] = f[j] => i = j

OrderShapes ==
    /\ stream \in Seq(0 .. MAX) /\ Len(stream) <= MaxWords
    /\ cursor \in [Ends -> 0 .. Len(stream)]
    /\ index \in [Ends -> Indices]
    /\ order \in [Ends -> [Indices -> Indices]]
    /\ pixels \in [Indices -> Samples]
    /\ symbols \in [Ends -> [Indices -> Samples \cup {0}]]
    /\ stage \in [Ends -> {"shuffle", "gathered", "applied"}]

OneRun == \E h : Run(h, stream) /\ Follows(h)
Orders == \A e \in Ends : Injective(order[e])

\* What has been written where, and who may have read it.
OrderStages ==
    /\ \A e \in Ends : stage[e] # "shuffle" => index[e] = 0
    /\ stage["receiver"] # "applied"
    /\ stage["sender"] = "applied" =>
          \A i \in Indices : pixels[order["sender"][i]] = symbols["sender"][i]
    /\ stage["receiver"] = "gathered" =>
          stage["sender"] = "applied" /\ symbols["receiver"] = symbols["sender"]

OrderInv == OrderShapes /\ OneRun /\ Orders /\ OrderStages

\* An exchange keeps the order a permutation.
LEMMA SwapKeeps ==
    ASSUME NEW f \in [Indices -> Indices], NEW i \in Indices, NEW j \in Indices
    PROVE  /\ Swap(f, i, j) \in [Indices -> Indices]
           /\ Injective(f) => Injective(Swap(f, i, j))
<1>1. Swap(f, i, j) \in [Indices -> Indices]
  BY DEF Swap
<1>2. ASSUME Injective(f), NEW a \in Indices, NEW b \in Indices,
             Swap(f, i, j)[a] = Swap(f, i, j)[b]
      PROVE  a = b
  <2>1. \A x, y \in Indices : f[x] = f[y] => x = y
    BY <1>2 DEF Injective
  <2>2. \A x \in Indices : Swap(f, i, j)[x] = IF x = j THEN f[i] ELSE IF x = i THEN f[j] ELSE f[x]
    BY DEF Swap
  <2> QED
    BY <1>2, <2>1, <2>2
<1> QED
  BY <1>1, <1>2 DEF Injective

\* A word drawn below the ceiling names an index not above the one it is
\* exchanged with.
LEMMA DrawKeeps ==
    ASSUME NEW s \in State, s.index > 0, NEW word \in 0 .. MAX
    PROVE  /\ word % (s.index + 1) \in Indices
           /\ Draw(s, word) \in State
           /\ Injective(s.order) => Injective(Draw(s, word).order)
<1>1. s.index \in Indices /\ s.order \in [Indices -> Indices]
  BY DEF State
<1>2. s.index \in Nat /\ s.index <= Pixels - 1
  BY <1>1, SMT DEF Indices
<1>3. word % (s.index + 1) \in 0 .. s.index
  BY <1>2, SMT
<1>4. word % (s.index + 1) \in Indices /\ s.index - 1 \in Indices
  BY <1>2, <1>3, SMT DEF Indices
<1>5. /\ Swap(s.order, s.index, word % (s.index + 1)) \in [Indices -> Indices]
      /\ Injective(s.order) => Injective(Swap(s.order, s.index, word % (s.index + 1)))
  BY <1>1, <1>4, SwapKeeps
<1> HIDE DEF Indices, Injective, Swap, Ceiling
<1>6. CASE word < Ceiling(s.index + 1)
  <2>1. Draw(s, word) = [index |-> s.index - 1,
                         order |-> Swap(s.order, s.index, word % (s.index + 1))]
    BY <1>6 DEF Draw
  <2> QED
    BY <1>4, <1>5, <2>1 DEF State
<1>7. CASE ~ (word < Ceiling(s.index + 1))
  BY <1>4, <1>7 DEF Draw
<1> QED
  BY <1>6, <1>7

LEMMA OrderInitHolds == OrderInit => OrderInv
<1> SUFFICES ASSUME OrderInit PROVE OrderInv
  OBVIOUS
<1>1. Start \in State
  BY SMT DEF Start, State, Indices
<1>2. OrderShapes
  BY SMT DEF OrderInit, OrderShapes, Indices, Unknown, Ends
<1>3. OneRun
  <2> DEFINE h == [n \in 0 .. 0 |-> Start]
  <2>1. Len(stream) = 0
    BY DEF OrderInit
  <2>2. Run(h, stream)
    BY <1>1, <2>1 DEF Run
  <2>3. Follows(h)
    BY DEF OrderInit, Follows, Start
  <2> QED
    BY <2>2, <2>3 DEF OneRun
<1>4. Orders
  BY DEF OrderInit, Orders, Injective
<1>5. OrderStages
  BY DEF OrderInit, OrderStages, Ends
<1> QED
  BY <1>2, <1>3, <1>4, <1>5 DEF OrderInv

\* Two ends that have finished have consumed the same words.
LEMMA FinishedAlike ==
    ASSUME OrderInv, index["sender"] = 0, index["receiver"] = 0
    PROVE  order["sender"] = order["receiver"]
<1>1. PICK h : Run(h, stream) /\ Follows(h)
  BY DEF OrderInv, OneRun
<1>2. Len(stream) \in Nat /\ cursor \in [Ends -> 0 .. Len(stream)]
  BY DEF OrderInv, OrderShapes
<1>3. ASSUME NEW e \in Ends, index[e] = 0
      PROVE  cursor[e] = Len(stream) /\ order[e] = h[cursor[e]].order
  <2>1. h[cursor[e]].index = 0 /\ order[e] = h[cursor[e]].order
    BY <1>1, <1>3 DEF Follows
  <2>2. cursor[e] \in 0 .. Len(stream)
    BY <1>2
  <2>3. ASSUME cursor[e] \in 0 .. Len(stream) - 1 PROVE FALSE
    <3>1. h[cursor[e]].index > 0
      BY <1>1, <2>3 DEF Run
    <3> QED
      BY <2>1, <3>1, SMT
  <2> QED
    BY <1>2, <2>1, <2>2, <2>3, SMT
<1> QED
  BY <1>3 DEF Ends

LEMMA ShuffleHolds ==
    ASSUME OrderInv, NEW e \in Ends, Shuffle(e)
    PROVE  OrderInv'
<1> DEFINE s == [index |-> index[e], order |-> order[e]]
<1>1. PICK word \in 0 .. MAX :
        /\ NextWord(e, word)
        /\ \/ /\ word < Ceiling(index[e] + 1)
              /\ order' = [order EXCEPT ![e] = Swap(@, index[e], word % (index[e] + 1))]
              /\ index' = [index EXCEPT ![e] = @ - 1]
           \/ word >= Ceiling(index[e] + 1) /\ UNCHANGED <<order, index>>
  BY DEF Shuffle
<1>2. /\ OrderShapes /\ OneRun /\ Orders /\ OrderStages
      /\ stage[e] = "shuffle" /\ index[e] > 0 /\ UNCHANGED <<pixels, symbols, stage>>
  BY DEF OrderInv, Shuffle
<1>3. /\ index \in [Ends -> Indices] /\ order \in [Ends -> [Indices -> Indices]]
      /\ cursor \in [Ends -> 0 .. Len(stream)]
      /\ stream \in Seq(0 .. MAX) /\ Len(stream) \in Nat
  BY <1>2 DEF OrderShapes
<1>4. s \in State /\ s.index > 0
  BY <1>2, <1>3 DEF State
<1>5. Draw(s, word) \in State /\ (Injective(s.order) => Injective(Draw(s, word).order))
  BY <1>4, DrawKeeps
<1>6. Ceiling(index[e] + 1) \in Int
  BY <1>3, SMT DEF Ceiling, Indices
<1>7. /\ index' = [index EXCEPT ![e] = Draw(s, word).index]
      /\ order' = [order EXCEPT ![e] = Draw(s, word).order]
  <2> HIDE DEF Ceiling, Swap, Indices
  <2>1. CASE word < Ceiling(index[e] + 1)
    <3>1. Draw(s, word) = [index |-> index[e] - 1,
                           order |-> Swap(order[e], index[e], word % (index[e] + 1))]
      BY <2>1 DEF Draw
    <3>2. ~ (word >= Ceiling(index[e] + 1))
      BY <1>6, <2>1, SMT
    <3> QED
      BY <1>1, <3>1, <3>2
  <2>2. CASE ~ (word < Ceiling(index[e] + 1))
    <3>1. Draw(s, word) = s
      BY <2>2 DEF Draw
    <3>2. index' = index /\ order' = order
      BY <1>1, <2>2
    <3> QED
      BY <1>3, <3>1, <3>2
  <2> QED
    BY <2>1, <2>2
<1>8. PICK h : Run(h, stream) /\ Follows(h)
  BY <1>2 DEF OneRun
<1>9. h[cursor[e]] = s
  <2>1. h[cursor[e]] \in State
    BY <1>3, <1>8 DEF Run
  <2>2. h[cursor[e]].index = index[e] /\ h[cursor[e]].order = order[e]
    BY <1>8 DEF Follows
  <2> QED
    BY <2>1, <2>2 DEF State
<1>10. cursor' = [cursor EXCEPT ![e] = @ + 1]
  BY <1>1 DEF NextWord
<1>11. cursor[e] \in 0 .. Len(stream)
  BY <1>3
<1> HIDE DEF s
<1>12. /\ stream' \in Seq(0 .. MAX) /\ Len(stream') <= MaxWords
       /\ cursor' \in [Ends -> 0 .. Len(stream')]
       /\ \E g : Run(g, stream') /\ (\A x \in Ends : g[cursor[x]] = h[cursor[x]])
                /\ g[cursor[e] + 1] = Draw(s, word)
  <2>1. CASE cursor[e] < Len(stream) /\ word = stream[cursor[e] + 1] /\ UNCHANGED stream
    <3>1. cursor[e] \in 0 .. Len(stream) - 1
      BY <1>3, <1>11, <2>1, SMT
    <3>2. h[cursor[e] + 1] = Draw(s, word)
      BY <1>8, <1>9, <2>1, <3>1 DEF Run
    <3>3. Run(h, stream')
      BY <1>8, <2>1
    <3>4. cursor' \in [Ends -> 0 .. Len(stream')]
      BY <1>3, <1>10, <1>11, <2>1, SMT
    <3>5. stream' \in Seq(0 .. MAX) /\ Len(stream') <= MaxWords
      BY <1>2, <2>1 DEF OrderShapes
    <3> QED
      BY <3>2, <3>3, <3>4, <3>5
  <2>2. CASE /\ cursor[e] = Len(stream) /\ cursor[e] < MaxWords
             /\ stream' = Append(stream, word)
    <3> DEFINE g == [n \in 0 .. Len(stream) + 1 |->
                        IF n = Len(stream) + 1 THEN Draw(s, word) ELSE h[n]]
    <3>1. /\ stream' \in Seq(0 .. MAX) /\ Len(stream') = Len(stream) + 1
          /\ \A n \in 1 .. Len(stream) : stream'[n] = stream[n]
          /\ stream'[Len(stream) + 1] = word
      BY <1>1, <1>3, <2>2
    <3>2. Len(stream') <= MaxWords
      BY <1>3, <2>2, <3>1, SMT
    <3>3. cursor' \in [Ends -> 0 .. Len(stream')]
      BY <1>3, <1>10, <1>11, <3>1, SMT
    <3>4. \A n \in 0 .. Len(stream) : g[n] = h[n]
      BY <1>3, SMT
    <3>5. g[Len(stream) + 1] = Draw(s, word)
      BY <1>3, SMT
    <3>6. g \in [0 .. Len(stream') -> State]
      <4>1. ASSUME NEW n \in 0 .. Len(stream) + 1 PROVE g[n] \in State
        <5>1. CASE n = Len(stream) + 1
          BY <1>5, <3>5, <5>1
        <5>2. CASE n # Len(stream) + 1
          <6>1. n \in 0 .. Len(stream)
            BY <1>3, <5>2, SMT
          <6> QED
            BY <1>8, <3>4, <6>1 DEF Run
        <5> QED
          BY <5>1, <5>2
      <4> QED
        BY <3>1, <4>1
    <3> HIDE DEF g
    <3>7. g[0] = Start
      BY <1>3, <1>8, <3>4, SMT DEF Run
    <3>8. ASSUME NEW n \in 0 .. Len(stream)
          PROVE  g[n].index > 0 /\ g[n + 1] = Draw(g[n], stream'[n + 1])
      <4>1. CASE n = Len(stream)
        <5>1. g[n] = s
          BY <1>9, <2>2, <3>4, <4>1
        <5>2. stream'[n + 1] = word /\ g[n + 1] = Draw(s, word)
          BY <3>1, <3>5, <4>1
        <5> QED
          BY <1>4, <5>1, <5>2
      <4>2. CASE n # Len(stream)
        <5>1. n \in 0 .. Len(stream) - 1 /\ n + 1 \in 0 .. Len(stream) /\ n + 1 \in 1 .. Len(stream)
          BY <1>3, <4>2, SMT
        <5>2. h[n].index > 0 /\ h[n + 1] = Draw(h[n], stream[n + 1])
          BY <1>8, <5>1 DEF Run
        <5>3. g[n] = h[n] /\ g[n + 1] = h[n + 1] /\ stream'[n + 1] = stream[n + 1]
          BY <3>1, <3>4, <5>1
        <5> QED
          BY <5>2, <5>3
      <4> QED
        BY <4>1, <4>2
    <3>9. Run(g, stream')
      <4>1. Len(stream') - 1 = Len(stream)
        BY <1>3, <3>1, SMT
      <4> QED
        BY <3>6, <3>7, <3>8, <4>1 DEF Run
    <3>10. /\ \A x \in Ends : g[cursor[x]] = h[cursor[x]]
           /\ g[cursor[e] + 1] = Draw(s, word)
      BY <1>3, <2>2, <3>4, <3>5
    <3> QED
      BY <3>1, <3>2, <3>3, <3>9, <3>10
  <2> QED
    BY <1>1, <2>1, <2>2 DEF NextWord
<1>13. OrderShapes'
  <2>1. Draw(s, word).index \in Indices /\ Draw(s, word).order \in [Indices -> Indices]
    BY <1>5 DEF State
  <2>2. index' \in [Ends -> Indices] /\ order' \in [Ends -> [Indices -> Indices]]
    BY <1>3, <1>7, <2>1
  <2> QED
    BY <1>2, <1>12, <2>2 DEF OrderShapes
<1>14. OneRun'
  <2>1. PICK g : Run(g, stream') /\ (\A x \in Ends : g[cursor[x]] = h[cursor[x]])
                /\ g[cursor[e] + 1] = Draw(s, word)
    BY <1>12
  <2>2. ASSUME NEW x \in Ends
        PROVE  index'[x] = g[cursor'[x]].index /\ order'[x] = g[cursor'[x]].order
    <3>1. CASE x = e
      <4>1. cursor'[x] = cursor[e] + 1
        BY <1>3, <1>10, <3>1
      <4>2. index'[x] = Draw(s, word).index /\ order'[x] = Draw(s, word).order
        BY <1>3, <1>7, <3>1
      <4> QED
        BY <2>1, <4>1, <4>2
    <3>2. CASE x # e
      <4>1. cursor'[x] = cursor[x]
        BY <1>3, <1>10, <3>2
      <4>2. index'[x] = index[x] /\ order'[x] = order[x]
        BY <1>3, <1>7, <3>2
      <4> QED
        BY <1>8, <2>1, <4>1, <4>2 DEF Follows
    <3> QED
      BY <3>1, <3>2
  <2>3. Follows(g)'
    BY <2>2 DEF Follows
  <2> QED
    BY <2>1, <2>3 DEF OneRun
<1>15. Orders'
  <2>1. Injective(Draw(s, word).order)
    BY <1>2, <1>5 DEF Orders, s
  <2> QED
    BY <1>2, <1>3, <1>7, <2>1 DEF Orders
<1>16. OrderStages'
  <2>1. \A x \in Ends : stage[x] # "shuffle" => x # e /\ index'[x] = 0 /\ order'[x] = order[x]
    BY <1>2, <1>3, <1>7 DEF OrderStages
  <2> QED
    BY <1>2, <2>1 DEF OrderStages, Ends
<1> QED
  BY <1>13, <1>14, <1>15, <1>16 DEF OrderInv

\* The receiver gathers in the order the sender has written in, so that it
\* finds at each index what was written at that index.
LEMMA GatherHolds ==
    ASSUME OrderInv, NEW e \in Ends, Gather(e)
    PROVE  OrderInv'
<1>1. OrderShapes /\ OneRun /\ Orders /\ OrderStages
  BY DEF OrderInv
<1>2. /\ stage[e] = "shuffle" /\ index[e] = 0
      /\ e = "receiver" => stage["sender"] = "applied"
      /\ symbols' = [symbols EXCEPT ![e] = [i \in Indices |-> pixels[order[e][i]]]]
      /\ stage' = [stage EXCEPT ![e] = "gathered"]
      /\ UNCHANGED <<stream, cursor, index, order, pixels>>
  BY DEF Gather
<1> HIDE DEF Indices
<1>3. OrderShapes'
  <2>1. [i \in Indices |-> pixels[order[e][i]]] \in [Indices -> Samples \cup {0}]
    BY <1>1 DEF OrderShapes
  <2>2. symbols' \in [Ends -> [Indices -> Samples \cup {0}]]
    BY <1>1, <1>2, <2>1 DEF OrderShapes
  <2>3. stage' \in [Ends -> {"shuffle", "gathered", "applied"}]
    BY <1>1, <1>2 DEF OrderShapes
  <2> QED
    BY <1>1, <1>2, <2>2, <2>3 DEF OrderShapes
<1>4. OneRun'
  BY <1>1, <1>2 DEF OneRun, Follows
<1>5. Orders'
  BY <1>1, <1>2 DEF Orders
<1>6. OrderStages'
  <2>1. \A x \in Ends : stage'[x] = IF x = e THEN "gathered" ELSE stage[x]
    BY <1>1, <1>2 DEF OrderShapes
  <2>2. \A x \in Ends : symbols'[x] = IF x = e THEN [i \in Indices |-> pixels[order[e][i]]]
                                      ELSE symbols[x]
    BY <1>1, <1>2 DEF OrderShapes
  <2>3. CASE e = "sender"
    <3>1. stage["receiver"] # "gathered"
      BY <1>1, <1>2, <2>3 DEF OrderStages
    <3> QED
      BY <1>1, <1>2, <2>1, <2>2, <2>3, <3>1 DEF OrderStages, Ends
  <2>4. CASE e = "receiver"
    <3>1. stage["sender"] = "applied" /\ index["sender"] = 0 /\ index["receiver"] = 0
      BY <1>1, <1>2, <2>4 DEF OrderStages, Ends
    <3>2. order["sender"] = order["receiver"]
      BY <3>1, FinishedAlike
    <3>3. \A i \in Indices : pixels[order["sender"][i]] = symbols["sender"][i]
      BY <1>1, <3>1 DEF OrderStages
    <3>4. symbols["sender"] \in [Indices -> Samples \cup {0}]
      BY <1>1 DEF OrderShapes, Ends
    <3>5. symbols'["receiver"] = symbols["sender"] /\ symbols'["sender"] = symbols["sender"]
      BY <2>2, <2>4, <3>2, <3>3, <3>4 DEF Ends
    <3>6. /\ stage'["sender"] = "applied" /\ stage'["receiver"] = "gathered"
          /\ \A x \in Ends : index'[x] = 0
      BY <1>2, <2>1, <2>4, <3>1 DEF Ends
    <3> QED
      BY <1>2, <3>3, <3>5, <3>6 DEF OrderStages
  <2> QED
    BY <2>3, <2>4 DEF Ends
<1> QED
  BY <1>3, <1>4, <1>5, <1>6 DEF OrderInv

\* Each position is written once at most, since the order is a permutation.
LEMMA ApplyHolds ==
    ASSUME OrderInv, Apply
    PROVE  OrderInv'
<1>1. OrderShapes /\ OneRun /\ Orders /\ OrderStages
  BY DEF OrderInv
<1> DEFINE writes(p) == {i \in Indices : order["sender"][i] = p}
<1> DEFINE Last(p) == CHOOSE i \in writes(p) : \A j \in writes(p) : j <= i
<1>2. PICK coded \in [Indices -> Samples] :
        /\ symbols' = [symbols EXCEPT !["sender"] = coded]
        /\ pixels' = [p \in Indices |-> IF writes(p) = {} THEN pixels[p] ELSE coded[Last(p)]]
  BY DEF Apply
<1>3. /\ stage["sender"] = "gathered" /\ stage' = [stage EXCEPT !["sender"] = "applied"]
      /\ UNCHANGED <<stream, cursor, index, order>>
  BY DEF Apply
<1>4. order["sender"] \in [Indices -> Indices] /\ pixels \in [Indices -> Samples]
  BY <1>1 DEF OrderShapes, Ends
<1>5. \A i \in Indices : i \in Int /\ i <= i
  BY SMT DEF Indices
<1>6. ASSUME NEW i \in Indices
      PROVE  writes(order["sender"][i]) = {i} /\ Last(order["sender"][i]) = i
  <2>1. writes(order["sender"][i]) = {i}
    BY <1>1 DEF Orders, Injective, Ends
  <2> HIDE DEF writes
  <2> QED
    BY <1>5, <2>1
<1>7. \A i \in Indices : pixels'[order["sender"][i]] = coded[i]
  <2> TAKE i \in Indices
  <2>1. order["sender"][i] \in Indices
    BY <1>4
  <2>2. writes(order["sender"][i]) # {} /\ Last(order["sender"][i]) = i
    BY <1>6
  <2> HIDE DEF writes, Last
  <2> QED
    BY <1>2, <2>1, <2>2
<1>8. pixels' \in [Indices -> Samples]
  <2>1. ASSUME NEW p \in Indices
        PROVE  (IF writes(p) = {} THEN pixels[p] ELSE coded[Last(p)]) \in Samples
    <3>1. CASE writes(p) = {}
      BY <1>4, <3>1
    <3>2. CASE writes(p) # {}
      <4>1. PICK i \in Indices : order["sender"][i] = p
        BY <3>2
      <4>2. Last(p) = i
        BY <1>6, <4>1
      <4> HIDE DEF writes, Last
      <4> QED
        BY <1>2, <3>2, <4>2
    <3> QED
      BY <3>1, <3>2
  <2> HIDE DEF writes, Last
  <2> QED
    BY <1>2, <2>1
<1> HIDE DEF Indices, writes, Last
<1>9. /\ symbols'["sender"] = coded /\ symbols' \in [Ends -> [Indices -> Samples \cup {0}]]
      /\ stage'["sender"] = "applied" /\ stage'["receiver"] = stage["receiver"]
      /\ stage' \in [Ends -> {"shuffle", "gathered", "applied"}]
  BY <1>1, <1>2, <1>3 DEF OrderShapes, Ends
<1>10. OrderShapes'
  BY <1>1, <1>3, <1>8, <1>9 DEF OrderShapes
<1>11. OneRun'
  BY <1>1, <1>3 DEF OneRun, Follows
<1>12. Orders'
  BY <1>1, <1>3 DEF Orders
<1>13. OrderStages'
  <2>1. stage["receiver"] # "gathered" /\ stage["receiver"] # "applied"
    BY <1>1, <1>3 DEF OrderStages
  <2>2. \A e \in Ends : stage'[e] # "shuffle" => index'[e] = 0
    BY <1>1, <1>3, <1>9 DEF OrderStages, Ends
  <2> QED
    BY <1>3, <1>7, <1>9, <2>1, <2>2 DEF OrderStages
<1> QED
  BY <1>10, <1>11, <1>12, <1>13 DEF OrderInv

LEMMA OrderStepHolds == OrderInv /\ [OrderNext]_orderVars => OrderInv'
<1> SUFFICES ASSUME OrderInv, [OrderNext]_orderVars PROVE OrderInv'
  OBVIOUS
<1>1. CASE UNCHANGED orderVars
  BY <1>1 DEF OrderInv, OrderShapes, OneRun, Follows, Orders, OrderStages, orderVars
<1>2. ASSUME NEW e \in Ends, Shuffle(e) PROVE OrderInv'
  BY <1>2, ShuffleHolds
<1>3. ASSUME NEW e \in Ends, Gather(e) PROVE OrderInv'
  BY <1>3, GatherHolds
<1>4. CASE Apply
  BY <1>4, ApplyHolds
<1> QED
  BY <1>1, <1>2, <1>3, <1>4 DEF OrderNext, OrderDone

\* Either end is where the one run is at its own cursor, and what is read is
\* what was written.
THEOREM OrderInvariant == OrderSpec => []OrderInv
<1> QED
  BY OrderInitHolds, OrderStepHolds, PTL DEF OrderSpec

\* Cursors stay inside the words drawn, whatever the size of the image.
THEOREM OrderTypeCorrect == OrderSpec => []OrderTypeOK
<1>1. OrderInv => OrderTypeOK
  BY DEF OrderInv, OrderShapes, OrderTypeOK
<1> QED
  BY <1>1, OrderInvariant, PTL

\* The shuffle visits each position once, after any number of draws.
THEOREM VisitedOnce == OrderSpec => []Bijective
<1>1. OrderInv => Bijective
  BY DEF OrderInv, Orders, Injective, Bijective
<1> QED
  BY <1>1, OrderInvariant, PTL

\* Sender and receiver end with one order, whichever words were rejected and
\* whichever of them drew first.
THEOREM OrdersAgree == OrderSpec => []SameOrder
<1>1. OrderInv => SameOrder
  BY FinishedAlike DEF SameOrder
<1> QED
  BY <1>1, OrderInvariant, PTL

\* The receiver gathers the symbols as the coder left them.
THEOREM Arrival == OrderSpec => []SymbolsArrive
<1>1. OrderInv => SymbolsArrive
  BY DEF OrderInv, OrderStages, SymbolsArrive
<1> QED
  BY <1>1, OrderInvariant, PTL
=============================================================================
