------------------------------ MODULE HillCost ------------------------------
(***************************************************************************)
(* HillCostProvider::compute: the texture around every pixel, and the      *)
(* three gates a container has to pass.                                    *)
(*                                                                         *)
(* A plane is a function on row-major indices.  A cost is the reciprocal   *)
(* of a texture, so the model keeps the texture: costs ascend where        *)
(* textures descend.  The taps of the two Gaussians are whole numbers that *)
(* are not normalised; what is compared with a texture is scaled instead.  *)
(***************************************************************************)
EXTENDS Integers, Sequences, SequencesExt

CONSTANTS
    FIRST_SMOOTHING,            \* taps of the first Gaussian
    SECOND_SMOOTHING,           \* taps of the second
    SMOOTH_PERCENTILE,          \* 5
    MAX_SMOOTH_RATIO,           \* 30
    MAX_SMOOTH_REGION_RATIO,    \* 10
    TEXTURE_PERCENTILE,         \* 95
    LimitGray,                  \* the texture whose cost is MIN_TEXTURE_COST ...
    LimitColour                 \* ... and that after the penalty for red

\* What gaussian_kernel gives: as many taps on either side of the middle.
IsKernel(taps) ==
    /\ taps \in Seq(Nat) /\ Len(taps) % 2 = 1
    /\ \A t \in DOMAIN taps : taps[Len(taps) + 1 - t] = taps[t]

ASSUME HillAssumption ==
    /\ IsKernel(FIRST_SMOOTHING) /\ IsKernel(SECOND_SMOOTHING)
    /\ SMOOTH_PERCENTILE \in 0 .. 100 /\ TEXTURE_PERCENTILE \in 0 .. 100
    /\ MAX_SMOOTH_RATIO \in 0 .. 100 /\ MAX_SMOOTH_REGION_RATIO \in 0 .. 100
    /\ SMOOTH_PERCENTILE <= MAX_SMOOTH_RATIO
    /\ SMOOTH_PERCENTILE <= MAX_SMOOTH_REGION_RATIO
    /\ LimitGray \in Nat /\ LimitColour \in Nat /\ LimitGray <= LimitColour

Absolute(n) == IF n < 0 THEN -n ELSE n

\* Mutant of reflect: beyond the last coordinate comes the first.
reflectWrapping(coord, len) == coord % len

reflect(coord, len) ==
    IF len <= 1 THEN 0
    ELSE LET period == 2 * (len - 1)
             folded == coord % period
         IN  IF folded >= len THEN period - folded ELSE folded

\* The Laplacian of four neighbours.
high_pass(luma, width, height) ==
    [p \in DOMAIN luma |->
        LET x == p % width
            y == p \div width
            At(sx, sy) == luma[reflect(sy, height) * width + reflect(sx, width)]
        IN  Absolute(4 * At(x, y) - At(x - 1, y) - At(x + 1, y) - At(x, y - 1) - At(x, y + 1))]

convolve_axis(input, width, height, taps, axis) ==
    [p \in DOMAIN input |->
        LET x == p % width
            y == p \div width
            From(t) == LET offset == t - 1 - Len(taps) \div 2
                       IN  IF axis = "horizontal" THEN y * width + reflect(x + offset, width)
                           ELSE reflect(y + offset, height) * width + x
        IN  FoldFunction(+, 0, [t \in DOMAIN taps |-> taps[t] * input[From(t)]])]

convolve_separable(input, width, height, taps) ==
    convolve_axis(convolve_axis(input, width, height, taps, "horizontal"),
                  width, height, taps, "vertical")

\* How many pixels the rank of a percentile leaves in front of it: nearest
\* rank, from zero and inside the plane.
Before(percent, n) ==
    LET rank == (percent * n + 99) \div 100
    IN  IF rank = 0 THEN 0 ELSE rank - 1

\* percentile of the ascending costs, as the texture it is the cost of.
percentile(texture, percent) ==
    LET index == Before(percent, Cardinality(DOMAIN texture))
    IN  CHOOSE v \in {texture[p] : p \in DOMAIN texture} :
            /\ Cardinality({p \in DOMAIN texture : texture[p] > v}) <= index
            /\ index < Cardinality({p \in DOMAIN texture : texture[p] >= v})

VARIABLES
    picture,    \* width, height, layout and luma
    plane,      \* the plane the filters have reached
    stage,      \* how far compute is
    theta,      \* the threshold of smoothness
    start,      \* the next pixel a region may start from
    visited,
    queue,      \* pixels of the region that is being measured
    size,       \* pixels taken out of it
    largest,
    verdict

hillVars == <<picture, plane, stage, theta, start, visited, queue, size, largest, verdict>>
searchVars == <<start, visited, queue, size, largest>>

HillInit(pictures) ==
    /\ picture \in pictures
    /\ plane = picture.luma /\ stage = "high_pass" /\ theta = 0
    /\ start = 0 /\ visited = {} /\ queue = <<>> /\ size = 0 /\ largest = 0
    /\ verdict = "pending"

Width == picture.width
Height == picture.height
Positions == DOMAIN plane

Filter(from, to, filtered) ==
    /\ stage = from /\ stage' = to /\ plane' = filtered
    /\ UNCHANGED <<picture, theta, searchVars, verdict>>

HighPass == Filter("high_pass", "first", high_pass(plane, Width, Height))
FirstSmoothing ==
    Filter("first", "second", convolve_separable(plane, Width, Height, FIRST_SMOOTHING))
SecondSmoothing ==
    Filter("second", "validate", convolve_separable(plane, Width, Height, SECOND_SMOOTHING))

\* cost < theta_smooth.
Smooth == {p \in Positions : plane[p] > theta}

Refuse(reason) == stage' = "done" /\ verdict' = reason

\* validate, to the first gate.
SmoothRatioGate ==
    /\ stage = "validate"
    /\ LET threshold == percentile(plane, SMOOTH_PERCENTILE)
           smooth == {p \in Positions : plane[p] > threshold}
       IN  /\ theta' = threshold
           /\ IF 100 * Cardinality(smooth) > MAX_SMOOTH_RATIO * Cardinality(Positions)
              THEN Refuse("excessive_smooth_regions")
              ELSE stage' = "search" /\ UNCHANGED verdict
    /\ UNCHANGED <<picture, plane, searchVars>>

\* Mutant of Neighbours: the rows follow each other.
NeighboursOfRing(p) ==
    {q \in {p - 1, p + 1, p - Width, p + Width} : q \in Positions}

Neighbours(p) ==
    {q \in {p - 1, p + 1, p - Width, p + Width} :
        /\ q = p - 1 => (p % Width) > 0
        /\ q = p + 1 => (p % Width) + 1 < Width
        /\ q = p - Width => p \div Width > 0
        /\ q = p + Width => p \div Width + 1 < Height}

\* largest_smooth_region: the next pixel no region has taken yet ...
StartRegion ==
    /\ stage = "search" /\ queue = <<>>
    /\ LET free == {p \in Smooth \ visited : p >= start}
       IN  /\ free # {}
           /\ LET next == CHOOSE p \in free : \A q \in free : p <= q
              IN  /\ start' = next + 1 /\ visited' = visited \cup {next} /\ queue' = <<next>>
    /\ size' = 0
    /\ UNCHANGED <<picture, plane, stage, theta, largest, verdict>>

\* ... and its neighbours, one by one.
GrowRegion ==
    /\ stage = "search" /\ queue # <<>>
    /\ LET joined == Neighbours(Head(queue)) \cap (Smooth \ visited)
       IN  /\ visited' = visited \cup joined
           /\ queue' = Tail(queue) \o SetToSeq(joined)
           /\ size' = size + 1
           /\ largest' = IF queue' = <<>> /\ size' > largest THEN size' ELSE largest
    /\ UNCHANGED <<picture, plane, stage, theta, start, verdict>>

\* The second gate.
SmoothRegionGate ==
    /\ stage = "search" /\ queue = <<>> /\ \A p \in Smooth \ visited : p < start
    /\ IF 100 * largest > MAX_SMOOTH_REGION_RATIO * Cardinality(Positions)
       THEN Refuse("large_smooth_region")
       ELSE stage' = "texture" /\ UNCHANGED verdict
    /\ UNCHANGED <<picture, plane, theta, searchVars>>

\* The third: MIN_TEXTURE_COST is a texture.
TextureGate ==
    /\ stage = "texture"
    /\ LET limit == IF picture.colour THEN LimitColour ELSE LimitGray
       IN  Refuse(IF percentile(plane, TEXTURE_PERCENTILE) > limit
                  THEN "insufficient_global_texture" ELSE "usable")
    /\ UNCHANGED <<picture, plane, theta, searchVars>>

Hill ==
    \/ HighPass \/ FirstSmoothing \/ SecondSmoothing \/ SmoothRatioGate
    \/ StartRegion \/ GrowRegion \/ SmoothRegionGate \/ TextureGate
=============================================================================
