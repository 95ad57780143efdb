------------------------------ MODULE JpegGrid ------------------------------
(***************************************************************************)
(* detect_jpeg_artifacts: whether neighbouring pixels differ more across   *)
(* the edges of the blocks of a JPEG than inside them.                     *)
(*                                                                         *)
(* A plane is row-major, as in the code, so a pair of pixels is a pair of  *)
(* indices.  Only some blocks are looked at, drawn from a seed that the    *)
(* head of the samples gives.                                              *)
(***************************************************************************)
EXTENDS Integers, Sequences, FiniteSetsExt

CONSTANTS
    BLOCK_SIZE,     \* 8
    SAMPLE_PERCENT, \* 5
    MIN_SAMPLES,    \* 50
    MAX_SAMPLES     \* 10 000

ASSUME GridAssumption ==
    /\ BLOCK_SIZE \in Nat \ {0} /\ SAMPLE_PERCENT \in 0 .. 100
    /\ MIN_SAMPLES \in Nat \ {0, 1} /\ MAX_SAMPLES \in Nat /\ MIN_SAMPLES <= MAX_SAMPLES

Abs(n) == IF n < 0 THEN -n ELSE n
Index(x, y, width) == y * width + x

Blocks(width, height) == 0 .. (width \div BLOCK_SIZE) * (height \div BLOCK_SIZE) - 1

\* How many of them are looked at.
SampleSize(total) ==
    LET wanted == (total * SAMPLE_PERCENT) \div 100
        clamped == IF wanted < MIN_SAMPLES THEN MIN_SAMPLES
                   ELSE IF wanted > MAX_SAMPLES THEN MAX_SAMPLES ELSE wanted
    IN  IF clamped < total THEN clamped ELSE total

\* Mutant of Steps: the last pixel of a row is paired with what follows it.
StepsUnbounded(block, width, height) ==
    LET x0 == (block % (width \div BLOCK_SIZE)) * BLOCK_SIZE
        y0 == (block \div (width \div BLOCK_SIZE)) * BLOCK_SIZE
        Here(x, y) == Index(x, y, width)
    IN  {[from |-> Here(x0 + d, y0 + i), to |-> Here(x0 + d, y0 + i) + 1, edge |-> d = BLOCK_SIZE - 1] :
            d \in {k \in 0 .. BLOCK_SIZE - 1 : Here(x0 + k, y0 + BLOCK_SIZE - 1) + 1 < width * height},
            i \in 0 .. BLOCK_SIZE - 1}
          \cup
        {[from |-> Here(x0 + i, y0 + d), to |-> Here(x0 + i, y0 + d) + width, edge |-> d = BLOCK_SIZE - 1] :
            d \in {k \in 0 .. BLOCK_SIZE - 1 : y0 + k + 1 < height}, i \in 0 .. BLOCK_SIZE - 1}

\* block_energies: the pairs along the rows and down the columns of a block,
\* and whether they cross its edge; a pair that leaves the image is dropped.
Steps(block, width, height) ==
    LET x0 == (block % (width \div BLOCK_SIZE)) * BLOCK_SIZE
        y0 == (block \div (width \div BLOCK_SIZE)) * BLOCK_SIZE
        Here(x, y) == Index(x, y, width)
    IN  {[from |-> Here(x0 + d, y0 + i), to |-> Here(x0 + d, y0 + i) + 1, edge |-> d = BLOCK_SIZE - 1] :
            d \in {k \in 0 .. BLOCK_SIZE - 1 : x0 + k + 1 < width}, i \in 0 .. BLOCK_SIZE - 1}
          \cup
        {[from |-> Here(x0 + i, y0 + d), to |-> Here(x0 + i, y0 + d) + width, edge |-> d = BLOCK_SIZE - 1] :
            d \in {k \in 0 .. BLOCK_SIZE - 1 : y0 + k + 1 < height}, i \in 0 .. BLOCK_SIZE - 1}

\* StepEnergies, pooled over the blocks of a sample.
Pooled(sample, width, height) == UNION {Steps(b, width, height) : b \in sample}

Energy(luma, steps) ==
    MapThenSumSet(LAMBDA s : Abs(luma[s.from] - luma[s.to]), steps)

\* ratio > ARTIFACT_THRESHOLD, 1.3, cross-multiplied; none without two
\* populations.
Artifacts(luma, sample, width, height) ==
    LET steps == Pooled(sample, width, height)
        boundary == {s \in steps : s.edge}
        interior == {s \in steps : ~s.edge}
    IN  /\ boundary # {} /\ interior # {}
        /\ 10 * Energy(luma, boundary) * Cardinality(interior)
             > 13 * Energy(luma, interior) * Cardinality(boundary)

Samples(width, height) ==
    LET blocks == Blocks(width, height)
    IN  kSubset(SampleSize(Cardinality(blocks)), blocks)
=============================================================================
