--------------------------- MODULE ContainerFile ---------------------------
(***************************************************************************)
(* A container from the file it is read from to the file it is written to: *)
(* the shape of the file is noted while it is decoded, the decoded picture *)
(* passes the grid detector and the three gates of the cost map, and the   *)
(* new samples are written in the shape that was noted.  Or the container  *)
(* is drawn, sample by sample, and written in a shape of its own; the next *)
(* reader then finds the message in its samples.                           *)
(***************************************************************************)
EXTENDS Envelope, JpegGrid, HillCost, Carrier

CONSTANTS
    Files,      \* files containers are read from, <<>> for a drawn one
    Pictures,   \* what they show
    Requests,   \* pairs of the two
    Jobs,       \* containers to draw
    Streams     \* lengths of compressed samples

\* The loader admits none that is a block wide or narrower.
IsPicture(p) ==
    /\ p.width \in Nat \ {0, 1} /\ p.width > BLOCK_SIZE
    /\ p.height \in Nat \ {0, 1} /\ p.height > BLOCK_SIZE
    /\ p.colour \in BOOLEAN
    /\ p.luma \in [0 .. p.width * p.height - 1 -> Nat]

ASSUME FileAssumption ==
    /\ Requests \subseteq Files \X Pictures
    /\ Files \subseteq Seq([type : STRING, length : Nat, whole : BOOLEAN])
    /\ \A p \in Pictures : IsPicture(p)
    /\ \A j \in Jobs : IsJob(j)
    /\ Streams \subseteq Nat \ {0}

VARIABLES
    pc,
    sample,     \* the blocks that were looked at
    grid        \* what the detector found

vars == <<envelopeVars, hillVars, carrierVars, pc, sample, grid>>

Init ==
    \E r \in Requests :
        /\ EnvelopeInit({r[1]}) /\ HillInit({r[2]})
        /\ CarrierInit(IF r[1] = <<>> THEN Jobs ELSE {NoJob})
        /\ pc = IF r[1] = <<>> THEN "draw" ELSE "decode"
        /\ sample = {} /\ grid = "unknown"

\* decode_png, to the envelope.
Decode ==
    /\ pc = "decode" /\ pc' = "grid"
    /\ ReadEnvelope /\ UNCHANGED <<hillVars, carrierVars, sample, grid>>

\* validate_no_jpeg_artifacts; a picture without a whole block shows none.
Detect ==
    /\ pc = "grid"
    /\ sample' \in Samples(Width, Height)
    /\ IF sample' # {} /\ Artifacts(picture.luma, sample', Width, Height)
       THEN grid' = "artifacts" /\ pc' = "refused"
       ELSE grid' = "clean" /\ pc' = "hill"
    /\ UNCHANGED <<envelopeVars, hillVars, carrierVars>>

\* HillCostProvider::compute; what it refuses is not embedded into.
Compute ==
    /\ pc = "hill" /\ Hill
    /\ pc' = IF verdict' = "pending" THEN "hill" ELSE IF verdict' = "usable" THEN "write" ELSE "refused"
    /\ UNCHANGED <<envelopeVars, carrierVars, sample, grid>>

\* render: there is no file it came from, and it is written when it is full; if
\* a draw gives up there is no container.
Render ==
    /\ pc = "draw"
    /\ \/ DrawSample /\ pc' = IF Drawn' THEN "write" ELSE "draw"
       \/ RejectionExhausted /\ pc' = "refused"
    /\ UNCHANGED <<envelopeVars, hillVars, sample, grid>>

\* write_png, of samples that compress to another length.
WritePng ==
    /\ pc = "write" /\ pc' = "written"
    /\ \E stream \in Streams : Write(stream)
    /\ UNCHANGED <<hillVars, carrierVars, sample, grid>>

\* The file is a container to the next who reads it.
Reread ==
    /\ pc = "written" /\ pc' = "reread"
    /\ ReadAgain /\ UNCHANGED <<hillVars, carrierVars, sample, grid>>

\* extract, with a password or with an identity, on a container that was drawn.
ReadPayload ==
    /\ pc = "reread" /\ job # NoJob /\ pc' = "answered"
    /\ ReadDrawn /\ UNCHANGED <<envelopeVars, hillVars, sample, grid>>

Finished ==
    /\ pc \in {"refused", "answered"} \/ (pc = "reread" /\ job = NoJob)
    /\ UNCHANGED vars

Next == Decode \/ Detect \/ Compute \/ Render \/ WritePng \/ Reread \/ ReadPayload \/ Finished

Spec == Init /\ [][Next]_vars
-----------------------------------------------------------------------------
\* Where the chunks are that are not part of the picture, those of them a decoder
\* can do without, and where the pixels.
Extras(file) == {i \in DOMAIN file : file[i].type \notin Critical}
Ancillary(file) == {i \in DOMAIN file : file[i].type \in Lowercase}
Pixels(file) == {i \in DOMAIN file : file[i].type = "IDAT"}

\* The pixels are in pieces of a size, but for a rest in the last.
CutAt(file, cut) ==
    /\ \A i \in Pixels(file) : file[i].length <= cut
    /\ \A i, j \in Pixels(file) : i < j => file[i].length = cut

\* Whatever the new samples compress to, the file that is written shows its
\* next reader what the original showed: the same technical chunks in the same
\* order, nothing to drop, and pixels cut into the same pieces, which are there
\* in full; only the last may be shorter.  And the pieces are those of the
\* original: if it was cut at one size, of those a writer uses, so is its copy.
ShapeSurvives ==
    pc = "reread" =>
        /\ again.preserved = kept.preserved /\ again.discarded = 0
        /\ CutAt(out, kept.size)
        /\ Cardinality(Pixels(out)) > 1 => again.size = kept.size
        /\ Cardinality(Pixels(Visible(chunks))) > 1 =>
              \A cut \in MinIdat .. MaxIdat : CutAt(Visible(chunks), cut) => CutAt(out, cut)

\* Nothing but technical data travels: each kind at most once, in the order of
\* the original and from in front of its pixels, never what a program wrote
\* about itself or a user about the picture; and what was left behind is
\* counted, chunk by chunk.
OnlyTechnicalTravels ==
    pc \in {"written", "reread"} /\ chunks # <<>> =>
        LET read_ == Visible(chunks)
            first == {i \in DOMAIN read_ : /\ read_[i].type \in Technical
                                           /\ \A j \in 1 .. i : read_[j].type # "IDAT"
                                           /\ \A j \in 1 .. i - 1 :
                                                read_[j].length <= MaxPreserved
                                                  => read_[j].type # read_[i].type}
        IN  /\ {out[i] : i \in Extras(out)}
                 = {read_[i] : i \in {k \in first : read_[k].length <= MaxPreserved}}
            /\ \A i, j \in Extras(out) :
                i < j => \E k, l \in first : k < l /\ read_[k] = out[i] /\ read_[l] = out[j]
            /\ Cardinality(Extras(out)) + kept.discarded = Cardinality(Ancillary(read_))

Neighbour(p, q) ==
    \/ p \div Width = q \div Width /\ Abs(p - q) = 1
    \/ Abs(p - q) = Width
Contrasts(pairs) == {Abs(picture.luma[e[1]] - picture.luma[e[2]]) : e \in pairs}
Block(p) == <<(p % Width) \div BLOCK_SIZE, (p \div Width) \div BLOCK_SIZE>>
AllPairs == {e \in Positions \X Positions : Neighbour(e[1], e[2])}
InBlocks == {e \in AllPairs : Block(e[1]) = Block(e[2])}

\* The detector sees the grid and nothing else, whichever blocks it draws: no
\* picture whose neighbours all differ alike is refused, and every picture is
\* that differs at the edges of its blocks alone.
GridIsSeen ==
    /\ grid = "artifacts" => Cardinality(Contrasts(AllPairs)) > 1
    /\ grid = "clean" => ~(Contrasts(InBlocks) = {0} /\ 0 \notin Contrasts(AllPairs \ InBlocks))

\* The picture continued by its own mirror image, over the edge pixel, until
\* it repeats; and what two-dimensional Gaussians over that give.
Period(len) == 2 * (len - 1)
Unfolded(k, len) == IF k < len THEN k ELSE Period(len) - k
Torus == (0 .. Period(Width) - 1) \X (0 .. Period(Height) - 1)
Shift(c, dx, dy) == <<(c[1] + dx) % Period(Width), (c[2] + dy) % Period(Height)>>
Blurred(field, taps) ==
    LET r == Len(taps) \div 2
    IN  [c \in Torus |-> FoldFunction(+, 0, [i \in DOMAIN taps |->
            taps[i] * FoldFunction(+, 0, [j \in DOMAIN taps |->
                taps[j] * field[Shift(c, j - 1 - r, i - 1 - r)]])])]
Mirrored == [c \in Torus |-> picture.luma[Unfolded(c[2], Height) * Width + Unfolded(c[1], Width)]]
Contrast(field) ==
    [c \in Torus |-> Abs(4 * field[c] - field[Shift(c, 1, 0)] - field[Shift(c, -1, 0)]
                                     - field[Shift(c, 0, 1)] - field[Shift(c, 0, -1)])]

\* Where a filter reaches over the border of the image it finds the image
\* again: the texture is that of a picture without a border, so no frame is
\* invented that the changes would crowd into.
NoInventedBorder ==
    stage = "validate" =>
        LET contrast == Contrast(Mirrored)
            first == Blurred(contrast, FIRST_SMOOTHING)
            texture == Blurred(first, SECOND_SMOOTHING)
        IN  /\ contrast \in [Torus -> Nat] /\ first \in [Torus -> Nat]
            /\ \A p \in Positions : plane[p] = texture[<<p % Width, p \div Width>>]

\* What hangs together by its sides, and is as large as that.
Closed(R) == \A p \in R, q \in Smooth : Neighbour(p, q) => q \in R
Regions == {R \in SUBSET Smooth : /\ R # {} /\ Closed(R)
                                  /\ \A S \in SUBSET R : S \in {{}, R} \/ ~Closed(S)}

\* hill.rs, on the reach of the threshold: the first two gates cannot reject an
\* image, because the threshold is a percentile of what they measure.
FirstTwoGatesPass == verdict \notin {"excessive_smooth_regions", "large_smooth_region"}

\* The search measures the largest of the regions: two that touch at a corner,
\* or over the end of a row, are two.  And no region is so large, nor are all of
\* them together, that a picture is refused for it.
LargestRegion ==
    /\ stage = "texture" =>
        /\ \A R \in Regions : Cardinality(R) <= largest
        /\ largest > 0 => \E R \in Regions : Cardinality(R) = largest
    /\ FirstTwoGatesPass

\* No pixel asks for a cell outside the ring, and no level is so near to the end
\* of the range that one of the two bits is out of reach.
NeverStuck ==
    pc = "draw" => /\ Around(job, Pixel.x, Pixel.y) \subseteq Grid
                   /\ \A r \in {0, RIDGE_CEILING}, bit \in 0 .. 1 : draw_with_lsb(Base(r), bit) # {}

\* Every sample of a drawn container gets its bit, and whatever else the draws
\* gave, the bits are found again where they were put: the message comes out in
\* the mode it was drawn for, whole and without the padding, and in the other
\* mode nothing does.
DrawnCarries ==
    /\ NeverStuck
    /\ reader # "none" => got = IF reader = job.mode THEN job.msg ELSE Rejected
=============================================================================
