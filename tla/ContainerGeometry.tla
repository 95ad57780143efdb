------------------------- MODULE ContainerGeometry --------------------------
(***************************************************************************)
(* The size of a generated container: what is permitted, what fits, what   *)
(* is suggested when it does not, and how the bytes are laid out so that   *)
(* the receiver finds them with nothing but the image.                     *)
(*                                                                         *)
(* A request that is refused for its size may be repeated with the square  *)
(* the refusal suggests, as the command line tells the user to.            *)
(***************************************************************************)
EXTENDS Integers

CONSTANTS
    Sides,          \* widths and heights asked for
    Payloads,       \* lengths of compressed payloads
    MinSide,        \* MIN_CONTAINER_SIDE, 2000
    MaxPixels,      \* MAX_CONTAINER_PIXELS, 128 Mi
    Channels,       \* samples in a pixel, 3
    Tag,            \* TAG_BYTES, 16
    Header,         \* LENGTH_HEADER_BYTES, 4
    Transport,      \* ML_KEM_1024_CIPHERTEXT_BYTES, 1568
    MaxRoot,        \* roots looked at, to one whose square is MaxPixels or more
    Round           \* suggestions are multiples of this, 100

ASSUME GeometryAssumption ==
    /\ Sides \subseteq Nat /\ Payloads \subseteq Nat \ {0}
    /\ MinSide \in Nat \ {0} /\ MaxPixels \in Nat /\ Tag \in Nat
    /\ Header \in Nat \ {0} /\ Transport \in Nat
    /\ MaxRoot \in Nat /\ MaxRoot * MaxRoot >= MaxPixels
    /\ Channels \in Nat \ {0} /\ Round \in Nat \ {0}

VARIABLES
    asked,      \* the width and height of the request
    payload,    \* the compressed payload
    mode,       \* symmetric or for a recipient
    advised,    \* whether the dimensions are those of an earlier refusal
    side,       \* the suggestion of the last refusal, 0 for none
    verdict

geometryVars == <<asked, payload, mode, advised, side, verdict>>

Modes == {"Symmetric", "AsymmetricPqc"}
KeyTransport(m) == IF m = "Symmetric" THEN 0 ELSE Transport

\* ContainerDimensions::new.
Permitted(w, h) == w >= MinSide /\ h >= MinSide /\ w * h <= MaxPixels

SaturatingSub(a, b) == IF a >= b THEN a - b ELSE 0

\* Whole bytes that one bit per sample can carry.
Capacity(pixels) == (pixels * Channels) \div 8

PayloadCapacity(pixels, m) ==
    SaturatingSub(SaturatingSub(Capacity(pixels), KeyTransport(m)), Tag + Header)

CeilDiv(a, b) == (a + b - 1) \div b

\* integer_sqrt_ceil, of what no more than MaxPixels are.
SqrtCeil(v) == CHOOSE r \in 0 .. MaxRoot : r * r >= v /\ (r > 0 => (r - 1) * (r - 1) < v)

Larger(a, b) == IF a >= b THEN a ELSE b

\* Mutant of NeededPixels: the key transport is charged in both modes.
NeededPixelsBothModes(p, m) == CeilDiv(8 * (p + Tag + Header + Transport), Channels)

NeededPixels(p, m) == CeilDiv(8 * (p + Tag + Header + KeyTransport(m)), Channels)

\* recommended_square_side, with 0 for None.
RecommendedSide(p, m) ==
    LET exact == Larger(SqrtCeil(NeededPixels(p, m)), MinSide)
        rounded == CeilDiv(exact, Round) * Round
    IN  IF NeededPixels(p, m) > MaxPixels THEN 0
        ELSE IF rounded * rounded <= MaxPixels THEN rounded
        ELSE exact

\* The bytes sealed into a container, padding included, and the cipher text.
SealedPlain(pixels, m) == SaturatingSub(SaturatingSub(Capacity(pixels), KeyTransport(m)), Tag)
Carrier(pixels, m) == KeyTransport(m) + SealedPlain(pixels, m) + Tag

\* read_generated_after: what the receiver takes for the cipher text, from the
\* number of samples alone.
ReadLength(pixels, m) == SaturatingSub(Capacity(pixels), KeyTransport(m))

Area == asked[1] * asked[2]

GeometryInit ==
    /\ asked \in Sides \X Sides
    /\ payload \in Payloads /\ mode \in Modes
    /\ advised = FALSE
    /\ side = 0
    /\ verdict = "pending"

\* ContainerDimensions::new refuses ...
RefuseDimensions ==
    /\ verdict = "pending" /\ ~Permitted(asked[1], asked[2])
    /\ verdict' = "out_of_range"
    /\ UNCHANGED <<asked, payload, mode, advised, side>>

\* ... or fits does, with a suggestion ...
RefusePayload ==
    /\ verdict = "pending" /\ Permitted(asked[1], asked[2])
    /\ payload > PayloadCapacity(Area, mode)
    /\ verdict' = "too_large" /\ side' = RecommendedSide(payload, mode)
    /\ UNCHANGED <<asked, payload, mode, advised>>

\* Mutant of Accept: the frame is not charged to the payload.
AcceptUncharged ==
    /\ verdict = "pending" /\ Permitted(asked[1], asked[2])
    /\ payload <= Capacity(Area)
    /\ verdict' = "accepted"
    /\ UNCHANGED <<asked, payload, mode, advised, side>>

\* ... or the container is drawn.
Accept ==
    /\ verdict = "pending" /\ Permitted(asked[1], asked[2])
    /\ payload <= PayloadCapacity(Area, mode)
    /\ verdict' = "accepted"
    /\ UNCHANGED <<asked, payload, mode, advised, side>>

\* The user takes the suggestion of the refusal.
TakeAdvice ==
    /\ verdict = "too_large" /\ side # 0 /\ ~advised
    /\ asked' = <<side, side>> /\ advised' = TRUE /\ verdict' = "pending"
    /\ UNCHANGED <<payload, mode, side>>

Answered == verdict # "pending" /\ UNCHANGED geometryVars

GeometryNext == RefuseDimensions \/ RefusePayload \/ Accept \/ TakeAdvice \/ Answered

GeometrySpec == GeometryInit /\ [][GeometryNext]_geometryVars
-----------------------------------------------------------------------------
GeometryTypeOK ==
    /\ asked \in Nat \X Nat /\ payload \in Payloads /\ mode \in Modes
    /\ advised \in BOOLEAN /\ side \in Nat
    /\ Permitted(asked[1], asked[2]) => PayloadCapacity(Area, mode) \in Nat
    /\ verdict \in {"pending", "out_of_range", "too_large", "accepted"}

\* A container that was accepted holds the header and the whole payload in
\* front of the padding, fills the carrier without a spare byte, and its
\* receiver, who knows the image and the mode alone, reads exactly the bytes
\* that were sealed and does not take the image for one too small to hold any.
NothingCutOff ==
    verdict = "accepted" =>
        /\ Header + payload <= SealedPlain(Area, mode)
        /\ Carrier(Area, mode) = Capacity(Area)
        /\ ReadLength(Area, mode) = SealedPlain(Area, mode) + Tag
        /\ ReadLength(Area, mode) > Tag + Header

\* A suggestion is large enough: no second refusal for the size of the payload.
AdviceFits == advised => verdict # "too_large"

\* A refusal without a suggestion is final: no permitted container of any
\* shape admits the payload.
NoAdviceIsFinal ==
    verdict = "too_large" /\ side = 0 =>
        \A w, h \in Sides : Permitted(w, h) => payload > PayloadCapacity(w * h, mode)

\* Both: what a refusal suggests is enough, and one that suggests nothing is
\* right.
AdviceIsTrue == AdviceFits /\ NoAdviceIsFinal

\* generate/mod.rs, on the rounding of the suggestion: the exact break-even
\* side is already known to fit.
AdviceIsPermitted == advised => verdict # "out_of_range"
=============================================================================
