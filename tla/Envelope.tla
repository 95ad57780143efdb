------------------------------ MODULE Envelope ------------------------------
(***************************************************************************)
(* The chunks of a PNG around its samples: what is kept of the file a      *)
(* container was read from, and the file that is written in its shape.     *)
(*                                                                         *)
(* A file is the sequence of its chunks; of a chunk there is its type, the *)
(* length of its data, and whether all of it is there.                     *)
(***************************************************************************)
EXTENDS Integers, Sequences, SequencesExt

CONSTANTS
    Technical,      \* the chunks on the whitelist
    Lowercase,      \* the types that begin with a small letter: ancillary chunks
    Synthetic,      \* those a drawn container is given, in their order
    MaxPreserved,   \* MAX_PRESERVED_CHUNK_BYTES
    MinIdat,        \* MIN_IDAT_CHUNK_SIZE
    MaxIdat,        \* MAX_IDAT_CHUNK_SIZE
    DefaultIdat     \* DEFAULT_IDAT_CHUNK_SIZE

Critical == {"IHDR", "PLTE", "IDAT", "IEND"}

ASSUME EnvelopeAssumption ==
    /\ Lowercase \cup Critical \subseteq STRING /\ Lowercase \cap Critical = {}
    /\ Technical \subseteq Lowercase
    /\ Synthetic \in Seq(Technical)
    /\ \A i, j \in DOMAIN Synthetic : i # j => Synthetic[i] # Synthetic[j]
    /\ MaxPreserved \in Nat \ {0}
    /\ MinIdat \in Nat \ {0} /\ DefaultIdat \in MinIdat .. MaxIdat /\ MaxIdat \in Nat

Chunk(type, length) == [type |-> type, length |-> length, whole |-> TRUE]

\* PngEnvelope; preserved holds chunks, size is that of an IDAT.
NewEnvelope(chunks) == [preserved |-> chunks, size |-> DefaultIdat, count |-> 0, discarded |-> 0]

synthesised == NewEnvelope([i \in DOMAIN Synthetic |-> Chunk(Synthetic[i], 1)])

\* Where the loop over read_chunk stops: at IEND, or at what is not all there.
Visible(file) ==
    LET stops == {i \in DOMAIN file : file[i].type = "IEND" \/ ~file[i].whole}
    IN  IF stops = {} THEN file
        ELSE SubSeq(file, 1, (CHOOSE i \in stops : \A j \in stops : i <= j) - 1)

\* Mutant of record: a chunk type is kept wherever it was found.
recordAnywhere(envelope, chunk, before_pixels) ==
    IF /\ chunk.type \in Technical /\ chunk.length <= MaxPreserved
       /\ \A i \in DOMAIN envelope.preserved : envelope.preserved[i].type # chunk.type
    THEN [envelope EXCEPT !.preserved = Append(@, chunk)]
    ELSE [envelope EXCEPT !.discarded = @ + IF chunk.type \in Lowercase THEN 1 ELSE 0]

\* Kept when it is on the list, in front of the pixels, not too large and the
\* first of its kind; otherwise counted, if a decoder can do without it.
record(envelope, chunk, before_pixels) ==
    IF /\ chunk.type \in Technical /\ before_pixels /\ chunk.length <= MaxPreserved
       /\ \A i \in DOMAIN envelope.preserved : envelope.preserved[i].type # chunk.type
    THEN [envelope EXCEPT !.preserved = Append(@, chunk)]
    ELSE [envelope EXCEPT !.discarded = @ + IF chunk.type \in Lowercase THEN 1 ELSE 0]

Occurrences(lengths, l) == Cardinality({i \in DOMAIN lengths : lengths[i] = l})

\* Mutant of dominant_length: of two that are as frequent, the smaller.
dominant_lengthSmaller(lengths) ==
    CHOOSE l \in ToSet(lengths) : \A m \in ToSet(lengths) :
        \/ Occurrences(lengths, m) < Occurrences(lengths, l)
        \/ Occurrences(lengths, m) = Occurrences(lengths, l) /\ m >= l

\* The most frequent, the larger of two that are as frequent.
dominant_length(lengths) ==
    CHOOSE l \in ToSet(lengths) : \A m \in ToSet(lengths) :
        \/ Occurrences(lengths, m) < Occurrences(lengths, l)
        \/ Occurrences(lengths, m) = Occurrences(lengths, l) /\ m <= l

\* PngEnvelope::read: the walk over the chunks, then the size of the pieces; out
\* of range above is the most, below the default.
read(file) ==
    LET chunks == Visible(file)
        Walk[n \in 0 .. Len(chunks)] ==
            IF n = 0 THEN [envelope |-> NewEnvelope(<<>>), lengths |-> <<>>]
            ELSE LET before == Walk[n - 1]
                 IN  IF chunks[n].type = "IDAT"
                     THEN [before EXCEPT !.lengths = Append(@, chunks[n].length)]
                     ELSE [before EXCEPT !.envelope = record(@, chunks[n], before.lengths = <<>>)]
        lengths == Walk[Len(chunks)].lengths
        size == IF lengths = <<>> \/ dominant_length(lengths) < MinIdat THEN DefaultIdat
                ELSE IF dominant_length(lengths) > MaxIdat THEN MaxIdat
                ELSE dominant_length(lengths)
    IN  [Walk[Len(chunks)].envelope EXCEPT !.size = size, !.count = Len(lengths)]

\* stream.chunks(size): full pieces and the rest.
Pieces(stream, size) ==
    [i \in 1 .. (stream + size - 1) \div size |->
        Chunk("IDAT", IF i * size <= stream THEN size ELSE stream % size)]

\* write_png, as far as the layout goes.
Written(envelope, stream) ==
    <<Chunk("IHDR", 13)>> \o envelope.preserved \o Pieces(stream, envelope.size)
      \o <<Chunk("IEND", 0)>>

VARIABLES
    chunks,     \* the file the container was read from, none for a drawn one
    kept,       \* the envelope that travels with the samples
    out,        \* the file that was written
    again       \* what is read from that

envelopeVars == <<chunks, kept, out, again>>

Untold == NewEnvelope(<<>>)

EnvelopeInit(files) ==
    /\ chunks \in files
    /\ kept = IF chunks = <<>> THEN synthesised ELSE Untold
    /\ out = <<>> /\ again = Untold

ReadEnvelope == kept' = read(chunks) /\ UNCHANGED <<chunks, out, again>>

Write(stream) == out' = Written(kept, stream) /\ UNCHANGED <<chunks, kept, again>>

ReadAgain == again' = read(out) /\ UNCHANGED <<chunks, kept, out>>
=============================================================================
