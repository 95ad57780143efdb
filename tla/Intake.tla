------------------------------- MODULE Intake -------------------------------
(***************************************************************************)
(* load_and_validate: how a file becomes a container image.                *)
(*                                                                         *)
(* The file is opened twice.  The first time 33 bytes are read and judged, *)
(* so that an image of the wrong size costs nothing; the second time all   *)
(* of it is read, and judged again from the start, because other programs  *)
(* may have replaced it in between.  What is known of a file is what the   *)
(* gates look at.                                                          *)
(***************************************************************************)
EXTENDS Integers, Sequences

CONSTANTS
    Paths,          \* the files in play
    Pictures,       \* what a file may hold
    MIN_DIMENSION,  \* the shortest side, 2000
    MAX_PIXELS,     \* the most pixels, 128 Mi
    Word,           \* the values of the integer pixels are counted in, 2^64
    MaxChanges      \* bound: what other programs do to the files

Formats == {"jpeg", "webp", "png", "other"}
ColorSpaces == {"Rgb8", "Rgb16", "Rgba8", "Luma8"}

\* length: below 12 bytes, below 33, or more; ihdr: the first chunk is called
\* that; stream: whether the decoder gets through the header and the pixels.
PictureShape(p) ==
    /\ p.length \in {"short", "prefix", "long"} /\ p.format \in Formats
    /\ p.ihdr \in BOOLEAN /\ p.width \in Nat /\ p.height \in Nat
    /\ p.stream \in {"sound", "bad_header", "bad_pixels"}
    /\ p.grid \in BOOLEAN

ASSUME IntakeAssumption ==
    /\ \A p \in Pictures : PictureShape(p) /\ p.width * p.height < Word
    /\ MIN_DIMENSION \in Nat /\ MAX_PIXELS \in Nat /\ Word \in Nat /\ MaxChanges \in Nat

VARIABLES
    disk,       \* what each file holds
    changes,    \* how often another program replaced or removed one
    loading,    \* the path load_and_validate was called with
    stage,      \* how far it is
    seen,       \* what the probe read
    bytes,      \* what was read the second time
    verdict     \* the answer, "ok" for an image

intakeVars == <<loading, stage, seen, bytes, verdict>>

Missing == [length |-> "missing"]           \* nothing has the name
Unreadable == [length |-> "unreadable"]     \* it may not be opened
None == [length |-> "none"]

Readable(p) == p \notin {Missing, Unreadable}

\* The first answer that is not "ok", of gates in their order.
FirstRefusal(answers) ==
    LET refusals == {i \in DOMAIN answers : answers[i] # "ok"}
    IN  IF refusals = {} THEN "ok"
        ELSE answers[CHOOSE i \in refusals : \A j \in refusals : i <= j]

Answer(refused, reason) == IF refused THEN reason ELSE "ok"

validate_magic_bytes(p) ==
    FirstRefusal(<<Answer(p.length = "short", "NotPng"),
                   Answer(p.format = "jpeg", "JpegDetected"),
                   Answer(p.format = "webp", "WebpDetected"),
                   Answer(p.format # "png", "NotPng")>>)

pixel_count(p) == (p.width * p.height) % Word

check_dimensions(p) ==
    FirstRefusal(<<Answer(p.width < MIN_DIMENSION \/ p.height < MIN_DIMENSION, "ImageTooSmall"),
                   Answer(pixel_count(p) > MAX_PIXELS, "ImageTooLarge")>>)

\* Mutant of probe_geometry: the sides are taken from wherever they would be.
probe_geometryUnchecked(p) ==
    IF ~Readable(p) THEN "IoError"
    ELSE FirstRefusal(<<validate_magic_bytes(p), Answer(p.length # "long", "NotPng"),
                        check_dimensions(p)>>)

\* Of the first 33 bytes.
probe_geometry(p) ==
    IF ~Readable(p) THEN "IoError"
    ELSE FirstRefusal(<<validate_magic_bytes(p), Answer(p.length # "long", "NotPng"),
                        Answer(~p.ihdr, "DecodingError"), check_dimensions(p)>>)

\* The decoder's own reading of the header.
decode_header(p) ==
    Answer(p.length # "long" \/ ~p.ihdr \/ p.stream = "bad_header", "DecodingError")

\* Mutant of decode_png: the sizes were judged by the probe.
decode_pngTrusting(p) ==
    FirstRefusal(<<decode_header(p), Answer(p.layout \notin ColorSpaces, "UnsupportedColorSpace"),
                   Answer(p.stream = "bad_pixels", "DecodingError")>>)

decode_png(p) ==
    FirstRefusal(<<decode_header(p), check_dimensions(p),
                   Answer(p.layout \notin ColorSpaces, "UnsupportedColorSpace"),
                   Answer(p.stream = "bad_pixels", "DecodingError")>>)

IntakeInit == loading = <<>> /\ stage = "idle" /\ seen = None /\ bytes = None /\ verdict = "none"

Unload == loading' = <<>> /\ stage' = "idle" /\ seen' = None /\ bytes' = None /\ verdict' = "none"

\* load_and_validate is called.
Load(path) ==
    /\ loading' = path /\ stage' = "probe"
    /\ seen' = None /\ bytes' = None /\ verdict' = "pending"

\* Goes on after "ok", returns anything else.
Goes(answer, next) ==
    /\ stage' = IF answer = "ok" THEN next ELSE "returned"
    /\ verdict' = IF answer = "ok" THEN verdict ELSE answer

Probe ==
    /\ stage = "probe"
    /\ seen' = disk[loading] /\ Goes(probe_geometry(disk[loading]), "read")
    /\ UNCHANGED <<loading, bytes>>

ReadFile ==
    /\ stage = "read"
    /\ bytes' = disk[loading]
    /\ Goes(Answer(~Readable(disk[loading]), "IoError"), "decode")
    /\ UNCHANGED <<loading, seen>>

Decode ==
    /\ stage = "decode"
    /\ Goes(FirstRefusal(<<validate_magic_bytes(bytes), decode_png(bytes)>>), "screen")
    /\ UNCHANGED <<loading, seen, bytes>>

\* validate_no_jpeg_artifacts.
Screen ==
    /\ stage = "screen" /\ stage' = "returned"
    /\ verdict' = Answer(bytes.grid, "JpegArtifactsDetected")
    /\ UNCHANGED <<loading, seen, bytes>>

IntakeStep == (Probe \/ ReadFile \/ Decode \/ Screen) /\ UNCHANGED <<disk, changes>>

\* Another program replaces or removes a file.
OthersReplace ==
    /\ changes < MaxChanges /\ changes' = changes + 1
    /\ \E path \in Paths, p \in Pictures \cup {Missing} : disk' = [disk EXCEPT ![path] = p]
-----------------------------------------------------------------------------
\* Whatever happened to the file since the probe, the bytes that are expanded
\* in memory are those of a PNG within both limits, counted without wrapping,
\* and the bytes that are accepted passed every gate.
OnlyFitImages ==
    /\ stage = "screen" \/ (stage = "returned" /\ verdict = "ok") =>
        /\ bytes.format = "png" /\ bytes.layout \in ColorSpaces /\ bytes.stream = "sound"
        /\ bytes.width >= MIN_DIMENSION /\ bytes.height >= MIN_DIMENSION
        /\ bytes.width * bytes.height <= MAX_PIXELS
    /\ stage = "returned" /\ verdict = "ok" => ~bytes.grid

\* The probe refuses nothing the loader would take, and gives the reason the
\* loader would give, where the loader's decoder gets as far as the sides: a
\* corrupt file is never reported as one of an absurd size.
ProbeAgrees ==
    stage = "returned" /\ bytes = None /\ Readable(seen) =>
        LET answer == FirstRefusal(<<validate_magic_bytes(seen), decode_png(seen)>>)
        IN  /\ answer # "ok"
            /\ answer = verdict \/ seen.length = "prefix" \/ seen.stream = "bad_header"
=============================================================================
