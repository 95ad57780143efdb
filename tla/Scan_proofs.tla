---------------------------- MODULE Scan_proofs ----------------------------
(***************************************************************************)
(* Theorems about the scan command: the loader it calls, the matcher of    *)
(* patterns, the list it makes, its bar, its warning and its report.  They *)
(* are for every tree, every content of the files in it, every argument,   *)
(* and any number of replacements.                                         *)
(***************************************************************************)
EXTENDS Scan, FiniteSetTheorems, SequenceTheorems, WellFoundedInduction, TLAPS

(***************************************************************************)
(* The gates: the first refusal of a list of answers is the first answer   *)
(* that is not "ok".                                                       *)
(***************************************************************************)

LEMMA FirstIsFound ==
    ASSUME NEW s, DOMAIN s \subseteq Nat,
           NEW k \in DOMAIN s, s[k] # "ok", \A j \in DOMAIN s : s[j] # "ok" => k <= j
    PROVE  FirstRefusal(s) = s[k]
<1> DEFINE refusals == {i \in DOMAIN s : s[i] # "ok"}
           first == CHOOSE i \in refusals : \A j \in refusals : i <= j
<1>1. k \in refusals /\ refusals \subseteq Nat /\ \A j \in refusals : k <= j
  OBVIOUS
<1>2. FirstRefusal(s) = IF refusals = {} THEN "ok" ELSE s[first]
  BY DEF FirstRefusal
<1>3. first = k
  <2>1. first \in refusals /\ first <= k
    <3> HIDE DEF refusals
    <3> QED BY <1>1
  <2> QED BY <1>1, <2>1
<1> QED BY <1>1, <1>2, <1>3

LEMMA NothingRefused ==
    ASSUME NEW s, \A i \in DOMAIN s : s[i] = "ok"
    PROVE  FirstRefusal(s) = "ok"
BY DEF FirstRefusal

LEMMA FirstOfTwo ==
    ASSUME NEW a, NEW b
    PROVE  FirstRefusal(<<a, b>>) = IF a # "ok" THEN a ELSE b
<1> DEFINE s == <<a, b>>
<1>1. DOMAIN s = {1, 2} /\ s[1] = a /\ s[2] = b
  OBVIOUS
<1> HIDE DEF s
<1>2. a # "ok" => FirstRefusal(s) = a
  <2> SUFFICES ASSUME a # "ok" PROVE FirstRefusal(s) = a
    OBVIOUS
  <2>1. 1 \in DOMAIN s /\ \A j \in DOMAIN s : s[j] # "ok" => 1 <= j
    BY <1>1
  <2> QED BY <1>1, <2>1, FirstIsFound
<1>3. a = "ok" /\ b # "ok" => FirstRefusal(s) = b
  <2> SUFFICES ASSUME a = "ok" /\ b # "ok" PROVE FirstRefusal(s) = b
    OBVIOUS
  <2>1. 2 \in DOMAIN s /\ \A j \in DOMAIN s : s[j] # "ok" => 2 <= j
    BY <1>1
  <2> QED BY <1>1, <2>1, FirstIsFound
<1>4. a = "ok" /\ b = "ok" => FirstRefusal(s) = "ok"
  BY <1>1, NothingRefused
<1>5. FirstRefusal(s) = IF a # "ok" THEN a ELSE b
  BY <1>2, <1>3, <1>4
<1> QED BY <1>5 DEF s

LEMMA FirstOfFour ==
    ASSUME NEW a, NEW b, NEW c, NEW d
    PROVE  FirstRefusal(<<a, b, c, d>>) =
               IF a # "ok" THEN a ELSE IF b # "ok" THEN b ELSE IF c # "ok" THEN c ELSE d
<1> DEFINE s == <<a, b, c, d>>
<1>1. DOMAIN s = {1, 2, 3, 4} /\ s[1] = a /\ s[2] = b /\ s[3] = c /\ s[4] = d
  OBVIOUS
<1> HIDE DEF s
<1>2. a # "ok" => FirstRefusal(s) = a
  <2> SUFFICES ASSUME a # "ok" PROVE FirstRefusal(s) = a
    OBVIOUS
  <2>1. 1 \in DOMAIN s /\ \A j \in DOMAIN s : s[j] # "ok" => 1 <= j
    BY <1>1
  <2> QED BY <1>1, <2>1, FirstIsFound
<1>3. a = "ok" /\ b # "ok" => FirstRefusal(s) = b
  <2> SUFFICES ASSUME a = "ok" /\ b # "ok" PROVE FirstRefusal(s) = b
    OBVIOUS
  <2>1. 2 \in DOMAIN s /\ \A j \in DOMAIN s : s[j] # "ok" => 2 <= j
    BY <1>1
  <2> QED BY <1>1, <2>1, FirstIsFound
<1>4. a = "ok" /\ b = "ok" /\ c # "ok" => FirstRefusal(s) = c
  <2> SUFFICES ASSUME a = "ok" /\ b = "ok" /\ c # "ok" PROVE FirstRefusal(s) = c
    OBVIOUS
  <2>1. 3 \in DOMAIN s /\ \A j \in DOMAIN s : s[j] # "ok" => 3 <= j
    BY <1>1
  <2> QED BY <1>1, <2>1, FirstIsFound
<1>5. a = "ok" /\ b = "ok" /\ c = "ok" /\ d # "ok" => FirstRefusal(s) = d
  <2> SUFFICES ASSUME a = "ok" /\ b = "ok" /\ c = "ok" /\ d # "ok" PROVE FirstRefusal(s) = d
    OBVIOUS
  <2>1. 4 \in DOMAIN s /\ \A j \in DOMAIN s : s[j] # "ok" => 4 <= j
    BY <1>1
  <2> QED BY <1>1, <2>1, FirstIsFound
<1>6. a = "ok" /\ b = "ok" /\ c = "ok" /\ d = "ok" => FirstRefusal(s) = "ok"
  BY <1>1, NothingRefused
<1>7. FirstRefusal(s) = IF a # "ok" THEN a ELSE IF b # "ok" THEN b ELSE IF c # "ok" THEN c ELSE d
  BY <1>2, <1>3, <1>4, <1>5, <1>6
<1> QED BY <1>7 DEF s

\* What has passed a gate.
LEMMA MagicPassed ==
    ASSUME NEW p \in Pictures
    PROVE  validate_magic_bytes(p) = "ok" <=> p.length # "short" /\ p.format = "png"
<1>1. validate_magic_bytes(p) =
        IF Answer(p.length = "short", "NotPng") # "ok" THEN Answer(p.length = "short", "NotPng")
        ELSE IF Answer(p.format = "jpeg", "JpegDetected") # "ok" THEN Answer(p.format = "jpeg", "JpegDetected")
        ELSE IF Answer(p.format = "webp", "WebpDetected") # "ok" THEN Answer(p.format = "webp", "WebpDetected")
        ELSE Answer(p.format # "png", "NotPng")
  BY FirstOfFour DEF validate_magic_bytes
<1> QED BY <1>1 DEF Answer

LEMMA DimensionsPassed ==
    ASSUME NEW p \in Pictures
    PROVE  check_dimensions(p) = "ok"
             <=> /\ p.width >= MIN_DIMENSION /\ p.height >= MIN_DIMENSION
                 /\ p.width * p.height <= MAX_PIXELS
<1>1. p.width \in Nat /\ p.height \in Nat /\ p.width * p.height < Word
  BY IntakeAssumption DEF PictureShape
<1>2. check_dimensions(p) =
        IF Answer(p.width < MIN_DIMENSION \/ p.height < MIN_DIMENSION, "ImageTooSmall") # "ok"
        THEN Answer(p.width < MIN_DIMENSION \/ p.height < MIN_DIMENSION, "ImageTooSmall")
        ELSE Answer(pixel_count(p) > MAX_PIXELS, "ImageTooLarge")
  BY FirstOfTwo DEF check_dimensions
<1>3. pixel_count(p) = p.width * p.height
  BY <1>1, IntakeAssumption DEF pixel_count
<1> QED BY <1>1, <1>2, <1>3, IntakeAssumption DEF Answer

LEMMA ProbeAnswers ==
    ASSUME NEW p, Readable(p)
    PROVE  probe_geometry(p) =
             IF validate_magic_bytes(p) # "ok" THEN validate_magic_bytes(p)
             ELSE IF p.length # "long" THEN "NotPng"
             ELSE IF ~p.ihdr THEN "DecodingError"
             ELSE check_dimensions(p)
<1> DEFINE b == Answer(p.length # "long", "NotPng")
           c == Answer(~p.ihdr, "DecodingError")
<1>1. probe_geometry(p) =
        IF validate_magic_bytes(p) # "ok" THEN validate_magic_bytes(p)
        ELSE IF b # "ok" THEN b ELSE IF c # "ok" THEN c ELSE check_dimensions(p)
  BY FirstOfFour DEF probe_geometry
<1> QED BY <1>1 DEF Answer

LEMMA DecoderAnswers ==
    ASSUME NEW p
    PROVE  decode_png(p) =
             IF p.length # "long" \/ ~p.ihdr \/ p.stream = "bad_header" THEN "DecodingError"
             ELSE IF check_dimensions(p) # "ok" THEN check_dimensions(p)
             ELSE IF p.layout \notin ColorSpaces THEN "UnsupportedColorSpace"
             ELSE IF p.stream = "bad_pixels" THEN "DecodingError" ELSE "ok"
<1> DEFINE b == Answer(p.layout \notin ColorSpaces, "UnsupportedColorSpace")
           c == Answer(p.stream = "bad_pixels", "DecodingError")
<1>1. decode_png(p) =
        IF decode_header(p) # "ok" THEN decode_header(p)
        ELSE IF check_dimensions(p) # "ok" THEN check_dimensions(p) ELSE IF b # "ok" THEN b ELSE c
  BY FirstOfFour DEF decode_png
<1> QED BY <1>1 DEF Answer, decode_header

\* What load_and_validate asks of the bytes it has read.
Gates(p) == FirstRefusal(<<validate_magic_bytes(p), decode_png(p)>>)

LEMMA GateAnswers ==
    ASSUME NEW p
    PROVE  Gates(p) = IF validate_magic_bytes(p) # "ok" THEN validate_magic_bytes(p)
                      ELSE decode_png(p)
BY FirstOfTwo DEF Gates

LEMMA GatesPassed ==
    ASSUME NEW p \in Pictures, Gates(p) = "ok"
    PROVE  /\ p.format = "png" /\ p.layout \in ColorSpaces /\ p.stream = "sound"
           /\ p.width >= MIN_DIMENSION /\ p.height >= MIN_DIMENSION
           /\ p.width * p.height <= MAX_PIXELS
<1>1. validate_magic_bytes(p) = "ok" /\ decode_png(p) = "ok"
  BY GateAnswers
<1>2. /\ p.stream # "bad_header" /\ p.stream # "bad_pixels" /\ p.layout \in ColorSpaces
      /\ check_dimensions(p) = "ok"
  BY <1>1, DecoderAnswers
<1>3. p.stream = "sound"
  BY <1>2, IntakeAssumption DEF PictureShape
<1> QED BY <1>1, <1>2, <1>3, MagicPassed, DimensionsPassed

\* A file the probe refuses is one the loader would refuse, for that reason
\* unless the decoder does not get as far as the sides.
LEMMA ProbeIsOnTheWay ==
    ASSUME NEW p \in Pictures, probe_geometry(p) # "ok"
    PROVE  /\ Gates(p) # "ok"
           /\ Gates(p) = probe_geometry(p) \/ p.length = "prefix" \/ p.stream = "bad_header"
<1>1. Readable(p) /\ p.length \in {"short", "prefix", "long"}
  BY IntakeAssumption DEF PictureShape, Readable, Missing, Unreadable
<1>2. CASE validate_magic_bytes(p) # "ok"
  BY <1>1, <1>2, GateAnswers, ProbeAnswers
<1>3. CASE validate_magic_bytes(p) = "ok"
  <2>1. Gates(p) = decode_png(p) /\ p.length # "short"
    BY <1>3, GateAnswers, MagicPassed
  <2> QED BY <1>1, <1>3, <2>1, ProbeAnswers, DecoderAnswers
<1> QED BY <1>2, <1>3

(***************************************************************************)
(* The loader.  Until the file is read there are no bytes; the bytes then  *)
(* are a picture, and stay what they are; past the decoder they have       *)
(* passed its gates.  A call that ends without bytes ended at the probe.   *)
(***************************************************************************)
Held == Pictures \cup {Missing, Unreadable}

Loader ==
    /\ disk \in [Paths -> Held]
    /\ stage \in {"idle", "probe", "read", "decode", "screen", "returned"}
    /\ stage \in {"idle", "probe", "read"} => bytes = None
    /\ stage # "idle" => loading \in Paths
    /\ stage \in {"probe", "read", "decode", "screen"} => verdict = "pending"
    /\ stage \in {"decode", "screen"} => bytes \in Pictures
    /\ stage = "screen" => Gates(bytes) = "ok"
    /\ stage = "returned" /\ verdict = "ok" =>
        bytes \in Pictures /\ Gates(bytes) = "ok" /\ ~bytes.grid
    /\ stage = "returned" /\ bytes = None =>
        seen \in Held /\ verdict = probe_geometry(seen) /\ verdict # "ok"

LEMMA HeldDiffers ==
    /\ None \notin Held
    /\ \A p \in Held : Readable(p) => p \in Pictures
<1>1. \A p \in Pictures : p.length \in {"short", "prefix", "long"}
  BY IntakeAssumption DEF PictureShape
<1>2. None.length = "none" /\ Missing.length = "missing" /\ Unreadable.length = "unreadable"
  BY DEF None, Missing, Unreadable
<1> QED BY <1>1, <1>2 DEF Held, Readable

LEMMA LoaderInit == Init => Loader
<1> SUFFICES ASSUME Init PROVE Loader
  OBVIOUS
<1>1. disk \in [Paths -> Held]
  BY ScanAssumption DEF Init, Held
<1> QED BY <1>1 DEF Init, IntakeInit, Loader

LEMMA LoaderSteps ==
    ASSUME Loader, IntakeStep
    PROVE  Loader'
<1> USE DEF Loader
<1>1. UNCHANGED disk
  BY DEF IntakeStep
<1>2. CASE Probe
  <2>1. disk[loading] \in Held
    BY <1>2 DEF Probe
  <2> QED BY <1>1, <1>2, <2>1 DEF Probe, Goes
<1>3. CASE ReadFile
  <2>1. bytes' \in Held /\ bytes' # None
    BY <1>3, HeldDiffers DEF ReadFile
  <2>2. CASE Readable(disk[loading])
    <3>1. stage' = "decode" /\ bytes' \in Pictures
      BY <1>3, <2>1, <2>2, HeldDiffers DEF ReadFile, Goes, Answer
    <3> QED BY <1>1, <1>3, <3>1 DEF ReadFile, Goes, Answer
  <2>3. CASE ~Readable(disk[loading])
    <3>1. stage' = "returned" /\ verdict' = "IoError"
      BY <1>3, <2>3 DEF ReadFile, Goes, Answer
    <3> QED BY <1>1, <1>3, <2>1, <3>1 DEF ReadFile
  <2> QED BY <2>2, <2>3
<1>4. CASE Decode
  <2>1. bytes \in Pictures /\ bytes # None /\ bytes' = bytes
    BY <1>4, HeldDiffers DEF Decode, Held
  <2>2. Goes(Gates(bytes), "screen")
    BY <1>4 DEF Decode, Gates
  <2>3. CASE Gates(bytes) = "ok"
    BY <1>1, <1>4, <2>1, <2>2, <2>3 DEF Decode, Goes
  <2>4. CASE Gates(bytes) # "ok"
    BY <1>1, <1>4, <2>1, <2>2, <2>4 DEF Decode, Goes
  <2> QED BY <2>3, <2>4
<1>5. CASE Screen
  <2>1. bytes \in Pictures /\ bytes # None /\ bytes' = bytes
    BY <1>5, HeldDiffers DEF Screen, Held
  <2>2. verdict' = "ok" => ~bytes.grid
    BY <1>5 DEF Screen, Answer
  <2> QED BY <1>1, <1>5, <2>1, <2>2 DEF Screen
<1> QED BY <1>2, <1>3, <1>4, <1>5 DEF IntakeStep

LEMMA LoaderAnyStep ==
    ASSUME Loader, [Next]_vars
    PROVE  Loader'
<1>1. CASE LoadStep
  BY <1>1, LoaderSteps DEF LoadStep
<1>2. CASE BeginExamine
  <2>1. Current \in Paths
    BY <1>2, ScanAssumption DEF BeginExamine
  <2> QED BY <1>2, <2>1 DEF Loader, BeginExamine, Load
<1>3. CASE EndExamine
  BY <1>3 DEF Loader, EndExamine, Unload
<1>4. CASE Elsewhere
  <2>1. PICK path \in Paths, p \in Held : disk' = [disk EXCEPT ![path] = p]
    BY <1>4 DEF Elsewhere, OthersReplace, Held
  <2>2. disk' \in [Paths -> Held]
    BY <2>1 DEF Loader
  <2> QED BY <1>4, <2>2 DEF Loader, Elsewhere, intakeVars
<1>5. CASE CollectFiles \/ ProbeNext \/ StartBar \/ ExamineOther \/ Report \/ Finished \/ UNCHANGED vars
  <2>1. UNCHANGED <<disk, intakeVars>>
    BY <1>5 DEF CollectFiles, ProbeNext, StartBar, ExamineOther, Report, Finished, vars
  <2> QED BY <2>1 DEF Loader, intakeVars
<1> QED BY <1>1, <1>2, <1>3, <1>4, <1>5 DEF Next

LEMMA LoaderAlways == Spec => []Loader
<1>1. Init => Loader
  BY LoaderInit
<1>2. Loader /\ [Next]_vars => Loader'
  BY LoaderAnyStep
<1> QED BY <1>1, <1>2, PTL DEF Spec

\* Whatever other programs make of the files, also between the probe and the
\* reading, the bytes that are expanded in memory and those that are accepted
\* are a PNG within both limits, and the product of its sides did not wrap.
THEOREM NothingUnfitLoaded == Spec => []OnlyFitImages
<1>1. Loader => OnlyFitImages
  BY GatesPassed DEF Loader, OnlyFitImages
<1> QED BY <1>1, LoaderAlways, PTL

\* The probe never refuses what the loader would have taken, and its reason is
\* the loader's, up to a file cut short and a header the decoder rejects.
THEOREM ProbeIsHonest == Spec => []ProbeAgrees
<1>1. Loader => ProbeAgrees
  <2> SUFFICES ASSUME Loader, stage = "returned", bytes = None, Readable(seen)
               PROVE  /\ Gates(seen) # "ok"
                      /\ Gates(seen) = verdict \/ seen.length = "prefix" \/ seen.stream = "bad_header"
    BY DEF ProbeAgrees, Gates
  <2> QED BY HeldDiffers, ProbeIsOnTheWay DEF Loader
<1> QED BY <1>1, LoaderAlways, PTL

(***************************************************************************)
(* The work of a list.  A set of numbers that is not empty has a least     *)
(* element, so what holds of 0 and passes from n to n + 1 holds of all;    *)
(* that is how the recursive sum is known to exist, and to grow.           *)
(***************************************************************************)
LEMMA NatMin ==
    ASSUME NEW T, T \subseteq Nat, T # {}
    PROVE  \E x \in T : \A y \in T : x <= y
<1> DEFINE R == {ss \in Nat \X Nat : ss[1] < ss[2]}
<1>1. IsWellFoundedOn(R, Nat)
  BY NatLessThanWellFounded DEF OpToRel
<1>2. \E x \in T : \A y \in T : <<y, x>> \notin R
  <2> HIDE DEF R
  <2> QED BY <1>1, WFMin
<1>3. \A x, y \in Nat : <<y, x>> \notin R => x <= y
  <2> SUFFICES ASSUME NEW x \in Nat, NEW y \in Nat, ~(x <= y) PROVE <<y, x>> \in R
    OBVIOUS
  <2>1. y < x
    OBVIOUS
  <2> QED BY <2>1
<1> HIDE DEF R
<1> QED BY <1>2, <1>3

LEMMA NatInd ==
    ASSUME NEW S, 0 \in S, \A n \in Nat : n \in S => n + 1 \in S
    PROVE  Nat \subseteq S
<1> DEFINE T == {n \in Nat : n \notin S}
<1> SUFFICES ASSUME T # {} PROVE FALSE
  OBVIOUS
<1>1. PICK x \in T : \A y \in T : x <= y
  <2>1. T \subseteq Nat
    OBVIOUS
  <2> HIDE DEF T
  <2> QED BY <2>1, NatMin
<1>2. x # 0 /\ x \in Nat
  OBVIOUS
<1>3. x - 1 \in Nat /\ x - 1 \notin T
  BY <1>1, <1>2
<1> QED BY <1>2, <1>3

Pixels == Nat \cup {NoPixels}

\* What the sum is, up to the n-th member.
Sums(f, list, n) == f = [k \in 0 .. n |-> IF k = 0 THEN 0 ELSE f[k - 1] + Work(list[k])]

LEMMA SumExists ==
    ASSUME NEW list, NEW n \in Nat
    PROVE  \E f : Sums(f, list, n)
<1> DEFINE S == {m \in Nat : \E f : Sums(f, list, m)}
<1>1. 0 \in S
  <2> DEFINE f == [k \in 0 .. 0 |-> 0]
  <2>1. Sums(f, list, 0)
    BY DEF Sums
  <2> QED BY <2>1
<1>2. ASSUME NEW m \in Nat, m \in S
      PROVE  m + 1 \in S
  <2>1. PICK f : Sums(f, list, m)
    BY <1>2
  <2> DEFINE g == [k \in 0 .. m + 1 |-> IF k <= m THEN f[k] ELSE f[m] + Work(list[m + 1])]
  <2>2. \A k \in 0 .. m : f[k] = IF k = 0 THEN 0 ELSE f[k - 1] + Work(list[k])
    BY <2>1 DEF Sums
  <2>3. \A k \in 0 .. m + 1 : g[k] = IF k = 0 THEN 0 ELSE g[k - 1] + Work(list[k])
    <3> SUFFICES ASSUME NEW k \in 0 .. m + 1
                 PROVE  g[k] = IF k = 0 THEN 0 ELSE g[k - 1] + Work(list[k])
      OBVIOUS
    <3>1. CASE k = 0
      BY <2>2, <3>1
    <3>2. CASE k # 0 /\ k <= m
      <4>1. k - 1 \in 0 .. m /\ k \in 0 .. m
        BY <3>2
      <4> QED BY <2>2, <3>2, <4>1
    <3>3. CASE k = m + 1
      <4>1. k - 1 = m /\ m \in 0 .. m + 1 /\ k # 0 /\ ~(k <= m)
        BY <3>3
      <4> QED BY <3>3, <4>1
    <3> QED BY <3>1, <3>2, <3>3
  <2>4. Sums(g, list, m + 1)
    <3>1. g = [k \in 0 .. m + 1 |-> g[k]]
      OBVIOUS
    <3> HIDE DEF g
    <3> QED BY <2>3, <3>1 DEF Sums
  <2> HIDE DEF g
  <2> QED BY <2>4
<1>3. Nat \subseteq S
  <2> HIDE DEF S
  <2> QED BY <1>1, <1>2, NatInd
<1> QED BY <1>3

LEMMA WorkDefined ==
    ASSUME NEW list \in Seq(Pixels)
    PROVE  /\ DOMAIN WorkUpTo(list) = 0 .. Len(list)
           /\ WorkUpTo(list)[0] = 0
           /\ \A k \in 1 .. Len(list) : WorkUpTo(list)[k] = WorkUpTo(list)[k - 1] + Work(list[k])
<1> DEFINE f == WorkUpTo(list)
<1>1. Len(list) \in Nat
  OBVIOUS
<1>2. f = CHOOSE g : Sums(g, list, Len(list))
  BY DEF WorkUpTo, Sums
<1>3. Sums(f, list, Len(list))
  <2> HIDE DEF f
  <2> QED BY <1>1, <1>2, SumExists
<1> HIDE DEF f
<1>4. DOMAIN f = 0 .. Len(list) /\ \A k \in 0 .. Len(list) : f[k] = IF k = 0 THEN 0 ELSE f[k - 1] + Work(list[k])
  BY <1>3 DEF Sums
<1>5. DOMAIN f = 0 .. Len(list) /\ f[0] = 0 /\ \A k \in 1 .. Len(list) : f[k] = f[k - 1] + Work(list[k])
  BY <1>1, <1>4
<1> QED BY <1>5 DEF f

LEMMA WorkIsNat ==
    ASSUME NEW pixels \in Pixels
    PROVE  Work(pixels) \in Nat
BY ScanAssumption DEF Work, megapixels, Pixels, NoPixels

LEMMA WorkGrows ==
    ASSUME NEW list \in Seq(Pixels), NEW n \in 0 .. Len(list)
    PROVE  /\ WorkUpTo(list)[n] \in Nat
           /\ WorkUpTo(list)[n] <= TotalWork(list)
<1> DEFINE L == Len(list)
           f == WorkUpTo(list)
           typed(k) == k <= L => f[k] \in Nat
           below(k) == k <= L => f[L - k] <= f[L]
           S == {k \in Nat : typed(k)}
           D == {k \in Nat : below(k)}
<1>1. L \in Nat /\ f[0] = 0
      /\ \A k \in 1 .. L : f[k] = f[k - 1] + Work(list[k]) /\ Work(list[k]) \in Nat
  <2>1. \A k \in 1 .. L : list[k] \in Pixels
    OBVIOUS
  <2> QED BY <2>1, WorkDefined, WorkIsNat
<1> HIDE DEF f
<1>2. Nat \subseteq S
  <2>1. 0 \in S
    BY <1>1
  <2>2. ASSUME NEW k \in Nat, k \in S PROVE k + 1 \in S
    <3>1. CASE k + 1 <= L
      <4>1. k + 1 \in 1 .. L /\ f[k] \in Nat /\ (k + 1) - 1 = k
        BY <1>1, <2>2, <3>1
      <4>2. f[k + 1] = f[k] + Work(list[k + 1]) /\ Work(list[k + 1]) \in Nat
        BY <1>1, <4>1
      <4> QED BY <4>1, <4>2
    <3>2. CASE ~(k + 1 <= L)
      BY <3>2
    <3> QED BY <3>1, <3>2
  <2> HIDE DEF S
  <2> QED BY <2>1, <2>2, NatInd
<1>3. \A k \in 0 .. L : f[k] \in Nat
  BY <1>1, <1>2
<1>4. Nat \subseteq D
  <2>1. 0 \in D
    BY <1>1, <1>3
  <2>2. ASSUME NEW k \in Nat, k \in D PROVE k + 1 \in D
    <3>1. CASE k + 1 <= L
      <4> DEFINE j == L - k
      <4>1. j \in 1 .. L /\ j - 1 = L - (k + 1) /\ f[j] <= f[L]
        BY <1>1, <2>2, <3>1
      <4>2. f[j] = f[j - 1] + Work(list[j]) /\ Work(list[j]) \in Nat /\ f[j - 1] \in Nat /\ f[L] \in Nat
        BY <1>1, <1>3, <4>1
      <4>3. f[j - 1] <= f[L]
        <5> HIDE DEF j
        <5> QED BY <1>1, <4>1, <4>2
      <4>4. f[L - (k + 1)] <= f[L]
        BY <4>1, <4>3
      <4> QED BY <4>4
    <3>2. CASE ~(k + 1 <= L)
      BY <3>2
    <3> QED BY <3>1, <3>2
  <2> HIDE DEF D
  <2> QED BY <2>1, <2>2, NatInd
<1>5. f[n] <= f[L]
  <2>1. L - n \in D /\ L - n <= L /\ L - (L - n) = n
    BY <1>1, <1>4
  <2> QED BY <2>1
<1> QED BY <1>3, <1>5 DEF TotalWork, f

(***************************************************************************)
(* The bar.  The sizes are measured once, before it is drawn, and stay; a  *)
(* file that is not opened was measured as nothing.  So while the files    *)
(* are examined the bar stands where the work of those behind it ends.     *)
(***************************************************************************)
Measured ==
    /\ sizes \in Seq(Pixels)
    /\ \A i \in 1 .. Len(sizes) : found[i] \notin Pngs => sizes[i] = NoPixels

InStep ==
    /\ \E S : entries \in Seq(S)
    /\ pc \in {"collect", "probe"} => entries = <<>>
    /\ pc = "collect" => sizes = <<>>
    /\ stage # "idle" => pc = "examine" /\ Len(entries) < Len(found)
    /\ pc = "examine" => Len(sizes) = Len(found) /\ Len(entries) <= Len(found)

BarStands ==
    /\ bar \in [length : Nat, done : Nat, detail : Paths \cup {"none"}]
    /\ bar # NoBar =>
        /\ pc = "examine"
        /\ bar.length = IF TotalWork(sizes) = 0 THEN 1 ELSE TotalWork(sizes)
        /\ bar.done = WorkUpTo(sizes)[Len(entries)]

Behind == Loader /\ Measured /\ InStep /\ BarStands

LEMMA AppendAny ==
    ASSUME NEW S, NEW list \in Seq(S), NEW e
    PROVE  (\E T : Append(list, e) \in Seq(T)) /\ Len(Append(list, e)) = Len(list) + 1
<1> DEFINE T == S \cup {e}
<1>1. list \in Seq(T)
  BY SeqMonotonic
<1>2. e \in T
  OBVIOUS
<1> HIDE DEF T
<1> QED BY <1>1, <1>2, AppendProperties

LEMMA CandidateIsPixels ==
    ASSUME Loader, NEW path
    PROVE  /\ candidate_pixels(path) \in Pixels
           /\ path \notin Pngs => candidate_pixels(path) = NoPixels
<1>1. CASE path \in Pngs /\ probe_geometry(disk[path]) = "ok"
  <2>1. disk[path] \in Held
    BY <1>1, ScanAssumption DEF Loader
  <2>2. Readable(disk[path])
    BY <1>1 DEF probe_geometry
  <2>3. disk[path] \in Pictures
    BY <2>1, <2>2, HeldDiffers
  <2>4. pixel_count(disk[path]) \in Nat
    <3> DEFINE p == disk[path]
    <3>1. p.width \in Nat /\ p.height \in Nat /\ p.width * p.height < Word /\ Word \in Nat
      BY <2>3, IntakeAssumption DEF PictureShape
    <3> HIDE DEF p
    <3>2. (p.width * p.height) % Word = p.width * p.height
      BY <3>1
    <3> QED BY <3>1, <3>2 DEF pixel_count, p
  <2> QED BY <1>1, <2>4 DEF candidate_pixels, Pixels
<1>2. CASE ~(path \in Pngs /\ probe_geometry(disk[path]) = "ok")
  BY <1>2 DEF candidate_pixels, Pixels
<1> QED BY <1>1, <1>2

LEMMA BehindInit == Init => Behind
<1> SUFFICES ASSUME Init PROVE Behind
  OBVIOUS
<1>1. sizes = <<>> /\ entries = <<>> /\ bar = NoBar /\ stage = "idle" /\ pc = "collect"
  BY DEF Init, IntakeInit
<1>2. Measured
  BY <1>1 DEF Measured
<1>3. InStep
  BY <1>1 DEF InStep
<1>4. BarStands
  BY <1>1 DEF BarStands, NoBar
<1> QED BY <1>2, <1>3, <1>4, LoaderInit DEF Behind

LEMMA BehindSteps ==
    ASSUME Behind, [Next]_vars
    PROVE  Behind'
<1> USE DEF Behind
<1>0. Loader'
  BY LoaderAnyStep
<1>1. CASE CollectFiles
  <2>1. UNCHANGED <<sizes, entries, bar, stage>> /\ pc = "collect" /\ pc' \in {"probe", "refused"}
    BY <1>1 DEF CollectFiles, Step, intakeVars
  <2>2. sizes = <<>> /\ entries = <<>> /\ stage = "idle" /\ bar = NoBar
    BY <2>1 DEF InStep, BarStands
  <2>3. Measured'
    BY <2>1, <2>2 DEF Measured
  <2>4. InStep'
    BY <2>1, <2>2 DEF InStep
  <2>5. BarStands'
    BY <2>1, <2>2 DEF BarStands, NoBar
  <2> QED BY <1>0, <2>3, <2>4, <2>5
<1>2. CASE ProbeNext
  <2> DEFINE new == candidate_pixels(found[Len(sizes) + 1])
  <2>1. UNCHANGED <<found, entries, bar, stage, pc>> /\ pc = "probe" /\ sizes' = Append(sizes, new)
    BY <1>2 DEF ProbeNext, intakeVars
  <2>2. bar = NoBar
    BY <2>1 DEF BarStands
  <2>3. new \in Pixels /\ (found[Len(sizes) + 1] \notin Pngs => new = NoPixels)
    BY CandidateIsPixels
  <2>4. Measured'
    <3> HIDE DEF new
    <3>1. sizes \in Seq(Pixels) /\ Len(sizes) \in Nat
      BY DEF Measured
    <3>2. /\ sizes' \in Seq(Pixels) /\ Len(sizes') = Len(sizes) + 1
          /\ \A i \in 1 .. Len(sizes) : sizes'[i] = sizes[i]
          /\ sizes'[Len(sizes) + 1] = new
      BY <2>1, <2>3, <3>1, AppendProperties
    <3> QED BY <2>1, <2>3, <3>1, <3>2 DEF Measured
  <2>5. InStep'
    BY <2>1 DEF InStep
  <2>6. BarStands'
    BY <2>1, <2>2 DEF BarStands
  <2> QED BY <1>0, <2>4, <2>5, <2>6
<1>3. CASE StartBar
  <2>1. /\ UNCHANGED <<found, entries, sizes, stage>>
        /\ pc = "probe" /\ pc' = "examine" /\ Len(sizes) = Len(found)
    BY <1>3 DEF StartBar, Step, intakeVars
  <2>2. entries = <<>> /\ stage = "idle" /\ sizes \in Seq(Pixels)
    BY <2>1 DEF InStep, Measured
  <2>3. TotalWork(sizes) \in Nat /\ WorkUpTo(sizes)[0] = 0
    BY <2>2, WorkDefined, WorkGrows DEF TotalWork
  <2>4. Measured'
    BY <2>1 DEF Measured
  <2>5. InStep'
    BY <2>1, <2>2 DEF InStep
  <2>6. BarStands'
    BY <1>3, <2>1, <2>2, <2>3 DEF StartBar, Start, BarStands, NoBar
  <2> QED BY <1>0, <2>4, <2>5, <2>6
<1>4. CASE ExamineOther
  <2>1. /\ UNCHANGED <<found, sizes, bar, stage, pc>> /\ pc = "examine" /\ stage = "idle"
        /\ Len(entries) < Len(found) /\ Current \notin Pngs
        /\ entries' = Append(entries, NewEntry(Current, "UnsupportedFormat", NoSalt))
    BY <1>4 DEF ExamineOther, Examining, intakeVars
  <2>2. (\E S : entries' \in Seq(S)) /\ Len(entries') = Len(entries) + 1 /\ Len(entries) \in Nat
    BY <2>1, AppendAny DEF InStep
  <2>3. /\ Len(sizes) = Len(found) /\ Len(sizes) \in Nat
        /\ Len(entries) + 1 \in 1 .. Len(sizes)
    BY <2>1, <2>2 DEF InStep, Measured
  <2>4. Work(sizes[Len(entries) + 1]) = 0
    BY <2>1, <2>3 DEF Measured, Current, Work
  <2>5. WorkUpTo(sizes)[Len(entries')] = WorkUpTo(sizes)[Len(entries)]
    <3>1. WorkUpTo(sizes)[Len(entries) + 1] =
            WorkUpTo(sizes)[(Len(entries) + 1) - 1] + Work(sizes[Len(entries) + 1])
      BY <2>3, WorkDefined DEF Measured
    <3>2. (Len(entries) + 1) - 1 = Len(entries) /\ Len(entries) \in 0 .. Len(sizes)
      BY <2>2, <2>3
    <3>3. WorkUpTo(sizes)[Len(entries)] \in Nat
      BY <3>2, WorkGrows DEF Measured
    <3> QED BY <2>2, <2>4, <3>1, <3>2, <3>3
  <2>6. Measured'
    BY <2>1 DEF Measured
  <2>7. InStep'
    BY <2>1, <2>2, <2>3 DEF InStep
  <2>8. BarStands'
    BY <2>1, <2>5 DEF BarStands
  <2> QED BY <1>0, <2>6, <2>7, <2>8
<1>5. CASE BeginExamine
  <2>1. /\ UNCHANGED <<found, sizes, entries, pc>> /\ pc = "examine" /\ Len(entries) < Len(found)
        /\ Current \in Paths /\ (bar' = bar \/ SetDetail(Current))
    BY <1>5, ScanAssumption DEF BeginExamine, Examining
  <2>2. Measured'
    BY <2>1 DEF Measured
  <2>3. InStep'
    BY <2>1 DEF InStep
  <2>4. \/ bar' = bar
        \/ bar' = [bar EXCEPT !.detail = Current] /\ bar # NoBar
    BY <2>1 DEF SetDetail, Drawn, NoBar
  <2>5. BarStands'
    BY <2>1, <2>4 DEF BarStands
  <2> QED BY <1>0, <2>2, <2>3, <2>5
<1>6. CASE LoadStep
  <2>1. UNCHANGED <<found, sizes, entries, bar, pc>> /\ stage # "idle"
    BY <1>6 DEF LoadStep, IntakeStep, Probe, ReadFile, Decode, Screen
  <2> QED BY <1>0, <2>1 DEF Measured, InStep, BarStands
<1>7. CASE EndExamine
  <2>1. /\ UNCHANGED <<found, sizes, pc>> /\ pc = "examine" /\ stage' = "idle"
        /\ Len(entries) < Len(found) /\ entries' = Append(entries, Examined)
        /\ CurrentSize = NoPixels => bar' = bar
        /\ CurrentSize # NoPixels => Advance(Work(CurrentSize))
    BY <1>7 DEF EndExamine, Examining, Unload
  <2>2. (\E S : entries' \in Seq(S)) /\ Len(entries') = Len(entries) + 1 /\ Len(entries) \in Nat
    BY <2>1, AppendAny DEF InStep
  <2>3. /\ Len(sizes) = Len(found) /\ Len(sizes) \in Nat
        /\ Len(entries) + 1 \in 1 .. Len(sizes)
    BY <2>1, <2>2 DEF InStep, Measured
  <2>4. Work(CurrentSize) \in Nat
    BY <2>3, WorkIsNat DEF Measured, CurrentSize
  <2>5. /\ WorkUpTo(sizes)[Len(entries')] = WorkUpTo(sizes)[Len(entries)] + Work(CurrentSize)
        /\ WorkUpTo(sizes)[Len(entries)] \in Nat
    <3>1. WorkUpTo(sizes)[Len(entries) + 1] =
            WorkUpTo(sizes)[(Len(entries) + 1) - 1] + Work(CurrentSize)
      BY <2>3, WorkDefined DEF Measured, CurrentSize
    <3>2. (Len(entries) + 1) - 1 = Len(entries) /\ Len(entries) \in 0 .. Len(sizes)
      BY <2>2, <2>3
    <3>3. WorkUpTo(sizes)[Len(entries)] \in Nat
      BY <3>2, WorkGrows DEF Measured
    <3> QED BY <2>2, <3>1, <3>2, <3>3
  <2>6. Measured'
    BY <2>1 DEF Measured
  <2>7. InStep'
    BY <2>1, <2>2, <2>3 DEF InStep
  <2>8. BarStands'
    <3>1. CASE bar = NoBar
      <4>1. bar' = bar
        BY <2>1, <3>1 DEF Advance, Drawn, NoBar
      <4> QED BY <3>1, <4>1 DEF BarStands
    <3>2. CASE bar # NoBar /\ CurrentSize = NoPixels
      <4>1. Work(CurrentSize) = 0
        BY <3>2 DEF Work
      <4> QED BY <2>1, <2>5, <3>2, <4>1 DEF BarStands
    <3>3. CASE bar # NoBar /\ CurrentSize # NoPixels
      <4>1. Drawn /\ bar.done = WorkUpTo(sizes)[Len(entries)]
        BY <2>3, <3>3, WorkGrows DEF BarStands, Measured, Drawn, TotalWork
      <4>2. bar' = [bar EXCEPT !.done = @ + Work(CurrentSize)]
        BY <2>1, <3>3, <4>1 DEF Advance
      <4>3. /\ bar' \in [length : Nat, done : Nat, detail : Paths \cup {"none"}]
            /\ bar'.length = bar.length /\ bar'.done = bar.done + Work(CurrentSize)
        BY <2>4, <4>2 DEF BarStands
      <4> QED BY <2>1, <2>5, <3>3, <4>1, <4>3 DEF BarStands
    <3> QED BY <3>1, <3>2, <3>3
  <2> QED BY <1>0, <2>6, <2>7, <2>8
<1>8. CASE Report
  <2>1. UNCHANGED <<found, sizes, entries, stage>> /\ pc' = "done" /\ bar' = NoBar
        /\ Len(entries) = Len(found) /\ pc = "examine"
    BY <1>8 DEF Report, Step, Finish, intakeVars
  <2>2. stage = "idle"
    <3>1. \A S : entries \in Seq(S) => Len(entries) \in Nat
      OBVIOUS
    <3> QED BY <2>1, <3>1 DEF InStep
  <2>3. Measured' /\ InStep'
    BY <2>1, <2>2 DEF Measured, InStep
  <2>4. BarStands'
    BY <2>1 DEF BarStands, NoBar
  <2> QED BY <1>0, <2>3, <2>4
<1>9. CASE Elsewhere \/ Finished \/ UNCHANGED vars
  <2>1. UNCHANGED <<found, sizes, entries, stage, bar, pc>>
    BY <1>9 DEF Elsewhere, Finished, vars, intakeVars
  <2> QED BY <1>0, <2>1 DEF Measured, InStep, BarStands
<1> QED BY <1>1, <1>2, <1>3, <1>4, <1>5, <1>6, <1>7, <1>8, <1>9 DEF Next

\* However often the files are replaced after they were measured, the bar does
\* not run past its end, and is full when the last file has been examined.
THEOREM BarNeverOverruns == Spec => []BarEndsFull
<1>1. Behind => BarEndsFull
  <2> SUFFICES ASSUME Behind PROVE BarEndsFull
    OBVIOUS
  <2>1. CASE bar = NoBar
    BY <2>1 DEF BarEndsFull, Drawn, NoBar
  <2>2. CASE bar # NoBar
    <3>1. /\ sizes \in Seq(Pixels) /\ Len(entries) \in 0 .. Len(sizes) /\ Len(sizes) = Len(found)
          /\ bar.length = IF TotalWork(sizes) = 0 THEN 1 ELSE TotalWork(sizes)
          /\ bar.done = WorkUpTo(sizes)[Len(entries)]
      <4>1. Len(entries) \in Nat
        BY DEF Behind, InStep
      <4> QED BY <2>2, <4>1 DEF Behind, Measured, InStep, BarStands
    <3>2. bar.done \in Nat /\ bar.done <= TotalWork(sizes) /\ TotalWork(sizes) \in Nat
      <4>1. Len(sizes) \in 0 .. Len(sizes)
        BY <3>1
      <4> QED BY <3>1, <4>1, WorkGrows DEF TotalWork
    <3>3. Len(entries) = Len(found) => bar.done = TotalWork(sizes)
      BY <3>1 DEF TotalWork
    <3> QED BY <3>1, <3>2, <3>3 DEF BarEndsFull
  <2> QED BY <2>1, <2>2
<1>2. Init => Behind
  BY BehindInit
<1>3. Behind /\ [Next]_vars => Behind'
  BY BehindSteps
<1> QED BY <1>1, <1>2, <1>3, PTL DEF Spec

(***************************************************************************)
(* Kept: what is at some positions of a list.                              *)
(***************************************************************************)
KeepsUpTo(f, list, positions, n) ==
    f = [k \in 0 .. n |-> IF k = 0 THEN <<>>
                          ELSE IF k \in positions THEN Append(f[k - 1], list[k]) ELSE f[k - 1]]

LEMMA KeepsExists ==
    ASSUME NEW list, NEW positions, NEW n \in Nat
    PROVE  \E f : KeepsUpTo(f, list, positions, n)
<1> DEFINE Longer(s, k) == IF k \in positions THEN Append(s, list[k]) ELSE s
           S == {m \in Nat : \E f : KeepsUpTo(f, list, positions, m)}
<1>1. 0 \in S
  <2> DEFINE f == [k \in 0 .. 0 |-> <<>>]
  <2>1. KeepsUpTo(f, list, positions, 0)
    BY DEF KeepsUpTo
  <2> QED BY <2>1
<1>2. ASSUME NEW m \in Nat, m \in S
      PROVE  m + 1 \in S
  <2>1. PICK f : KeepsUpTo(f, list, positions, m)
    BY <1>2
  <2> DEFINE g == [k \in 0 .. m + 1 |-> IF k <= m THEN f[k] ELSE Longer(f[m], m + 1)]
  <2>2. \A k \in 0 .. m : f[k] = IF k = 0 THEN <<>> ELSE Longer(f[k - 1], k)
    BY <2>1 DEF KeepsUpTo
  <2>3. \A k \in 0 .. m + 1 : g[k] = IF k = 0 THEN <<>> ELSE Longer(g[k - 1], k)
    <3> HIDE DEF Longer
    <3> SUFFICES ASSUME NEW k \in 0 .. m + 1
                 PROVE  g[k] = IF k = 0 THEN <<>> ELSE Longer(g[k - 1], k)
      OBVIOUS
    <3>1. CASE k = 0
      BY <2>2, <3>1
    <3>2. CASE k # 0 /\ k <= m
      <4>1. k - 1 \in 0 .. m /\ k \in 0 .. m
        BY <3>2
      <4> QED BY <2>2, <3>2, <4>1
    <3>3. CASE k = m + 1
      <4>1. k - 1 = m /\ m \in 0 .. m + 1 /\ k # 0 /\ ~(k <= m)
        BY <3>3
      <4> QED BY <3>3, <4>1
    <3> QED BY <3>1, <3>2, <3>3
  <2>4. KeepsUpTo(g, list, positions, m + 1)
    <3>1. g = [k \in 0 .. m + 1 |-> g[k]]
      OBVIOUS
    <3> HIDE DEF g
    <3> QED BY <2>3, <3>1 DEF KeepsUpTo
  <2> HIDE DEF g
  <2> QED BY <2>4
<1>3. Nat \subseteq S
  <2> HIDE DEF S
  <2> QED BY <1>1, <1>2, NatInd
<1> QED BY <1>3

LEMMA KeptRuns ==
    ASSUME NEW list, NEW positions, Len(list) \in Nat
    PROVE  \E f : /\ KeepsUpTo(f, list, positions, Len(list))
                  /\ Kept(list, positions) = f[Len(list)]
<1> DEFINE f == CHOOSE g : KeepsUpTo(g, list, positions, Len(list))
<1>1. Kept(list, positions) = f[Len(list)]
  BY DEF Kept, KeepsUpTo
<1>2. KeepsUpTo(f, list, positions, Len(list))
  <2> HIDE DEF f
  <2> QED BY KeepsExists DEF f
<1> HIDE DEF f
<1> QED BY <1>1, <1>2

\* kept is list at the places w, one after the other, which are all of ks.
Places(w, kept, list, ks) ==
    /\ w \in [1 .. Len(kept) -> ks]
    /\ \A i, j \in 1 .. Len(kept) : i < j => w[i] < w[j]
    /\ \A i \in 1 .. Len(kept) : kept[i] = list[w[i]]
    /\ \A k \in ks : \E i \in 1 .. Len(kept) : w[i] = k

LEMMA PlacesAppend ==
    ASSUME NEW S, NEW list \in Seq(S), NEW ks, NEW m \in Nat, ks \subseteq 1 .. m,
           m + 1 \in 1 .. Len(list), NEW kept \in Seq(S), NEW w, Places(w, kept, list, ks)
    PROVE  \E v : Places(v, Append(kept, list[m + 1]), list, ks \cup {m + 1})
<1> DEFINE L == Len(kept)
           more == Append(kept, list[m + 1])
           v == [i \in 1 .. L + 1 |-> IF i <= L THEN w[i] ELSE m + 1]
           new == ks \cup {m + 1}
<1>1. L \in Nat /\ list[m + 1] \in S
  OBVIOUS
<1> HIDE DEF L
<1>2. Len(more) = L + 1 /\ more[L + 1] = list[m + 1] /\ \A i \in 1 .. L : more[i] = kept[i]
  BY <1>1, AppendProperties DEF L
<1>3. /\ w \in [1 .. L -> ks]
      /\ \A i, j \in 1 .. L : i < j => w[i] < w[j]
      /\ \A i \in 1 .. L : kept[i] = list[w[i]]
      /\ \A k \in ks : \E i \in 1 .. L : w[i] = k
  BY DEF Places, L
<1>4. (\A i \in 1 .. L : v[i] = w[i] /\ i \in 1 .. L + 1) /\ v[L + 1] = m + 1
  BY <1>1
<1>5. v \in [1 .. L + 1 -> new]
  BY <1>1, <1>3
<1>6. \A i, j \in 1 .. L + 1 : i < j => v[i] < v[j]
  <2> SUFFICES ASSUME NEW i \in 1 .. L + 1, NEW j \in 1 .. L + 1, i < j PROVE v[i] < v[j]
    OBVIOUS
  <2>0. i \in 1 .. L
    BY <1>1
  <2>1. i \in 1 .. L /\ w[i] \in 1 .. m
    BY <1>3, <2>0
  <2>2. CASE j \in 1 .. L
    <3> HIDE DEF v
    <3> QED BY <1>3, <1>4, <2>1, <2>2
  <2>3. CASE j = L + 1
    <3>1. v[i] = w[i] /\ v[j] = m + 1
      BY <1>4, <2>1, <2>3
    <3> QED BY <2>1, <3>1
  <2> QED BY <1>1, <2>2, <2>3
<1>7. \A i \in 1 .. L + 1 : more[i] = list[v[i]]
  <2> SUFFICES ASSUME NEW i \in 1 .. L + 1 PROVE more[i] = list[v[i]]
    OBVIOUS
  <2>1. i \in 1 .. L \/ i = L + 1
    BY <1>1
  <2> HIDE DEF v, more
  <2> QED BY <1>2, <1>3, <1>4, <2>1
<1>8. \A k \in new : \E i \in 1 .. L + 1 : v[i] = k
  <2> SUFFICES ASSUME NEW k \in new PROVE \E i \in 1 .. L + 1 : v[i] = k
    OBVIOUS
  <2>1. CASE k \in ks
    <3>1. PICK i \in 1 .. L : w[i] = k
      BY <1>3, <2>1
    <3> QED BY <1>4, <3>1
  <2>2. CASE k = m + 1
    BY <1>1, <1>4, <2>2
  <2> QED BY <2>1, <2>2
<1>9. Places(v, more, list, new)
  <2> HIDE DEF v, new, more
  <2> QED BY <1>2, <1>5, <1>6, <1>7, <1>8 DEF Places
<1> QED BY <1>9

\* What is kept are members of the list, in its order, one for each position.
LEMMA KeptIs ==
    ASSUME NEW S, NEW list \in Seq(S), NEW positions
    PROVE  /\ Kept(list, positions) \in Seq(S)
           /\ \E w : Places(w, Kept(list, positions), list, (1 .. Len(list)) \cap positions)
<1> DEFINE L == Len(list)
           Ks(n) == (1 .. n) \cap positions
<1>0. L \in Nat /\ \A k \in 1 .. L : list[k] \in S
  OBVIOUS
<1> HIDE DEF L
<1>1. PICK f : KeepsUpTo(f, list, positions, L) /\ Kept(list, positions) = f[L]
  BY <1>0, KeptRuns DEF L
<1>2. \A k \in 0 .. L :
        f[k] = IF k = 0 THEN <<>> ELSE IF k \in positions THEN Append(f[k - 1], list[k]) ELSE f[k - 1]
  BY <1>1 DEF KeepsUpTo
<1> DEFINE Good(n) == f[n] \in Seq(S) /\ \E w : Places(w, f[n], list, Ks(n))
           T == {n \in Nat : n <= L => Good(n)}
<1> HIDE DEF Good
<1>3. 0 \in T
  <2>1. f[0] = <<>>
    BY <1>0, <1>2
  <2>2. f[0] \in Seq(S) /\ Len(f[0]) = 0 /\ Ks(0) = {}
    BY <2>1, EmptySeq
  <2>3. Places([i \in 1 .. 0 |-> 0], f[0], list, Ks(0))
    <3> DEFINE v == [i \in 1 .. 0 |-> 0]
               none == Ks(0)
    <3>1. v \in [1 .. 0 -> none] /\ 1 .. 0 = {}
      OBVIOUS
    <3> HIDE DEF v, none
    <3> QED BY <2>2, <3>1 DEF Places, none
  <2> QED BY <2>2, <2>3 DEF Good
<1>4. ASSUME NEW m \in Nat, m \in T PROVE m + 1 \in T
  <2> SUFFICES ASSUME m + 1 <= L PROVE Good(m + 1)
    OBVIOUS
  <2>0. Good(m)
    BY <1>0, <1>4
  <2> USE DEF Good
  <2>1. m + 1 \in 0 .. L /\ m + 1 \in 1 .. L /\ m + 1 # 0 /\ (m + 1) - 1 = m
    BY <1>0, <1>4
  <2>2. f[m + 1] = IF m + 1 \in positions THEN Append(f[m], list[m + 1]) ELSE f[m]
    BY <1>2, <2>0, <2>1
  <2>3. CASE m + 1 \in positions
    <3>1. f[m + 1] = Append(f[m], list[m + 1]) /\ Ks(m + 1) = Ks(m) \cup {m + 1} /\ Ks(m) \subseteq 1 .. m
      BY <2>2, <2>3
    <3>2. f[m + 1] \in Seq(S)
      BY <1>0, <2>0, <2>1, <3>1
    <3>3. PICK w : Places(w, f[m], list, Ks(m))
      BY <2>0, <2>1
    <3>4. \E v : Places(v, Append(f[m], list[m + 1]), list, Ks(m) \cup {m + 1})
      <4> DEFINE ks == Ks(m)
      <4>1. ks \subseteq 1 .. m /\ Places(w, f[m], list, ks) /\ f[m] \in Seq(S)
        BY <2>0, <2>1, <3>1, <3>3
      <4> HIDE DEF ks
      <4>2. \E v : Places(v, Append(f[m], list[m + 1]), list, ks \cup {m + 1})
        BY <2>1, <4>1, PlacesAppend DEF L
      <4> QED BY <4>2 DEF ks
    <3> QED BY <3>1, <3>2, <3>4
  <2>4. CASE m + 1 \notin positions
    <3>1. f[m + 1] = f[m] /\ Ks(m + 1) = Ks(m)
      BY <2>2, <2>4
    <3> QED BY <2>0, <2>1, <3>1
  <2> QED BY <2>3, <2>4
<1>5. Nat \subseteq T
  <2> HIDE DEF T
  <2> QED BY <1>3, <1>4, NatInd
<1>6. Good(L)
  <2>1. L \in T
    BY <1>0, <1>5
  <2> QED BY <1>0, <2>1
<1> QED BY <1>1, <1>6 DEF L, Good

MakeUp(a, b, n) == a + b = n

LEMMA OneMore ==
    ASSUME NEW a \in Nat, NEW b \in Nat, NEW m, MakeUp(a, b, m)
    PROVE  MakeUp(a + 1, b, m + 1) /\ MakeUp(a, b + 1, m + 1)
BY DEF MakeUp

\* Of two complementary sets of positions, what is kept makes up the list.
LEMMA KeptParts ==
    ASSUME NEW S, NEW list \in Seq(S), NEW P, NEW Q, Q = DOMAIN list \ P
    PROVE  Len(Kept(list, P)) + Len(Kept(list, Q)) = Len(list)
<1> DEFINE L == Len(list)
<1>0. L \in Nat /\ \A k \in 1 .. L : list[k] \in S /\ (k \in Q <=> k \notin P)
  OBVIOUS
<1> HIDE DEF L
<1>1. PICK f : KeepsUpTo(f, list, P, L) /\ Kept(list, P) = f[L]
  BY <1>0, KeptRuns DEF L
<1>2. PICK g : KeepsUpTo(g, list, Q, L) /\ Kept(list, Q) = g[L]
  BY <1>0, KeptRuns DEF L
<1>3. \A k \in 0 .. L :
        /\ f[k] = IF k = 0 THEN <<>> ELSE IF k \in P THEN Append(f[k - 1], list[k]) ELSE f[k - 1]
        /\ g[k] = IF k = 0 THEN <<>> ELSE IF k \in Q THEN Append(g[k - 1], list[k]) ELSE g[k - 1]
  BY <1>1, <1>2 DEF KeepsUpTo
<1> DEFINE Good(n) == f[n] \in Seq(S) /\ g[n] \in Seq(S) /\ MakeUp(Len(f[n]), Len(g[n]), n)
           T == {n \in Nat : n <= L => Good(n)}
<1> HIDE DEF Good
<1>4. 0 \in T
  <2>1. f[0] = <<>> /\ g[0] = <<>>
    BY <1>0, <1>3
  <2>2. Good(0)
    BY <2>1, EmptySeq DEF Good, MakeUp
  <2> QED BY <2>2
<1>5. ASSUME NEW m \in Nat, m \in T PROVE m + 1 \in T
  <2> SUFFICES ASSUME m + 1 <= L PROVE Good(m + 1)
    OBVIOUS
  <2>0. Good(m)
    BY <1>0, <1>5
  <2> USE DEF Good
  <2>1. m + 1 \in 0 .. L /\ m + 1 \in 1 .. L /\ m + 1 # 0 /\ (m + 1) - 1 = m
    BY <1>0, <1>5
  <2>2. /\ f[m + 1] = IF m + 1 \in P THEN Append(f[m], list[m + 1]) ELSE f[m]
        /\ g[m + 1] = IF m + 1 \in P THEN g[m] ELSE Append(g[m], list[m + 1])
    BY <1>0, <1>3, <2>0, <2>1
  <2>3. list[m + 1] \in S /\ Len(f[m]) \in Nat /\ Len(g[m]) \in Nat
    BY <1>0, <2>0, <2>1
  <2>6. f[m] \in Seq(S) /\ g[m] \in Seq(S) /\ MakeUp(Len(f[m]), Len(g[m]), m)
    BY <2>0, Zenon
  <2>4. CASE m + 1 \in P
    <3>1. /\ f[m + 1] \in Seq(S) /\ Len(f[m + 1]) = Len(f[m]) + 1
          /\ g[m + 1] = g[m]
      BY <2>4, <2>6, <2>2, <2>3, AppendProperties
    <3>2. MakeUp(Len(f[m + 1]), Len(g[m + 1]), m + 1)
      BY <2>3, <2>6, <3>1, OneMore
    <3> QED BY <2>6, <3>1, <3>2
  <2>5. CASE m + 1 \notin P
    <3>1. /\ g[m + 1] \in Seq(S) /\ Len(g[m + 1]) = Len(g[m]) + 1
          /\ f[m + 1] = f[m]
      BY <2>5, <2>6, <2>2, <2>3, AppendProperties
    <3>2. MakeUp(Len(f[m + 1]), Len(g[m + 1]), m + 1)
      BY <2>3, <2>6, <3>1, OneMore
    <3> QED BY <2>6, <3>1, <3>2
  <2> QED BY <2>4, <2>5
<1>6. Nat \subseteq T
  <2> HIDE DEF T
  <2> QED BY <1>4, <1>5, NatInd
<1>7. Good(L)
  <2>1. L \in T
    BY <1>0, <1>6
  <2> QED BY <1>0, <2>1
<1> QED BY <1>1, <1>2, <1>7 DEF L, Good, MakeUp

(***************************************************************************)
(* matches_component: how the loop goes on from a cursor, and why it ends. *)
(* Each turn moves the last asterisk on, or leaves it and moves the end of *)
(* its run on, or leaves both and goes on in the name and the pattern.     *)
(***************************************************************************)
Turn(f, name, pattern, at) ==
    LET Stands(characters) ==
            at.consumed < Len(pattern) /\ pattern[at.consumed + 1] \in characters
    IN  IF at.matched = Len(name)
        THEN \A i \in at.consumed + 1 .. Len(pattern) : pattern[i] = "*"
        ELSE IF Stands({"*"})
        THEN f[[at EXCEPT !.consumed = @ + 1, !.star = at.consumed + 1, !.resume = at.matched]]
        ELSE IF Stands({"?", name[at.matched + 1]})
        THEN f[[at EXCEPT !.matched = @ + 1, !.consumed = @ + 1]]
        ELSE at.star # 0 /\ f[[at EXCEPT !.matched = at.resume + 1, !.consumed = at.star,
                                         !.resume = @ + 1]]

Outer(name, pattern, at) == (Len(pattern) - at.star) * (Len(name) + 1) + (Len(name) - at.resume)
Inner(name, pattern, at) == (Len(name) - at.matched) + (Len(pattern) - at.consumed)
Left(name, pattern, at) ==
    Outer(name, pattern, at) * (Len(name) + Len(pattern) + 1) + Inner(name, pattern, at)

LEMMA Lexical ==
    ASSUME NEW x \in Nat, NEW y \in Nat, NEW z \in Nat, NEW K \in Nat, NEW a \in Nat,
           x < y, a < K
    PROVE  x * K + a < y * K + z
<1>1. y = x + 1 + (y - x - 1) /\ y - x - 1 \in Nat
  OBVIOUS
<1> DEFINE d == y - x - 1
<1>2. d \in Nat /\ y = x + 1 + d
  BY <1>1
<1> HIDE DEF d
<1>3. y * K = x * K + K + d * K
  BY <1>2
<1>4. d * K \in Nat /\ x * K \in Nat
  BY <1>2
<1>5. y * K \in Nat /\ y * K >= x * K + K
  BY <1>3, <1>4
<1> QED BY <1>4, <1>5

LEMMA CursorParts ==
    ASSUME NEW name, NEW pattern, Len(name) \in Nat, Len(pattern) \in Nat,
           NEW at \in Cursors(name, pattern)
    PROVE  /\ at.matched \in Nat /\ at.consumed \in Nat /\ at.star \in Nat /\ at.resume \in Nat
           /\ at.matched <= Len(name) /\ at.consumed <= Len(pattern)
           /\ at.star <= at.consumed /\ at.resume <= at.matched
           /\ Outer(name, pattern, at) \in Nat /\ Inner(name, pattern, at) \in Nat
           /\ Inner(name, pattern, at) < Len(name) + Len(pattern) + 1
           /\ Left(name, pattern, at) \in Nat
<1> DEFINE L == Len(name)
           P == Len(pattern)
<1>1. /\ at.matched \in 0 .. L /\ at.consumed \in 0 .. P /\ at.star \in 0 .. P /\ at.resume \in 0 .. L
      /\ at.star <= at.consumed /\ at.resume <= at.matched
  BY DEF Cursors
<1>2. P - at.star \in Nat /\ L - at.resume \in Nat /\ L - at.matched \in Nat /\ P - at.consumed \in Nat
      /\ L + 1 \in Nat
  BY <1>1
<1>3. (P - at.star) * (L + 1) \in Nat
  BY <1>2
<1>4. Outer(name, pattern, at) \in Nat
  BY <1>2, <1>3 DEF Outer
<1>5. Inner(name, pattern, at) \in Nat /\ Inner(name, pattern, at) < L + P + 1
  BY <1>1 DEF Inner
<1>6. Outer(name, pattern, at) * (L + P + 1) \in Nat
  <2>1. L + P + 1 \in Nat
    OBVIOUS
  <2> QED BY <1>4, <2>1
<1>7. Left(name, pattern, at) \in Nat
  BY <1>5, <1>6 DEF Left
<1> QED BY <1>1, <1>4, <1>5, <1>7

\* Where the loop is after a turn.
OverAsterisk(at) == [at EXCEPT !.consumed = @ + 1, !.star = at.consumed + 1, !.resume = at.matched]
OverBoth(at) == [at EXCEPT !.matched = @ + 1, !.consumed = @ + 1]
BackToAsterisk(at) == [at EXCEPT !.matched = at.resume + 1, !.consumed = at.star, !.resume = @ + 1]

LEMMA TurnsAre ==
    ASSUME NEW name, NEW pattern, Len(name) \in Nat, Len(pattern) \in Nat,
           NEW at \in Cursors(name, pattern)
    PROVE  /\ /\ OverAsterisk(at).matched = at.matched /\ OverAsterisk(at).consumed = at.consumed + 1
              /\ OverAsterisk(at).star = at.consumed + 1 /\ OverAsterisk(at).resume = at.matched
              /\ at.consumed < Len(pattern) => OverAsterisk(at) \in Cursors(name, pattern)
           /\ /\ OverBoth(at).matched = at.matched + 1 /\ OverBoth(at).consumed = at.consumed + 1
              /\ OverBoth(at).star = at.star /\ OverBoth(at).resume = at.resume
              /\ at.consumed < Len(pattern) /\ at.matched < Len(name) => OverBoth(at) \in Cursors(name, pattern)
           /\ /\ BackToAsterisk(at).matched = at.resume + 1 /\ BackToAsterisk(at).consumed = at.star
              /\ BackToAsterisk(at).star = at.star /\ BackToAsterisk(at).resume = at.resume + 1
              /\ at.matched < Len(name) => BackToAsterisk(at) \in Cursors(name, pattern)
<1>1. at \in [matched : 0 .. Len(name), consumed : 0 .. Len(pattern),
              star : 0 .. Len(pattern), resume : 0 .. Len(name)]
      /\ at.star <= at.consumed /\ at.resume <= at.matched
  BY DEF Cursors
<1>2. /\ OverAsterisk(at).matched = at.matched /\ OverAsterisk(at).consumed = at.consumed + 1
      /\ OverAsterisk(at).star = at.consumed + 1 /\ OverAsterisk(at).resume = at.matched
  BY <1>1 DEF OverAsterisk
<1>3. /\ OverBoth(at).matched = at.matched + 1 /\ OverBoth(at).consumed = at.consumed + 1
      /\ OverBoth(at).star = at.star /\ OverBoth(at).resume = at.resume
  BY <1>1 DEF OverBoth
<1>4. /\ BackToAsterisk(at).matched = at.resume + 1 /\ BackToAsterisk(at).consumed = at.star
      /\ BackToAsterisk(at).star = at.star /\ BackToAsterisk(at).resume = at.resume + 1
  BY <1>1 DEF BackToAsterisk
<1> DEFINE M == 0 .. Len(name)
           C == 0 .. Len(pattern)
           Rec == [matched : M, consumed : C, star : C, resume : M]
<1>5. at.consumed < Len(pattern) => OverAsterisk(at) \in Cursors(name, pattern)
  <2> SUFFICES ASSUME at.consumed < Len(pattern) PROVE OverAsterisk(at) \in Cursors(name, pattern)
    OBVIOUS
  <2>1. at \in Rec /\ at.consumed + 1 \in C /\ at.matched \in M /\ at.consumed + 1 <= at.consumed + 1
        /\ at.matched <= at.matched
    BY <1>1
  <2>2. OverAsterisk(at) \in Rec
    <3> HIDE DEF M, C
    <3> QED BY <2>1 DEF OverAsterisk
  <2> QED BY <1>2, <2>1, <2>2 DEF Cursors
<1>6. at.consumed < Len(pattern) /\ at.matched < Len(name) => OverBoth(at) \in Cursors(name, pattern)
  <2> SUFFICES ASSUME at.consumed < Len(pattern), at.matched < Len(name)
               PROVE  OverBoth(at) \in Cursors(name, pattern)
    OBVIOUS
  <2>1. at \in Rec /\ at.consumed + 1 \in C /\ at.matched + 1 \in M
        /\ at.star <= at.consumed + 1 /\ at.resume <= at.matched + 1
    BY <1>1
  <2>2. OverBoth(at) \in Rec
    <3> HIDE DEF M, C
    <3> QED BY <2>1 DEF OverBoth
  <2> QED BY <1>3, <2>1, <2>2 DEF Cursors
<1>7. at.matched < Len(name) => BackToAsterisk(at) \in Cursors(name, pattern)
  <2> SUFFICES ASSUME at.matched < Len(name) PROVE BackToAsterisk(at) \in Cursors(name, pattern)
    OBVIOUS
  <2>1. at \in Rec /\ at.resume + 1 \in M /\ at.star \in C
        /\ at.star <= at.star /\ at.resume + 1 <= at.resume + 1
    BY <1>1
  <2>2. BackToAsterisk(at) \in Rec
    <3> HIDE DEF M, C
    <3> QED BY <2>1 DEF BackToAsterisk
  <2> QED BY <1>4, <2>1, <2>2 DEF Cursors
<1> QED BY <1>2, <1>3, <1>4, <1>5, <1>6, <1>7

LEMMA TurnsShorten ==
    ASSUME NEW name, NEW pattern, Len(name) \in Nat, Len(pattern) \in Nat,
           NEW at \in Cursors(name, pattern), at.matched < Len(name)
    PROVE  /\ at.consumed < Len(pattern) =>
                Left(name, pattern, OverAsterisk(at)) < Left(name, pattern, at)
           /\ at.consumed < Len(pattern) =>
                Left(name, pattern, OverBoth(at)) < Left(name, pattern, at)
           /\ Left(name, pattern, BackToAsterisk(at)) < Left(name, pattern, at)
<1> DEFINE L == Len(name)
           P == Len(pattern)
           K == L + P + 1
           Out(c) == Outer(name, pattern, c)
           In(c) == Inner(name, pattern, c)
<1>0. /\ at.matched \in Nat /\ at.consumed \in Nat /\ at.star \in Nat /\ at.resume \in Nat
      /\ at.consumed <= P /\ at.star <= at.consumed /\ at.resume <= at.matched
      /\ K \in Nat /\ Out(at) \in Nat /\ In(at) \in Nat
  BY CursorParts
<1>1. ASSUME NEW c \in Cursors(name, pattern), Out(c) < Out(at)
      PROVE  Left(name, pattern, c) < Left(name, pattern, at)
  <2>1. Out(c) \in Nat /\ In(c) \in Nat /\ In(c) < K
    BY CursorParts
  <2>2. Left(name, pattern, c) = Out(c) * K + In(c) /\ Left(name, pattern, at) = Out(at) * K + In(at)
    BY DEF Left
  <2> DEFINE x == Out(c)
             y == Out(at)
             a == In(c)
             z == In(at)
  <2>3. x \in Nat /\ y \in Nat /\ z \in Nat /\ K \in Nat /\ a \in Nat /\ x < y /\ a < K
    BY <1>0, <1>1, <2>1
  <2>4. x * K + a < y * K + z
    <3> HIDE DEF x, y, a, z, K
    <3> QED BY <2>3, Lexical
  <2> QED BY <2>2, <2>4
<1>2. at.consumed < P => Left(name, pattern, OverAsterisk(at)) < Left(name, pattern, at)
  <2> SUFFICES ASSUME at.consumed < P
               PROVE  Left(name, pattern, OverAsterisk(at)) < Left(name, pattern, at)
    OBVIOUS
  <2>1. /\ OverAsterisk(at) \in Cursors(name, pattern)
        /\ OverAsterisk(at).star = at.consumed + 1 /\ OverAsterisk(at).resume = at.matched
    BY TurnsAre
  <2>2. Out(OverAsterisk(at)) = (P - (at.consumed + 1)) * (L + 1) + (L - at.matched)
    BY <2>1 DEF Outer
  <2>3. Out(at) = (P - at.star) * (L + 1) + (L - at.resume)
    BY DEF Outer
  <2> DEFINE x == P - (at.consumed + 1)
             y == P - at.star
             a == L - at.matched
             z == L - at.resume
             M == L + 1
  <2>4. x \in Nat /\ y \in Nat /\ a \in Nat /\ z \in Nat /\ M \in Nat /\ x < y /\ a < M
    <3>1. L \in Nat /\ P \in Nat /\ at.matched < L /\ at.consumed < P
      OBVIOUS
    <3> HIDE DEF L, P, K
    <3>2. M \in Nat /\ a \in Nat /\ a < M
      BY <1>0, <3>1
    <3>3. z \in Nat
      BY <1>0, <3>1
    <3>4. x \in Nat /\ y \in Nat /\ x < y
      BY <1>0, <3>1
    <3> QED BY <3>2, <3>3, <3>4
  <2>5. x * M + a < y * M + z
    <3> HIDE DEF x, y, a, z, M
    <3> QED BY <2>4, Lexical
  <2> QED BY <1>1, <2>1, <2>2, <2>3, <2>5
<1>3. at.consumed < P => Left(name, pattern, OverBoth(at)) < Left(name, pattern, at)
  <2> SUFFICES ASSUME at.consumed < P
               PROVE  Left(name, pattern, OverBoth(at)) < Left(name, pattern, at)
    OBVIOUS
  <2>1. /\ OverBoth(at).star = at.star /\ OverBoth(at).resume = at.resume
        /\ OverBoth(at).matched = at.matched + 1 /\ OverBoth(at).consumed = at.consumed + 1
    BY TurnsAre
  <2>2. Out(OverBoth(at)) = Out(at)
    BY <2>1 DEF Outer
  <2>3. In(OverBoth(at)) < In(at) /\ In(OverBoth(at)) \in Int
    BY <1>0, <2>1 DEF Inner
  <2>4. /\ Left(name, pattern, OverBoth(at)) = Out(at) * K + In(OverBoth(at))
        /\ Left(name, pattern, at) = Out(at) * K + In(at)
    BY <2>2 DEF Left
  <2>5. Out(at) * K \in Nat
    <3> HIDE DEF Out, K
    <3> QED BY <1>0
  <2> HIDE DEF Out, In, K
  <2> QED BY <1>0, <2>3, <2>4, <2>5
<1>4. Left(name, pattern, BackToAsterisk(at)) < Left(name, pattern, at)
  <2>1. /\ BackToAsterisk(at) \in Cursors(name, pattern)
        /\ BackToAsterisk(at).star = at.star /\ BackToAsterisk(at).resume = at.resume + 1
    BY TurnsAre
  <2>2. Out(BackToAsterisk(at)) = (P - at.star) * (L + 1) + (L - (at.resume + 1))
    BY <2>1 DEF Outer
  <2>3. Out(at) = (P - at.star) * (L + 1) + (L - at.resume)
    BY DEF Outer
  <2>4. (P - at.star) * (L + 1) \in Nat
    <3>1. P - at.star \in Nat /\ L + 1 \in Nat
      BY <1>0
    <3> QED BY <3>1
  <2>5. Out(BackToAsterisk(at)) < Out(at)
    <3> DEFINE q == (P - at.star) * (L + 1)
    <3>1. q \in Nat /\ Out(BackToAsterisk(at)) = q + (L - (at.resume + 1)) /\ Out(at) = q + (L - at.resume)
      BY <2>2, <2>3, <2>4
    <3> HIDE DEF q, Out
    <3> QED BY <1>0, <3>1
  <2> QED BY <1>1, <2>1, <2>5
<1> QED BY <1>2, <1>3, <1>4

LEMMA TurnLooksAhead ==
    ASSUME NEW name, NEW pattern, Len(name) \in Nat, Len(pattern) \in Nat,
           NEW at \in Cursors(name, pattern), NEW f, NEW g,
           \A c \in Cursors(name, pattern) :
              Left(name, pattern, c) < Left(name, pattern, at) => f[c] = g[c]
    PROVE  Turn(f, name, pattern, at) = Turn(g, name, pattern, at)
<1> DEFINE Stands(characters) ==
              at.consumed < Len(pattern) /\ pattern[at.consumed + 1] \in characters
<1>0. at.matched # Len(name) => at.matched < Len(name)
  BY CursorParts
<1>1. CASE at.matched = Len(name)
  BY <1>1 DEF Turn
<1>2. CASE at.matched # Len(name) /\ Stands({"*"})
  <2>1. f[OverAsterisk(at)] = g[OverAsterisk(at)]
    BY <1>0, <1>2, TurnsAre, TurnsShorten
  <2>2. \A h : Turn(h, name, pattern, at) = h[OverAsterisk(at)]
    BY <1>2 DEF Turn, OverAsterisk
  <2> QED BY <2>1, <2>2
<1>3. CASE at.matched # Len(name) /\ ~Stands({"*"}) /\ Stands({"?", name[at.matched + 1]})
  <2>1. f[OverBoth(at)] = g[OverBoth(at)]
    BY <1>0, <1>3, TurnsAre, TurnsShorten
  <2>2. \A h : Turn(h, name, pattern, at) = h[OverBoth(at)]
    BY <1>3 DEF Turn, OverBoth
  <2> QED BY <2>1, <2>2
<1>4. CASE at.matched # Len(name) /\ ~Stands({"*"}) /\ ~Stands({"?", name[at.matched + 1]})
  <2>1. f[BackToAsterisk(at)] = g[BackToAsterisk(at)]
    BY <1>0, <1>4, TurnsAre, TurnsShorten
  <2>2. \A h : Turn(h, name, pattern, at) = (at.star # 0 /\ h[BackToAsterisk(at)])
    BY <1>4 DEF Turn, BackToAsterisk
  <2> QED BY <2>1, <2>2
<1> QED BY <1>1, <1>2, <1>3, <1>4

\* The cursors from which the loop ends in less than n turns.
Near(name, pattern, n) == {at \in Cursors(name, pattern) : Left(name, pattern, at) < n}
LoopsOver(f, name, pattern, D) == f = [at \in D |-> Turn(f, name, pattern, at)]

LEMMA LoopExists ==
    ASSUME NEW name, NEW pattern, Len(name) \in Nat, Len(pattern) \in Nat, NEW n \in Nat
    PROVE  \E f : LoopsOver(f, name, pattern, Near(name, pattern, n))
<1> DEFINE Good(m) == \E f : LoopsOver(f, name, pattern, Near(name, pattern, m))
           S == {m \in Nat : Good(m)}
<1>1. Good(0)
  <2> DEFINE f == [at \in {} |-> 0]
  <2>1. Near(name, pattern, 0) = {}
    BY CursorParts DEF Near
  <2>2. LoopsOver(f, name, pattern, {})
    BY DEF LoopsOver
  <2> HIDE DEF f
  <2> QED BY <2>1, <2>2
<1>2. ASSUME NEW m \in Nat, Good(m) PROVE Good(m + 1)
  <2> DEFINE D == Near(name, pattern, m)
             E == Near(name, pattern, m + 1)
  <2>1. PICK f : LoopsOver(f, name, pattern, D)
    BY <1>2
  <2> DEFINE g == [at \in E |-> Turn(f, name, pattern, at)]
  <2>2. \A at \in D : at \in E /\ f[at] = Turn(f, name, pattern, at)
    <3>1. \A at \in D : at \in E
      BY CursorParts DEF Near
    <3>2. \A at \in D : f[at] = Turn(f, name, pattern, at)
      <4> HIDE DEF D
      <4> QED BY <2>1 DEF LoopsOver
    <3> QED BY <3>1, <3>2
  <2>3. \A at \in D : f[at] = g[at]
    <3> HIDE DEF D, E
    <3> QED BY <2>2
  <2>4. \A at \in E : Turn(f, name, pattern, at) = Turn(g, name, pattern, at)
    <3> SUFFICES ASSUME NEW at \in E PROVE Turn(f, name, pattern, at) = Turn(g, name, pattern, at)
      OBVIOUS
    <3>1. at \in Cursors(name, pattern) /\ Left(name, pattern, at) < m + 1
      BY DEF Near
    <3>2. \A c \in Cursors(name, pattern) : Left(name, pattern, c) < Left(name, pattern, at) => c \in D
      BY <3>1, CursorParts DEF Near
    <3>3. \A c \in Cursors(name, pattern) : Left(name, pattern, c) < Left(name, pattern, at) => f[c] = g[c]
      <4> HIDE DEF D, g
      <4> QED BY <2>3, <3>2
    <3> HIDE DEF D, E, g
    <3> QED BY <3>1, <3>3, TurnLooksAhead
  <2>5. LoopsOver(g, name, pattern, E)
    <3>1. g = [at \in E |-> Turn(g, name, pattern, at)]
      <4>1. g = [at \in E |-> Turn(f, name, pattern, at)]
        OBVIOUS
      <4> HIDE DEF g, E
      <4> QED BY <2>4, <4>1
    <3> QED BY <3>1 DEF LoopsOver
  <2> HIDE DEF g
  <2> QED BY <2>5
<1>3. n \in S
  <2> HIDE DEF Good
  <2>1. 0 \in S /\ \A m \in Nat : m \in S => m + 1 \in S
    BY <1>1, <1>2
  <2> HIDE DEF S
  <2> QED BY <2>1, NatInd
<1> QED BY <1>3

LEMMA AllNear ==
    ASSUME NEW name, NEW pattern, Len(name) \in Nat, Len(pattern) \in Nat
    PROVE  \E n \in Nat : Near(name, pattern, n) = Cursors(name, pattern)
<1> DEFINE L == Len(name)
           P == Len(pattern)
           K == L + P + 1
           top == (P + 1) * (L + 1)
           n == top * K
<1>1. L + 1 \in Nat /\ P + 1 \in Nat /\ K \in Nat
  OBVIOUS
<1>2. top \in Nat
  BY <1>1
<1>3. n \in Nat
  <2> HIDE DEF top, K
  <2> QED BY <1>1, <1>2
<1>4. ASSUME NEW at \in Cursors(name, pattern) PROVE Left(name, pattern, at) < n
  <2> DEFINE x == P - at.star
             a == L - at.resume
             o == Outer(name, pattern, at)
             i == Inner(name, pattern, at)
  <2>1. x \in Nat /\ x < P + 1 /\ a \in Nat /\ a < L + 1 /\ o \in Nat /\ i \in Nat /\ i < K
    BY CursorParts
  <2>2. x * (L + 1) + a < (P + 1) * (L + 1) + 0
    <3> DEFINE M == L + 1
               y == P + 1
    <3>1. M \in Nat /\ y \in Nat /\ x < y /\ a < M /\ x \in Nat /\ a \in Nat
      BY <1>1, <2>1
    <3>2. x * M + a < y * M + 0
      <4> HIDE DEF x, a, M, y
      <4> QED BY <3>1, Lexical
    <3> QED BY <3>2
  <2>3. o = x * (L + 1) + a
    BY DEF Outer
  <2>4. o < top
    <3> HIDE DEF o, x, a
    <3> QED BY <1>2, <2>2, <2>3
  <2>5. o * K + i < top * K + 0
    <3> HIDE DEF o, i, top, K
    <3> QED BY <1>1, <1>2, <2>1, <2>4, Lexical
  <2>6. Left(name, pattern, at) = o * K + i
    BY DEF Left
  <2> HIDE DEF o, i, top, K
  <2> QED BY <1>3, <2>5, <2>6
<1>5. Near(name, pattern, n) = Cursors(name, pattern)
  <2> HIDE DEF n
  <2> QED BY <1>4 DEF Near
<1> HIDE DEF n
<1> QED BY <1>3, <1>5

LEMMA LoopRuns ==
    ASSUME NEW name, NEW pattern, Len(name) \in Nat, Len(pattern) \in Nat
    PROVE  \E f : /\ \A at \in Cursors(name, pattern) : f[at] = Turn(f, name, pattern, at)
                  /\ matches_component(name, pattern) = f[AtStart]
<1> DEFINE f == CHOOSE g : LoopsOver(g, name, pattern, Cursors(name, pattern))
<1>1. matches_component(name, pattern) = f[AtStart]
  BY DEF matches_component, LoopsOver, Turn
<1>2. LoopsOver(f, name, pattern, Cursors(name, pattern))
  <2>1. PICK n \in Nat : Near(name, pattern, n) = Cursors(name, pattern)
    BY AllNear
  <2>2. \E g : LoopsOver(g, name, pattern, Cursors(name, pattern))
    BY <2>1, LoopExists
  <2> QED BY <2>2
<1> HIDE DEF f
<1>3. \A at \in Cursors(name, pattern) : f[at] = Turn(f, name, pattern, at)
  BY <1>2 DEF LoopsOver
<1> QED BY <1>1, <1>3

(***************************************************************************)
(* What a pattern means, from a place in the name and one in the pattern:  *)
(* the rest of the name can be cut into runs, one for each character of    *)
(* the rest of the pattern.                                                *)
(***************************************************************************)
Takes(name, pattern, from, to, i) ==
    /\ from <= to
    /\ pattern[i] = "*" \/ (to = from + 1 /\ pattern[i] \in {"?", name[to]})

RestCut(cut, name, pattern, m, c) ==
    /\ cut \in [c .. Len(pattern) -> 0 .. Len(name)]
    /\ cut[c] = m /\ cut[Len(pattern)] = Len(name)
    /\ \A i \in c + 1 .. Len(pattern) : Takes(name, pattern, cut[i - 1], cut[i], i)

RestFits(name, pattern, m, c) == \E cut : RestCut(cut, name, pattern, m, c)

LEMMA NameFitsIs ==
    ASSUME NEW S, NEW name \in Seq(S), NEW pattern \in Seq(S)
    PROVE  NameFits(name, pattern) <=> RestFits(name, pattern, 0, 0)
<1> DEFINE L == Len(name)
           P == Len(pattern)
<1>0. L \in Nat /\ P \in Nat /\ DOMAIN pattern = 1 .. P
  OBVIOUS
<1>1. ASSUME NameFits(name, pattern) PROVE RestFits(name, pattern, 0, 0)
  <2>1. PICK c \in Cuts(L, P) : \A i \in DOMAIN pattern :
            pattern[i] = "*" \/ (c[i] = c[i - 1] + 1 /\ pattern[i] \in {"?", name[c[i]]})
    BY <1>1 DEF NameFits
  <2>2. RestCut(c, name, pattern, 0, 0)
    <3>1. c \in [0 .. P -> 0 .. L] /\ c[0] = 0 /\ c[P] = L /\ \A i \in 1 .. P : c[i - 1] <= c[i]
      BY <2>1 DEF Cuts
    <3>2. \A i \in 0 + 1 .. P : Takes(name, pattern, c[i - 1], c[i], i)
      BY <1>0, <2>1, <3>1 DEF Takes
    <3> QED BY <3>1, <3>2 DEF RestCut
  <2> QED BY <2>2 DEF RestFits
<1>2. ASSUME RestFits(name, pattern, 0, 0) PROVE NameFits(name, pattern)
  <2>1. PICK c : RestCut(c, name, pattern, 0, 0)
    BY <1>2 DEF RestFits
  <2>2. /\ c \in [0 .. P -> 0 .. L] /\ c[0] = 0 /\ c[P] = L
        /\ \A i \in 0 + 1 .. P : Takes(name, pattern, c[i - 1], c[i], i)
    BY <2>1 DEF RestCut
  <2>3. c \in Cuts(L, P)
    <3>1. \A i \in 1 .. P : c[i - 1] <= c[i]
      BY <2>2 DEF Takes
    <3> QED BY <2>2, <3>1 DEF Cuts
  <2>4. \A i \in DOMAIN pattern :
            pattern[i] = "*" \/ (c[i] = c[i - 1] + 1 /\ pattern[i] \in {"?", name[c[i]]})
    BY <1>0, <2>2 DEF Takes
  <2> QED BY <2>3, <2>4 DEF NameFits
<1> QED BY <1>1, <1>2

LEMMA RestEnds ==
    ASSUME NEW name, NEW pattern, Len(name) \in Nat, Len(pattern) \in Nat, NEW m
    PROVE  RestFits(name, pattern, m, Len(pattern)) <=> m = Len(name)
<1> DEFINE L == Len(name)
           P == Len(pattern)
<1>1. RestFits(name, pattern, m, P) => m = L
  BY DEF RestFits, RestCut
<1>2. ASSUME m = L PROVE RestFits(name, pattern, m, P)
  <2> DEFINE cut == [i \in P .. P |-> L]
  <2>1. cut \in [P .. P -> 0 .. L] /\ cut[P] = L /\ P + 1 .. P = {}
    OBVIOUS
  <2> HIDE DEF cut
  <2>2. RestCut(cut, name, pattern, m, P)
    BY <1>2, <2>1 DEF RestCut
  <2> QED BY <2>2 DEF RestFits
<1> QED BY <1>1, <1>2

\* The first of the rest takes a run, and the others take what is then left.
LEMMA RestGoesOn ==
    ASSUME NEW name, NEW pattern, Len(name) \in Nat, Len(pattern) \in Nat,
           NEW m, m \in 0 .. Len(name), NEW c, c \in 0 .. Len(pattern) - 1
    PROVE  RestFits(name, pattern, m, c)
             <=> \E k \in 0 .. Len(name) : /\ Takes(name, pattern, m, k, c + 1)
                                           /\ RestFits(name, pattern, k, c + 1)
<1> DEFINE L == Len(name)
           P == Len(pattern)
<1>0. L \in Nat /\ P \in Nat /\ c \in Nat /\ c + 1 <= P /\ m \in 0 .. L
  OBVIOUS
<1>1. ASSUME RestFits(name, pattern, m, c)
      PROVE  \E k \in 0 .. L : Takes(name, pattern, m, k, c + 1) /\ RestFits(name, pattern, k, c + 1)
  <2>1. PICK cut : RestCut(cut, name, pattern, m, c)
    BY <1>1 DEF RestFits
  <2>2. /\ cut \in [c .. P -> 0 .. L] /\ cut[c] = m /\ cut[P] = L
        /\ \A i \in c + 1 .. P : Takes(name, pattern, cut[i - 1], cut[i], i)
    BY <2>1 DEF RestCut
  <2> HIDE DEF L, P
  <2> DEFINE k == cut[c + 1]
             d == [i \in c + 1 .. P |-> cut[i]]
  <2>3. c + 1 \in c + 1 .. P /\ c + 1 \in c .. P /\ P \in c + 1 .. P /\ (c + 1) - 1 = c
    BY <1>0
  <2>4. k \in 0 .. L /\ Takes(name, pattern, m, k, c + 1)
    BY <2>2, <2>3
  <2>5. d \in [c + 1 .. P -> 0 .. L] /\ d[c + 1] = k /\ d[P] = L
    BY <1>0, <2>2, <2>3
  <2>6. \A i \in (c + 1) + 1 .. P : Takes(name, pattern, d[i - 1], d[i], i)
    <3> SUFFICES ASSUME NEW i \in (c + 1) + 1 .. P PROVE Takes(name, pattern, d[i - 1], d[i], i)
      OBVIOUS
    <3>1. i \in c + 1 .. P /\ i - 1 \in c + 1 .. P
      BY <1>0
    <3> QED BY <2>2, <3>1
  <2>7. RestCut(d, name, pattern, k, c + 1)
    <3> HIDE DEF d, k
    <3> QED BY <2>5, <2>6 DEF RestCut, L, P
  <2> QED BY <2>4, <2>7 DEF RestFits
<1>2. ASSUME NEW k \in 0 .. L, Takes(name, pattern, m, k, c + 1), RestFits(name, pattern, k, c + 1)
      PROVE  RestFits(name, pattern, m, c)
  <2>1. PICK d : RestCut(d, name, pattern, k, c + 1)
    BY <1>2 DEF RestFits
  <2>2. /\ d \in [c + 1 .. P -> 0 .. L] /\ d[c + 1] = k /\ d[P] = L
        /\ \A i \in (c + 1) + 1 .. P : Takes(name, pattern, d[i - 1], d[i], i)
    BY <2>1 DEF RestCut
  <2> HIDE DEF L, P
  <2> DEFINE cut == [i \in c .. P |-> IF i = c THEN m ELSE d[i]]
  <2>3. c \in c .. P /\ P \in c + 1 .. P /\ c + 1 \in c + 1 .. P /\ (c + 1) - 1 = c
    BY <1>0
  <2>4. cut[c] = m /\ \A i \in c + 1 .. P : cut[i] = d[i]
    BY <1>0, <2>3
  <2>5. cut \in [c .. P -> 0 .. L]
    <3>1. \A i \in c .. P : i = c \/ i \in c + 1 .. P
      BY <1>0
    <3> QED BY <1>0, <2>2, <3>1
  <2>6. \A i \in c + 1 .. P : Takes(name, pattern, cut[i - 1], cut[i], i)
    <3> SUFFICES ASSUME NEW i \in c + 1 .. P PROVE Takes(name, pattern, cut[i - 1], cut[i], i)
      OBVIOUS
    <3>1. CASE i = c + 1
      <4>1. cut[i - 1] = m /\ cut[i] = k
        BY <2>2, <2>3, <2>4, <3>1
      <4> QED BY <1>2, <3>1, <4>1
    <3>2. CASE i # c + 1
      <4>1. i \in (c + 1) + 1 .. P /\ i - 1 \in c + 1 .. P
        BY <1>0, <3>2
      <4>2. cut[i - 1] = d[i - 1] /\ cut[i] = d[i]
        <5> HIDE DEF cut
        <5> QED BY <2>4, <4>1
      <4> QED BY <2>2, <4>1, <4>2
    <3> QED BY <3>1, <3>2
  <2>7. cut[P] = L
    <3> HIDE DEF cut
    <3> QED BY <2>2, <2>3, <2>4
  <2>8. RestCut(cut, name, pattern, m, c)
    <3> HIDE DEF cut
    <3> QED BY <2>4, <2>5, <2>6, <2>7 DEF RestCut, L, P
  <2> HIDE DEF cut
  <2> QED BY <2>8 DEF RestFits
<1> QED BY <1>1, <1>2

LEMMA RestAfterAsterisk ==
    ASSUME NEW name, NEW pattern, Len(name) \in Nat, Len(pattern) \in Nat,
           NEW m, m \in 0 .. Len(name), NEW c, c \in 0 .. Len(pattern) - 1, pattern[c + 1] = "*"
    PROVE  RestFits(name, pattern, m, c)
             <=> \E k \in m .. Len(name) : RestFits(name, pattern, k, c + 1)
<1>1. \A k \in 0 .. Len(name) : Takes(name, pattern, m, k, c + 1) <=> m <= k
  BY DEF Takes
<1>2. \A k : k \in m .. Len(name) <=> k \in 0 .. Len(name) /\ m <= k
  OBVIOUS
<1>3. RestFits(name, pattern, m, c)
        <=> \E k \in 0 .. Len(name) : /\ Takes(name, pattern, m, k, c + 1)
                                      /\ RestFits(name, pattern, k, c + 1)
  BY RestGoesOn
<1> QED BY <1>1, <1>2, <1>3, Zenon

LEMMA RestAfterOne ==
    ASSUME NEW name, NEW pattern, Len(name) \in Nat, Len(pattern) \in Nat,
           NEW m, m \in 0 .. Len(name), NEW c, c \in 0 .. Len(pattern) - 1, pattern[c + 1] # "*"
    PROVE  RestFits(name, pattern, m, c)
             <=> /\ m < Len(name) /\ pattern[c + 1] \in {"?", name[m + 1]}
                 /\ RestFits(name, pattern, m + 1, c + 1)
<1>1. \A k \in 0 .. Len(name) :
        Takes(name, pattern, m, k, c + 1) <=> k = m + 1 /\ pattern[c + 1] \in {"?", name[k]}
  BY DEF Takes
<1>2. m + 1 \in 0 .. Len(name) <=> m < Len(name)
  OBVIOUS
<1>3. RestFits(name, pattern, m, c)
        <=> \E k \in 0 .. Len(name) : /\ Takes(name, pattern, m, k, c + 1)
                                      /\ RestFits(name, pattern, k, c + 1)
  BY RestGoesOn
<1> QED BY <1>1, <1>2, <1>3, Zenon

\* Where the name has ended, only asterisks fit.
LEMMA RestIsEmpty ==
    ASSUME NEW name, NEW pattern, Len(name) \in Nat, Len(pattern) \in Nat,
           NEW c, c \in 0 .. Len(pattern)
    PROVE  RestFits(name, pattern, Len(name), c)
             <=> \A i \in c + 1 .. Len(pattern) : pattern[i] = "*"
<1> DEFINE L == Len(name)
           P == Len(pattern)
           Good(n) == RestFits(name, pattern, L, P - n) <=> \A i \in P - n + 1 .. P : pattern[i] = "*"
           S == {n \in Nat : n <= P => Good(n)}
<1>0. L \in Nat /\ P \in Nat /\ L \in 0 .. L
  OBVIOUS
<1>1. Good(0)
  <2>1. RestFits(name, pattern, L, P - 0)
    BY RestEnds
  <2>2. P - 0 + 1 .. P = {}
    OBVIOUS
  <2> QED BY <2>1, <2>2
<1>2. ASSUME NEW n \in Nat, n + 1 <= P, Good(n) PROVE Good(n + 1)
  <2> DEFINE d == P - (n + 1)
  <2>1. d \in 0 .. P - 1 /\ d + 1 = P - n /\ d + 1 \in d + 1 .. P
    BY <1>0, <1>2
  <2>2. \A i : i \in d + 1 .. P <=> i = d + 1 \/ i \in P - n + 1 .. P
    BY <1>0, <2>1
  <2>3. CASE pattern[d + 1] = "*"
    <3>1. RestFits(name, pattern, L, d) <=> \E k \in L .. L : RestFits(name, pattern, k, d + 1)
      <4> HIDE DEF d
      <4> QED BY <2>1, <2>3, RestAfterAsterisk
    <3>2. \A k : k \in L .. L <=> k = L
      BY <1>0
    <3>3. RestFits(name, pattern, L, d) <=> RestFits(name, pattern, L, P - n)
      <4> HIDE DEF d, L
      <4> QED BY <2>1, <3>1, <3>2
    <3>4. (\A i \in d + 1 .. P : pattern[i] = "*") <=> (\A i \in P - n + 1 .. P : pattern[i] = "*")
      <4> HIDE DEF d
      <4> QED BY <2>2, <2>3
    <3> QED BY <1>2, <3>3, <3>4
  <2>4. CASE pattern[d + 1] # "*"
    <3>1. ~RestFits(name, pattern, L, d)
      <4>1. RestFits(name, pattern, L, d) => L < L
        <5> DEFINE m == L
        <5>1. m \in 0 .. L
          BY <1>0
        <5> HIDE DEF d, m
        <5>2. RestFits(name, pattern, m, d) => m < L
          BY <2>1, <2>4, <5>1, RestAfterOne
        <5> QED BY <5>2 DEF m
      <4>2. ~(L < L)
        BY <1>0
      <4> QED BY <4>1, <4>2
    <3>2. ~(\A i \in d + 1 .. P : pattern[i] = "*")
      <4> HIDE DEF d
      <4> QED BY <2>1, <2>4
    <3> QED BY <3>1, <3>2
  <2> QED BY <2>3, <2>4
<1>3. Nat \subseteq S
  <2> HIDE DEF Good, P
  <2>1. 0 \in S
    BY <1>1
  <2>2. ASSUME NEW n \in Nat, n \in S PROVE n + 1 \in S
    <3>1. n + 1 <= P => n <= P
      BY <1>0
    <3> QED BY <1>2, <2>2, <3>1
  <2> HIDE DEF S
  <2> QED BY <2>1, <2>2, NatInd
<1>4. P - c \in Nat /\ P - c <= P /\ P - (P - c) = c
  OBVIOUS
<1>5. Good(P - c)
  <2> HIDE DEF Good
  <2> QED BY <1>3, <1>4
<1> QED BY <1>4, <1>5

\* A run of the pattern without asterisks takes as many characters as it has.
LEMMA RestAfterRun ==
    ASSUME NEW name, NEW pattern, Len(name) \in Nat, Len(pattern) \in Nat,
           NEW k, k \in 0 .. Len(name), NEW s, s \in 0 .. Len(pattern), RestFits(name, pattern, k, s),
           NEW n, n \in Nat, s + n <= Len(pattern),
           \A i \in s + 1 .. s + n : pattern[i] # "*"
    PROVE  k + n <= Len(name) /\ RestFits(name, pattern, k + n, s + n)
<1> DEFINE L == Len(name)
           P == Len(pattern)
           Good(j) == k + j <= L /\ RestFits(name, pattern, k + j, s + j)
           S == {j \in Nat : j <= n => Good(j)}
<1>0. L \in Nat /\ P \in Nat /\ k \in Nat /\ s \in Nat /\ n \in Nat /\ s + n <= P
  OBVIOUS
<1>1. Good(0)
  BY <1>0
<1>2. ASSUME NEW j \in Nat, j + 1 <= n, Good(j) PROVE Good(j + 1)
  <2> DEFINE m == k + j
             c == s + j
  <2>1. m \in 0 .. L /\ c \in 0 .. P - 1 /\ c + 1 \in s + 1 .. s + n
        /\ m + 1 = k + (j + 1) /\ c + 1 = s + (j + 1)
    BY <1>0, <1>2
  <2>2. pattern[c + 1] # "*" /\ RestFits(name, pattern, m, c)
    BY <1>2, <2>1
  <2>3. m < L /\ RestFits(name, pattern, m + 1, c + 1)
    <3> HIDE DEF m, c
    <3> QED BY <2>1, <2>2, RestAfterOne
  <2>4. k + (j + 1) <= L
    <3> HIDE DEF m
    <3>1. m + 1 <= L
      BY <1>0, <2>1, <2>3
    <3> QED BY <2>1, <3>1
  <2> QED BY <2>1, <2>3, <2>4
<1>3. Nat \subseteq S
  <2> HIDE DEF Good
  <2>1. 0 \in S
    BY <1>1
  <2>2. ASSUME NEW j \in Nat, j \in S PROVE j + 1 \in S
    <3>1. j + 1 <= n => j <= n
      BY <1>0
    <3> QED BY <1>2, <2>2, <3>1
  <2> HIDE DEF S
  <2> QED BY <2>1, <2>2, NatInd
<1>4. Good(n)
  <2> HIDE DEF Good
  <2>1. n \in S /\ n <= n
    BY <1>0, <1>3
  <2> QED BY <2>1
<1> QED BY <1>4

(***************************************************************************)
(* The loop tells whether the rest fits, from where it is, or from behind  *)
(* the last asterisk with more swallowed than the run it is trying.        *)
(***************************************************************************)
Tried(name, pattern, at) ==
    at.star # 0 => /\ pattern[at.star] = "*"
                   /\ at.matched - at.resume = at.consumed - at.star
                   /\ \A i \in at.star + 1 .. at.consumed : pattern[i] # "*"

Hopes(name, pattern, at) ==
    \/ RestFits(name, pattern, at.matched, at.consumed)
    \/ at.star # 0 /\ \E k \in at.resume + 1 .. Len(name) : RestFits(name, pattern, k, at.star)

\* With a run longer than the one being tried, the name is further behind when
\* the pattern has come as far.
LEMMA LongerRun ==
    ASSUME NEW name, NEW pattern, Len(name) \in Nat, Len(pattern) \in Nat,
           NEW at \in Cursors(name, pattern), Tried(name, pattern, at), at.star # 0,
           NEW k, k \in at.resume + 1 .. Len(name), RestFits(name, pattern, k, at.star)
    PROVE  \E j \in at.matched + 1 .. Len(name) : RestFits(name, pattern, j, at.consumed)
<1> DEFINE n == at.consumed - at.star
           s == at.star
<1>1. /\ at.matched \in Nat /\ at.consumed \in Nat /\ at.star \in Nat /\ at.resume \in Nat
      /\ at.matched <= Len(name) /\ at.consumed <= Len(pattern)
      /\ at.star <= at.consumed /\ at.resume <= at.matched
  BY CursorParts
<1>2. at.matched - at.resume = n /\ \A i \in s + 1 .. at.consumed : pattern[i] # "*"
  BY DEF Tried
<1>3. n \in Nat /\ s + n = at.consumed /\ s \in 0 .. Len(pattern) /\ k \in 0 .. Len(name)
  BY <1>1
<1>4. k + n <= Len(name) /\ RestFits(name, pattern, k + n, s + n)
  <2> HIDE DEF n, s
  <2>1. RestFits(name, pattern, k, s) /\ s + n <= Len(pattern) /\ \A i \in s + 1 .. s + n : pattern[i] # "*"
    BY <1>1, <1>2, <1>3 DEF s
  <2> QED BY <1>3, <2>1, RestAfterRun
<1>5. k + n \in at.matched + 1 .. Len(name)
  <2>1. k \in Nat /\ k >= at.resume + 1
    BY <1>1
  <2>2. n \in Nat /\ at.matched = at.resume + n
    <3> HIDE DEF n
    <3> QED BY <1>1, <1>2, <1>3
  <2> HIDE DEF n
  <2> QED BY <1>1, <1>4, <2>1, <2>2
<1> HIDE DEF n, s
<1> QED BY <1>3, <1>4, <1>5

LEMMA HopesAtEnd ==
    ASSUME NEW name, NEW pattern, Len(name) \in Nat, Len(pattern) \in Nat,
           NEW at \in Cursors(name, pattern), Tried(name, pattern, at), at.matched = Len(name)
    PROVE  Hopes(name, pattern, at)
             <=> \A i \in at.consumed + 1 .. Len(pattern) : pattern[i] = "*"
<1>1. at.consumed \in 0 .. Len(pattern)
  BY CursorParts
<1>2. ~(at.star # 0 /\ \E k \in at.resume + 1 .. Len(name) : RestFits(name, pattern, k, at.star))
  <2> SUFFICES ASSUME at.star # 0, NEW k \in at.resume + 1 .. Len(name), RestFits(name, pattern, k, at.star)
               PROVE  FALSE
    OBVIOUS
  <2>1. PICK j \in at.matched + 1 .. Len(name) : TRUE
    BY LongerRun
  <2> QED BY <2>1
<1>3. RestFits(name, pattern, at.matched, at.consumed)
        <=> \A i \in at.consumed + 1 .. Len(pattern) : pattern[i] = "*"
  BY <1>1, RestIsEmpty
<1> QED BY <1>2, <1>3 DEF Hopes

LEMMA HopesOverAsterisk ==
    ASSUME NEW name, NEW pattern, Len(name) \in Nat, Len(pattern) \in Nat,
           NEW at \in Cursors(name, pattern), Tried(name, pattern, at), at.matched < Len(name),
           at.consumed < Len(pattern), pattern[at.consumed + 1] = "*"
    PROVE  /\ Tried(name, pattern, OverAsterisk(at))
           /\ Hopes(name, pattern, OverAsterisk(at)) <=> Hopes(name, pattern, at)
<1> DEFINE m == at.matched
           c == at.consumed
           L == Len(name)
           New(k) == RestFits(name, pattern, k, c + 1)
<1>1. m \in Nat /\ c \in Nat /\ m \in 0 .. L /\ c \in 0 .. Len(pattern) - 1 /\ c + 1 # 0 /\ L \in Nat
      /\ at.resume \in Nat /\ at.resume <= m
  BY CursorParts
<1>2. /\ OverAsterisk(at).matched = m /\ OverAsterisk(at).consumed = c + 1
      /\ OverAsterisk(at).star = c + 1 /\ OverAsterisk(at).resume = m
  BY TurnsAre
<1>3. Tried(name, pattern, OverAsterisk(at))
  <2>1. m - m = (c + 1) - (c + 1) /\ (c + 1) + 1 .. c + 1 = {}
    BY <1>1
  <2> QED BY <1>2, <2>1 DEF Tried
<1>4. RestFits(name, pattern, m, c) <=> \E k \in m .. L : New(k)
  <2> HIDE DEF m, c
  <2> QED BY <1>1, RestAfterAsterisk DEF c
<1>5. Hopes(name, pattern, OverAsterisk(at)) <=> New(m) \/ \E k \in m + 1 .. L : New(k)
  BY <1>1, <1>2 DEF Hopes
<1>6. \A k : k \in m .. L <=> k = m \/ k \in m + 1 .. L
  BY <1>1
<1>7. Hopes(name, pattern, OverAsterisk(at)) <=> RestFits(name, pattern, m, c)
  <2> HIDE DEF New, m, c, L
  <2> QED BY <1>4, <1>5, <1>6
<1>8. ASSUME at.star # 0, NEW k \in at.resume + 1 .. L, RestFits(name, pattern, k, at.star)
      PROVE  RestFits(name, pattern, m, c)
  <2>1. PICK j \in m + 1 .. L : RestFits(name, pattern, j, c)
    BY <1>8, LongerRun
  <2>2. j \in 0 .. L /\ j \in m .. L
    BY <1>1
  <2>3. PICK i \in j .. L : New(i)
    <3> HIDE DEF m, c
    <3> QED BY <1>1, <2>1, <2>2, RestAfterAsterisk DEF c
  <2>4. i \in m .. L
    BY <1>1, <2>2
  <2> QED BY <1>4, <2>3, <2>4
<1> QED BY <1>3, <1>7, <1>8 DEF Hopes

LEMMA HopesOverBoth ==
    ASSUME NEW name, NEW pattern, Len(name) \in Nat, Len(pattern) \in Nat,
           NEW at \in Cursors(name, pattern), Tried(name, pattern, at), at.matched < Len(name),
           at.consumed < Len(pattern), pattern[at.consumed + 1] # "*",
           pattern[at.consumed + 1] \in {"?", name[at.matched + 1]}
    PROVE  /\ Tried(name, pattern, OverBoth(at))
           /\ Hopes(name, pattern, OverBoth(at)) <=> Hopes(name, pattern, at)
<1> DEFINE m == at.matched
           c == at.consumed
<1>1. m \in Nat /\ c \in Nat /\ m \in 0 .. Len(name) /\ c \in 0 .. Len(pattern) - 1
      /\ at.resume \in Nat /\ at.star \in Nat /\ at.star <= c
  BY CursorParts
<1>2. /\ OverBoth(at).matched = m + 1 /\ OverBoth(at).consumed = c + 1
      /\ OverBoth(at).star = at.star /\ OverBoth(at).resume = at.resume
  BY TurnsAre
<1>3. Tried(name, pattern, OverBoth(at))
  <2> SUFFICES ASSUME at.star # 0
               PROVE  /\ pattern[at.star] = "*" /\ (m + 1) - at.resume = (c + 1) - at.star
                      /\ \A i \in at.star + 1 .. c + 1 : pattern[i] # "*"
    BY <1>2 DEF Tried
  <2>1. pattern[at.star] = "*" /\ m - at.resume = c - at.star
        /\ \A i \in at.star + 1 .. c : pattern[i] # "*"
    BY DEF Tried
  <2>2. \A i \in at.star + 1 .. c + 1 : i \in at.star + 1 .. c \/ i = c + 1
    BY <1>1
  <2>3. (m + 1) - at.resume = (c + 1) - at.star
    <3> DEFINE r == at.resume
               s == at.star
    <3>1. r \in Nat /\ s \in Nat /\ m - r = c - s
      BY <1>1, <2>1
    <3> HIDE DEF m, c, r, s
    <3>2. (m + 1) - r = (c + 1) - s
      BY <1>1, <3>1
    <3> QED BY <3>2 DEF r, s
  <2> QED BY <2>1, <2>2, <2>3
<1>4. RestFits(name, pattern, m, c) <=> RestFits(name, pattern, m + 1, c + 1)
  <2> HIDE DEF m, c
  <2> QED BY <1>1, RestAfterOne DEF m, c
<1> QED BY <1>2, <1>3, <1>4 DEF Hopes

LEMMA HopesBackToAsterisk ==
    ASSUME NEW name, NEW pattern, Len(name) \in Nat, Len(pattern) \in Nat,
           NEW at \in Cursors(name, pattern), Tried(name, pattern, at), at.matched < Len(name),
           at.consumed < Len(pattern) =>
               /\ pattern[at.consumed + 1] # "*"
               /\ pattern[at.consumed + 1] \notin {"?", name[at.matched + 1]}
    PROVE  /\ Tried(name, pattern, BackToAsterisk(at))
           /\ (at.star # 0 /\ Hopes(name, pattern, BackToAsterisk(at))) <=> Hopes(name, pattern, at)
<1> DEFINE m == at.matched
           c == at.consumed
           r == at.resume
           s == at.star
           L == Len(name)
           Old(k) == RestFits(name, pattern, k, s)
<1>1. m \in Nat /\ c \in Nat /\ m \in 0 .. L /\ c <= Len(pattern) /\ r \in Nat /\ r <= m /\ L \in Nat
      /\ m < L /\ s \in Nat
  BY CursorParts
<1>2. /\ BackToAsterisk(at).matched = r + 1 /\ BackToAsterisk(at).consumed = s
      /\ BackToAsterisk(at).star = s /\ BackToAsterisk(at).resume = r + 1
  BY TurnsAre
<1>3. Tried(name, pattern, BackToAsterisk(at))
  <2>1. (r + 1) - (r + 1) = s - s /\ s + 1 .. s = {}
    BY <1>1
  <2> QED BY <1>2, <2>1 DEF Tried
<1>4. ~RestFits(name, pattern, m, c)
  <2>1. CASE c = Len(pattern)
    <3> HIDE DEF m
    <3> QED BY <1>1, <2>1, RestEnds
  <2>2. CASE c < Len(pattern)
    <3>1. c \in 0 .. Len(pattern) - 1 /\ pattern[c + 1] # "*" /\ pattern[c + 1] \notin {"?", name[m + 1]}
      BY <1>1, <2>2
    <3> HIDE DEF m, c
    <3> QED BY <1>1, <3>1, RestAfterOne
  <2> QED BY <1>1, <2>1, <2>2
<1>5. Hopes(name, pattern, at) <=> s # 0 /\ \E k \in r + 1 .. L : Old(k)
  BY <1>4 DEF Hopes
<1>6. s # 0 => (Hopes(name, pattern, BackToAsterisk(at)) <=> Old(r + 1) \/ \E k \in (r + 1) + 1 .. L : Old(k))
  BY <1>2 DEF Hopes
<1>7. \A k : k \in r + 1 .. L <=> k = r + 1 \/ k \in (r + 1) + 1 .. L
  BY <1>1
<1>8. (s # 0 /\ Hopes(name, pattern, BackToAsterisk(at))) <=> Hopes(name, pattern, at)
  <2> HIDE DEF Old, r, s, L
  <2> QED BY <1>5, <1>6, <1>7
<1> QED BY <1>3, <1>8

LEMMA LoopTells ==
    ASSUME NEW name, NEW pattern, Len(name) \in Nat, Len(pattern) \in Nat, NEW f,
           \A at \in Cursors(name, pattern) : f[at] = Turn(f, name, pattern, at)
    PROVE  \A at \in Cursors(name, pattern) :
              Tried(name, pattern, at) => (f[at] <=> Hopes(name, pattern, at))
<1> DEFINE Right(at) == Tried(name, pattern, at) => (f[at] <=> Hopes(name, pattern, at))
           Good(n) == \A at \in Cursors(name, pattern) : Left(name, pattern, at) < n => Right(at)
           S == {n \in Nat : Good(n)}
<1>1. Good(0)
  BY CursorParts
<1>2. ASSUME NEW n \in Nat, Good(n) PROVE Good(n + 1)
  <2> SUFFICES ASSUME NEW at \in Cursors(name, pattern), Left(name, pattern, at) < n + 1,
                      Tried(name, pattern, at)
               PROVE  f[at] <=> Hopes(name, pattern, at)
    OBVIOUS
  <2> DEFINE Stands(characters) ==
                at.consumed < Len(pattern) /\ pattern[at.consumed + 1] \in characters
  <2>0. at.matched # Len(name) => at.matched < Len(name)
    BY CursorParts
  <2>1. f[at] = Turn(f, name, pattern, at)
    OBVIOUS
  <2>2. ASSUME NEW c \in Cursors(name, pattern), Left(name, pattern, c) < Left(name, pattern, at)
        PROVE  Right(c)
    <3>1. Left(name, pattern, c) < n
      BY <2>2, CursorParts
    <3> HIDE DEF Right
    <3> QED BY <1>2, <3>1
  <2>3. CASE at.matched = Len(name)
    <3>1. Turn(f, name, pattern, at) = \A i \in at.consumed + 1 .. Len(pattern) : pattern[i] = "*"
      BY <2>3 DEF Turn
    <3> QED BY <2>1, <2>3, <3>1, HopesAtEnd
  <2>4. CASE at.matched # Len(name) /\ Stands({"*"})
    <3>1. Turn(f, name, pattern, at) = f[OverAsterisk(at)]
      BY <2>4 DEF Turn, OverAsterisk
    <3>2. OverAsterisk(at) \in Cursors(name, pattern) /\ Right(OverAsterisk(at))
      <4> HIDE DEF Right
      <4> QED BY <2>0, <2>2, <2>4, TurnsAre, TurnsShorten
    <3>3. /\ Tried(name, pattern, OverAsterisk(at))
          /\ Hopes(name, pattern, OverAsterisk(at)) <=> Hopes(name, pattern, at)
      BY <2>0, <2>4, HopesOverAsterisk
    <3> QED BY <2>1, <3>1, <3>2, <3>3
  <2>5. CASE at.matched # Len(name) /\ ~Stands({"*"}) /\ Stands({"?", name[at.matched + 1]})
    <3>1. Turn(f, name, pattern, at) = f[OverBoth(at)]
      BY <2>5 DEF Turn, OverBoth
    <3>2. OverBoth(at) \in Cursors(name, pattern) /\ Right(OverBoth(at))
      <4> HIDE DEF Right
      <4> QED BY <2>0, <2>2, <2>5, TurnsAre, TurnsShorten
    <3>3. /\ Tried(name, pattern, OverBoth(at))
          /\ Hopes(name, pattern, OverBoth(at)) <=> Hopes(name, pattern, at)
      BY <2>0, <2>5, HopesOverBoth
    <3> QED BY <2>1, <3>1, <3>2, <3>3
  <2>6. CASE at.matched # Len(name) /\ ~Stands({"*"}) /\ ~Stands({"?", name[at.matched + 1]})
    <3>1. Turn(f, name, pattern, at) = (at.star # 0 /\ f[BackToAsterisk(at)])
      BY <2>6 DEF Turn, BackToAsterisk
    <3>2. BackToAsterisk(at) \in Cursors(name, pattern) /\ Right(BackToAsterisk(at))
      <4> HIDE DEF Right
      <4> QED BY <2>0, <2>2, <2>6, TurnsAre, TurnsShorten
    <3>3. /\ Tried(name, pattern, BackToAsterisk(at))
          /\ (at.star # 0 /\ Hopes(name, pattern, BackToAsterisk(at))) <=> Hopes(name, pattern, at)
      BY <2>0, <2>6, HopesBackToAsterisk
    <3> QED BY <2>1, <3>1, <3>2, <3>3
  <2> QED BY <2>3, <2>4, <2>5, <2>6
<1>3. Nat \subseteq S
  <2> HIDE DEF Good
  <2>1. 0 \in S /\ \A n \in Nat : n \in S => n + 1 \in S
    BY <1>1, <1>2
  <2> HIDE DEF S
  <2> QED BY <2>1, NatInd
<1>4. ASSUME NEW at \in Cursors(name, pattern) PROVE Right(at)
  <2> DEFINE n == Left(name, pattern, at) + 1
  <2>1. n \in Nat /\ Left(name, pattern, at) < n
    BY CursorParts
  <2> HIDE DEF Right, n
  <2>2. Good(n)
    BY <1>3, <2>1
  <2> QED BY <2>1, <2>2
<1> QED BY <1>4

\* Greedy, with one place to go back to, is enough: a name matches a component
\* exactly when some way of cutting it into runs fits.
THEOREM MatcherIsRight ==
    ASSUME NEW S, NEW name \in Seq(S), NEW pattern \in Seq(S)
    PROVE  matches_component(name, pattern) <=> NameFits(name, pattern)
<1>0. Len(name) \in Nat /\ Len(pattern) \in Nat
  OBVIOUS
<1>1. PICK f : /\ \A at \in Cursors(name, pattern) : f[at] = Turn(f, name, pattern, at)
               /\ matches_component(name, pattern) = f[AtStart]
  BY <1>0, LoopRuns
<1>2. /\ AtStart \in Cursors(name, pattern)
      /\ AtStart.star = 0 /\ AtStart.matched = 0 /\ AtStart.consumed = 0
  BY <1>0 DEF AtStart, Cursors
<1>3. Tried(name, pattern, AtStart)
      /\ (Hopes(name, pattern, AtStart) <=> RestFits(name, pattern, 0, 0))
  BY <1>2 DEF Tried, Hopes
<1>4. f[AtStart] <=> Hopes(name, pattern, AtStart)
  BY <1>0, <1>1, <1>2, <1>3, LoopTells
<1> QED BY <1>1, <1>3, <1>4, NameFitsIs

(***************************************************************************)
(* Paths.  What a pattern means, up to a place in the path and one in the  *)
(* pattern.                                                                *)
(***************************************************************************)
PathTakes(path, pattern, from, to, i) ==
    /\ from <= to
    /\ IF pattern[i] = AnyDepth
       THEN \A k \in from + 1 .. to : SubSeq(path, 1, k) \in Directories
       ELSE to = from + 1 /\ NameFits(path[to], pattern[i])

PathCut(cut, path, pattern, m, n) ==
    /\ cut \in [0 .. n -> 0 .. Len(path)]
    /\ cut[0] = 0 /\ cut[n] = m
    /\ \A i \in 1 .. n : PathTakes(path, pattern, cut[i - 1], cut[i], i)

UpTo(path, pattern, m, n) == \E cut : PathCut(cut, path, pattern, m, n)

LEMMA PathFitsIs ==
    ASSUME NEW path \in AnyPath, NEW pattern \in AnyPath
    PROVE  PathFits(path, pattern) <=> UpTo(path, pattern, Len(path), Len(pattern))
<1> DEFINE L == Len(path)
           P == Len(pattern)
           Fits(c, i) == IF pattern[i] = AnyDepth
                         THEN \A k \in c[i - 1] + 1 .. c[i] : SubSeq(path, 1, k) \in Directories
                         ELSE c[i] = c[i - 1] + 1 /\ NameFits(path[c[i]], pattern[i])
<1>0. L \in Nat /\ P \in Nat /\ DOMAIN pattern = 1 .. P
  BY DEF AnyPath
<1>1. PathFits(path, pattern) <=> \E c \in Cuts(L, P) : \A i \in DOMAIN pattern : Fits(c, i)
  BY DEF PathFits
<1>2. \A c, i : PathTakes(path, pattern, c[i - 1], c[i], i) <=> c[i - 1] <= c[i] /\ Fits(c, i)
  BY DEF PathTakes
<1> HIDE DEF Fits, L, P
<1>3. ASSUME NEW c \in Cuts(L, P), \A i \in DOMAIN pattern : Fits(c, i)
      PROVE  PathCut(c, path, pattern, L, P)
  <2>1. c \in [0 .. P -> 0 .. L] /\ c[0] = 0 /\ c[P] = L /\ \A i \in 1 .. P : c[i - 1] <= c[i]
    BY DEF Cuts
  <2> QED BY <1>0, <1>2, <1>3, <2>1 DEF PathCut, L
<1>4. ASSUME NEW c, PathCut(c, path, pattern, L, P)
      PROVE  c \in Cuts(L, P) /\ \A i \in DOMAIN pattern : Fits(c, i)
  <2>1. c \in [0 .. P -> 0 .. L] /\ c[0] = 0 /\ c[P] = L
        /\ \A i \in 1 .. P : PathTakes(path, pattern, c[i - 1], c[i], i)
    BY <1>4 DEF PathCut, L
  <2>2. \A i \in 1 .. P : c[i - 1] <= c[i] /\ Fits(c, i)
    BY <1>2, <2>1
  <2>3. c \in Cuts(L, P)
    BY <2>1, <2>2 DEF Cuts
  <2> QED BY <1>0, <2>2, <2>3
<1>5. PathFits(path, pattern) <=> \E c : PathCut(c, path, pattern, L, P)
  BY <1>1, <1>3, <1>4
<1> QED BY <1>5 DEF UpTo, L, P

LEMMA UpToNone ==
    ASSUME NEW path \in AnyPath, NEW pattern, NEW m
    PROVE  UpTo(path, pattern, m, 0) <=> m = 0
<1>1. UpTo(path, pattern, m, 0) => m = 0
  BY DEF UpTo, PathCut
<1>2. ASSUME m = 0 PROVE UpTo(path, pattern, m, 0)
  <2> DEFINE cut == [i \in 0 .. 0 |-> 0]
  <2>0. Len(path) \in Nat
    BY DEF AnyPath
  <2>1. cut \in [0 .. 0 -> 0 .. Len(path)] /\ cut[0] = 0 /\ 1 .. 0 = {}
    BY <2>0
  <2> HIDE DEF cut
  <2>2. PathCut(cut, path, pattern, m, 0)
    BY <1>2, <2>1 DEF PathCut
  <2> QED BY <2>2 DEF UpTo
<1> QED BY <1>1, <1>2

\* The last of the first n takes a run, and the others what is before it.
LEMMA UpToGoesBack ==
    ASSUME NEW path \in AnyPath, NEW pattern, NEW m, m \in 0 .. Len(path), NEW n, n \in Nat, n # 0
    PROVE  UpTo(path, pattern, m, n)
             <=> \E k \in 0 .. Len(path) : /\ PathTakes(path, pattern, k, m, n)
                                           /\ UpTo(path, pattern, k, n - 1)
<1> DEFINE L == Len(path)
<1>0. L \in Nat /\ n - 1 \in Nat /\ (n - 1) + 1 = n /\ n \in 1 .. n /\ n - 1 \in 0 .. n
  BY DEF AnyPath
<1> HIDE DEF L
<1>1. ASSUME UpTo(path, pattern, m, n)
      PROVE  \E k \in 0 .. L : PathTakes(path, pattern, k, m, n) /\ UpTo(path, pattern, k, n - 1)
  <2>1. PICK cut : PathCut(cut, path, pattern, m, n)
    BY <1>1 DEF UpTo
  <2>2. /\ cut \in [0 .. n -> 0 .. L] /\ cut[0] = 0 /\ cut[n] = m
        /\ \A i \in 1 .. n : PathTakes(path, pattern, cut[i - 1], cut[i], i)
    BY <2>1 DEF PathCut, L
  <2> DEFINE k == cut[n - 1]
             d == [i \in 0 .. n - 1 |-> cut[i]]
  <2>3. k \in 0 .. L /\ PathTakes(path, pattern, k, m, n)
    BY <1>0, <2>2
  <2>4. \A i \in 0 .. n - 1 : i \in 0 .. n /\ d[i] = cut[i]
    BY <1>0
  <2>5. d \in [0 .. n - 1 -> 0 .. L] /\ d[0] = 0 /\ d[n - 1] = k
    BY <1>0, <2>2, <2>4
  <2>6. \A i \in 1 .. n - 1 : PathTakes(path, pattern, d[i - 1], d[i], i)
    <3> SUFFICES ASSUME NEW i \in 1 .. n - 1 PROVE PathTakes(path, pattern, d[i - 1], d[i], i)
      OBVIOUS
    <3>1. i \in 1 .. n /\ i \in 0 .. n - 1 /\ i - 1 \in 0 .. n - 1
      BY <1>0
    <3> HIDE DEF d
    <3> QED BY <2>2, <2>4, <3>1
  <2>7. PathCut(d, path, pattern, k, n - 1)
    <3> HIDE DEF d, k
    <3> QED BY <2>5, <2>6 DEF PathCut, L
  <2> HIDE DEF d
  <2> QED BY <2>3, <2>7 DEF UpTo
<1>2. ASSUME NEW k \in 0 .. L, PathTakes(path, pattern, k, m, n), UpTo(path, pattern, k, n - 1)
      PROVE  UpTo(path, pattern, m, n)
  <2>1. PICK d : PathCut(d, path, pattern, k, n - 1)
    BY <1>2 DEF UpTo
  <2>2. /\ d \in [0 .. n - 1 -> 0 .. L] /\ d[0] = 0 /\ d[n - 1] = k
        /\ \A i \in 1 .. n - 1 : PathTakes(path, pattern, d[i - 1], d[i], i)
    BY <2>1 DEF PathCut, L
  <2> DEFINE cut == [i \in 0 .. n |-> IF i = n THEN m ELSE d[i]]
  <2>3. cut[n] = m /\ \A i \in 0 .. n - 1 : cut[i] = d[i]
    BY <1>0
  <2>4. cut \in [0 .. n -> 0 .. L]
    <3>1. \A i \in 0 .. n : i = n \/ i \in 0 .. n - 1
      BY <1>0
    <3> QED BY <1>0, <2>2, <3>1 DEF L
  <2>5. \A i \in 1 .. n : PathTakes(path, pattern, cut[i - 1], cut[i], i)
    <3> SUFFICES ASSUME NEW i \in 1 .. n PROVE PathTakes(path, pattern, cut[i - 1], cut[i], i)
      OBVIOUS
    <3>1. i - 1 \in 0 .. n - 1 /\ (i = n \/ i \in 1 .. n - 1) /\ (i # n => i \in 0 .. n - 1)
      BY <1>0
    <3>2. cut[i - 1] = d[i - 1]
      <4> HIDE DEF cut
      <4> QED BY <2>3, <3>1
    <3>3. CASE i = n
      <4> HIDE DEF cut
      <4> QED BY <1>2, <2>2, <2>3, <3>2, <3>3
    <3>4. CASE i # n
      <4> HIDE DEF cut
      <4> QED BY <2>2, <2>3, <3>1, <3>2, <3>4
    <3> QED BY <3>3, <3>4
  <2>6. cut[0] = 0
    <3>1. 0 \in 0 .. n - 1
      BY <1>0
    <3> HIDE DEF cut
    <3> QED BY <2>2, <2>3, <3>1
  <2>7. PathCut(cut, path, pattern, m, n)
    <3> HIDE DEF cut
    <3> QED BY <2>3, <2>4, <2>5, <2>6 DEF PathCut, L
  <2> HIDE DEF cut
  <2> QED BY <2>7 DEF UpTo
<1> QED BY <1>1, <1>2 DEF L

LEMMA UpToName ==
    ASSUME NEW path \in AnyPath, NEW pattern, NEW m, m \in 0 .. Len(path), NEW n, n \in Nat, n # 0,
           pattern[n] # AnyDepth
    PROVE  UpTo(path, pattern, m, n)
             <=> m # 0 /\ UpTo(path, pattern, m - 1, n - 1) /\ NameFits(path[m], pattern[n])
<1>0. Len(path) \in Nat
  BY DEF AnyPath
<1>1. \A k \in 0 .. Len(path) :
        PathTakes(path, pattern, k, m, n) <=> k = m - 1 /\ NameFits(path[m], pattern[n])
  BY <1>0 DEF PathTakes
<1>2. m - 1 \in 0 .. Len(path) <=> m # 0
  BY <1>0
<1>3. UpTo(path, pattern, m, n)
        <=> \E k \in 0 .. Len(path) : /\ PathTakes(path, pattern, k, m, n)
                                      /\ UpTo(path, pattern, k, n - 1)
  BY UpToGoesBack
<1> QED BY <1>1, <1>2, <1>3, Zenon

LEMMA UpToAnyDepth ==
    ASSUME NEW path \in AnyPath, NEW pattern, NEW m, m \in 0 .. Len(path), NEW n, n \in Nat, n # 0,
           pattern[n] = AnyDepth
    PROVE  UpTo(path, pattern, m, n)
             <=> \E k \in 0 .. m : /\ UpTo(path, pattern, k, n - 1)
                                   /\ \A j \in k + 1 .. m : SubSeq(path, 1, j) \in Directories
<1>0. Len(path) \in Nat
  BY DEF AnyPath
<1>1. \A k \in 0 .. Len(path) :
        PathTakes(path, pattern, k, m, n)
          <=> k <= m /\ \A j \in k + 1 .. m : SubSeq(path, 1, j) \in Directories
  BY DEF PathTakes
<1>2. \A k : k \in 0 .. m <=> k \in 0 .. Len(path) /\ k <= m
  BY <1>0
<1>3. UpTo(path, pattern, m, n)
        <=> \E k \in 0 .. Len(path) : /\ PathTakes(path, pattern, k, m, n)
                                      /\ UpTo(path, pattern, k, n - 1)
  BY UpToGoesBack
<1> QED BY <1>1, <1>2, <1>3, Zenon

(***************************************************************************)
(* Prefixes.  What is in front of a path that exists is a directory.       *)
(***************************************************************************)
LEMMA PrefixIs ==
    ASSUME NEW path \in AnyPath, NEW k, k \in 0 .. Len(path)
    PROVE  /\ SubSeq(path, 1, k) \in AnyPath /\ Len(SubSeq(path, 1, k)) = k
           /\ \A i \in 1 .. k : SubSeq(path, 1, k)[i] = path[i]
           /\ k = Len(path) => SubSeq(path, 1, k) = path
<1> DEFINE p == SubSeq(path, 1, k)
           N == Seq(Characters)
<1>0. path \in Seq(N) /\ Len(path) \in Nat /\ k \in Nat /\ k <= Len(path)
  BY DEF AnyPath
<1> HIDE DEF N
<1>1. p \in Seq(N) /\ Len(p) = k /\ \A i \in 1 .. k : p[i] = path[i]
  <2>1. \A i \in 1 .. k : path[i] \in N
    BY <1>0, ElementOfSeq
  <2> QED BY <1>0, <2>1, SubSeqProperties
<1>2. k = Len(path) => p = path
  <2> HIDE DEF p
  <2> QED BY <1>0, <1>1, SeqEqual
<1> QED BY <1>1, <1>2 DEF AnyPath, N

LEMMA PrefixOfPrefix ==
    ASSUME NEW path \in AnyPath, NEW k, k \in 0 .. Len(path), NEW j, j \in 0 .. k
    PROVE  SubSeq(SubSeq(path, 1, k), 1, j) = SubSeq(path, 1, j)
<1> DEFINE p == SubSeq(path, 1, k)
<1>0. Len(path) \in Nat /\ j \in 0 .. Len(path) /\ \A i \in 1 .. j : i \in 1 .. k
  BY DEF AnyPath
<1>1. p \in AnyPath /\ Len(p) = k /\ \A i \in 1 .. k : p[i] = path[i]
  BY PrefixIs
<1> HIDE DEF p
<1>2. /\ SubSeq(p, 1, j) \in AnyPath /\ Len(SubSeq(p, 1, j)) = j
      /\ \A i \in 1 .. j : SubSeq(p, 1, j)[i] = p[i]
  BY <1>1, PrefixIs
<1>3. /\ SubSeq(path, 1, j) \in AnyPath /\ Len(SubSeq(path, 1, j)) = j
      /\ \A i \in 1 .. j : SubSeq(path, 1, j)[i] = path[i]
  BY <1>0, PrefixIs
<1>4. SubSeq(p, 1, j) = SubSeq(path, 1, j)
  <2> DEFINE a == SubSeq(p, 1, j)
             b == SubSeq(path, 1, j)
             N == Seq(Characters)
  <2>1. a \in Seq(N) /\ b \in Seq(N) /\ Len(a) = Len(b) /\ \A i \in 1 .. Len(a) : a[i] = b[i]
    BY <1>0, <1>1, <1>2, <1>3 DEF AnyPath
  <2> HIDE DEF a, b, N
  <2>2. a = b
    BY <2>1, SeqEqual
  <2> QED BY <2>2 DEF a, b
<1> QED BY <1>4 DEF p

LEMMA FrontIs ==
    ASSUME NEW path \in AnyPath, path # <<>>
    PROVE  /\ Len(path) - 1 \in 0 .. Len(path) /\ Len(path) # 0
           /\ Front(path) = SubSeq(path, 1, Len(path) - 1)
<1>1. Len(path) \in Nat /\ Len(path) # 0
  BY EmptySeq DEF AnyPath
<1> QED BY <1>1 DEF Front

LEMMA DirectoriesHavePrefixes ==
    ASSUME NEW d \in Directories, NEW k, k \in 0 .. Len(d)
    PROVE  SubSeq(d, 1, k) \in Directories
<1> DEFINE L == Len(d)
           Good(n) == SubSeq(d, 1, L - n) \in Directories
           S == {n \in Nat : n <= L => Good(n)}
<1>0. d \in AnyPath /\ L \in Nat
  BY ListingAssumption DEF AnyPath
<1>1. Good(0)
  <2>1. L - 0 \in 0 .. L /\ L - 0 = L
    BY <1>0
  <2> QED BY <1>0, <2>1, PrefixIs
<1>2. ASSUME NEW n \in Nat, n + 1 <= L, Good(n) PROVE Good(n + 1)
  <2> DEFINE p == SubSeq(d, 1, L - n)
  <2>1. L - n \in 0 .. L /\ L - n # 0 /\ L - (n + 1) \in 0 .. L - n /\ (L - n) - 1 = L - (n + 1)
    BY <1>0, <1>2
  <2>2. p \in Directories /\ p \in AnyPath /\ Len(p) = L - n /\ p # <<>>
    BY <1>0, <1>2, <2>1, PrefixIs, EmptySeq
  <2>3. Front(p) \in Directories /\ Front(p) = SubSeq(p, 1, L - (n + 1))
    <3> HIDE DEF p
    <3> QED BY <2>1, <2>2, ListingAssumption, FrontIs
  <2>4. SubSeq(p, 1, L - (n + 1)) = SubSeq(d, 1, L - (n + 1))
    BY <1>0, <2>1, PrefixOfPrefix
  <2> QED BY <2>3, <2>4
<1>3. Nat \subseteq S
  <2> HIDE DEF Good, L
  <2>1. 0 \in S
    BY <1>1
  <2>2. ASSUME NEW n \in Nat, n \in S PROVE n + 1 \in S
    <3>1. n + 1 <= L => n <= L
      BY <1>0
    <3> QED BY <1>2, <2>2, <3>1
  <2> HIDE DEF S
  <2> QED BY <2>1, <2>2, NatInd
<1>4. L - k \in Nat /\ L - k <= L /\ L - (L - k) = k
  BY <1>0
<1>5. Good(L - k)
  <2> HIDE DEF Good
  <2> QED BY <1>3, <1>4
<1> QED BY <1>4, <1>5

\* What may exist: the files of the listing, and the directories.
MayExist == {Listing[i] : i \in DOMAIN Listing} \cup Directories

LEMMA PlacesHavePrefixes ==
    ASSUME NEW q \in MayExist
    PROVE  /\ q \in AnyPath
           /\ q # <<>> => Front(q) \in Directories
           /\ \A k \in 0 .. Len(q) - 1 : SubSeq(q, 1, k) \in Directories
<1>1. q \in AnyPath
  <2>1. CASE q \in Directories
    BY <2>1, ListingAssumption
  <2>2. CASE q \in {Listing[i] : i \in DOMAIN Listing}
    <3>1. PICK i \in DOMAIN Listing : q = Listing[i]
      BY <2>2
    <3> HIDE DEF AnyPath
    <3>2. Listing \in Seq(AnyPath)
      BY ListingAssumption
    <3>3. i \in 1 .. Len(Listing)
      BY <3>1, <3>2
    <3> QED BY <3>1, <3>2, <3>3, ElementOfSeq
  <2> QED BY <2>1, <2>2 DEF MayExist
<1>2. q # <<>> => Front(q) \in Directories
  BY ListingAssumption DEF MayExist
<1>3. ASSUME NEW k \in 0 .. Len(q) - 1 PROVE SubSeq(q, 1, k) \in Directories
  <2>1. Len(q) \in Nat /\ q # <<>> /\ k \in 0 .. Len(q) /\ k \in 0 .. Len(q) - 1 /\ Len(q) - 1 \in 0 .. Len(q)
    BY <1>1, EmptySeq DEF AnyPath
  <2>2. Front(q) = SubSeq(q, 1, Len(q) - 1) /\ Front(q) \in Directories
    BY <1>1, <1>2, <2>1, FrontIs
  <2>3. Len(Front(q)) = Len(q) - 1 /\ SubSeq(Front(q), 1, k) = SubSeq(q, 1, k)
    <3> DEFINE h == Len(q) - 1
    <3>1. h \in 0 .. Len(q) /\ k \in 0 .. h /\ Front(q) = SubSeq(q, 1, h)
      BY <2>1, <2>2
    <3> HIDE DEF h
    <3>2. Len(Front(q)) = h /\ SubSeq(Front(q), 1, k) = SubSeq(q, 1, k)
      BY <1>1, <3>1, PrefixIs, PrefixOfPrefix
    <3> QED BY <3>2 DEF h
  <2> QED BY <2>1, <2>2, <2>3, DirectoriesHavePrefixes
<1> QED BY <1>1, <1>2, <1>3

\* Whether a pattern fits up to a place does not depend on what comes after it.
LEMMA UpToOfPrefix ==
    ASSUME NEW path \in AnyPath, NEW pattern, NEW k, k \in 0 .. Len(path), NEW n, n \in Nat
    PROVE  UpTo(SubSeq(path, 1, k), pattern, k, n) <=> UpTo(path, pattern, k, n)
<1> DEFINE p == SubSeq(path, 1, k)
           Same(m, j) == UpTo(p, pattern, m, j) <=> UpTo(path, pattern, m, j)
           Good(j) == \A m \in 0 .. k : Same(m, j)
           S == {j \in Nat : Good(j)}
<1>0. p \in AnyPath /\ Len(p) = k /\ Len(path) \in Nat /\ k \in Nat /\ k <= Len(path)
      /\ \A i \in 1 .. k : p[i] = path[i]
  BY PrefixIs DEF AnyPath
<1>00. \A m \in 0 .. k : SubSeq(p, 1, m) = SubSeq(path, 1, m)
  BY PrefixOfPrefix
<1> HIDE DEF p
<1>1. Good(0)
  BY <1>0, UpToNone
<1>2. ASSUME NEW j \in Nat, Good(j) PROVE Good(j + 1)
  <2> SUFFICES ASSUME NEW m \in 0 .. k PROVE Same(m, j + 1)
    OBVIOUS
  <2>0. m \in 0 .. Len(path) /\ m \in 0 .. Len(p) /\ j + 1 \in Nat /\ j + 1 # 0 /\ (j + 1) - 1 = j
        /\ \A i \in 0 .. m : i \in 0 .. k
    BY <1>0
  <2>1. CASE pattern[j + 1] # AnyDepth
    <3>1. UpTo(p, pattern, m, j + 1)
            <=> m # 0 /\ UpTo(p, pattern, m - 1, j) /\ NameFits(p[m], pattern[j + 1])
      BY <1>0, <2>0, <2>1, UpToName
    <3>2. UpTo(path, pattern, m, j + 1)
            <=> m # 0 /\ UpTo(path, pattern, m - 1, j) /\ NameFits(path[m], pattern[j + 1])
      BY <2>0, <2>1, UpToName
    <3>3. m # 0 => m - 1 \in 0 .. k /\ p[m] = path[m]
      BY <1>0
    <3> QED BY <1>2, <3>1, <3>2, <3>3
  <2>2. CASE pattern[j + 1] = AnyDepth
    <3>1. UpTo(p, pattern, m, j + 1)
            <=> \E i \in 0 .. m : /\ UpTo(p, pattern, i, j)
                                  /\ \A h \in i + 1 .. m : SubSeq(p, 1, h) \in Directories
      BY <1>0, <2>0, <2>2, UpToAnyDepth
    <3>2. UpTo(path, pattern, m, j + 1)
            <=> \E i \in 0 .. m : /\ UpTo(path, pattern, i, j)
                                  /\ \A h \in i + 1 .. m : SubSeq(path, 1, h) \in Directories
      BY <2>0, <2>2, UpToAnyDepth
    <3>3. \A i \in 0 .. m : UpTo(p, pattern, i, j) <=> UpTo(path, pattern, i, j)
      BY <1>2, <2>0
    <3>4. \A i \in 0 .. m : \A h \in i + 1 .. m : SubSeq(p, 1, h) = SubSeq(path, 1, h)
      <4> SUFFICES ASSUME NEW i \in 0 .. m, NEW h \in i + 1 .. m PROVE SubSeq(p, 1, h) = SubSeq(path, 1, h)
        OBVIOUS
      <4>1. h \in 0 .. k
        BY <1>0
      <4> QED BY <1>00, <4>1
    <3> QED BY <3>1, <3>2, <3>3, <3>4
  <2> QED BY <2>1, <2>2
<1>3. Nat \subseteq S
  <2> HIDE DEF Good
  <2>1. 0 \in S /\ \A j \in Nat : j \in S => j + 1 \in S
    BY <1>1, <1>2
  <2> HIDE DEF S
  <2> QED BY <2>1, NatInd
<1>4. Good(n)
  <2> HIDE DEF Good
  <2> QED BY <1>3
<1>5. k \in 0 .. k
  BY <1>0
<1>6. Same(k, n)
  <2> HIDE DEF Same
  <2> QED BY <1>4, <1>5
<1> QED BY <1>6 DEF p

(***************************************************************************)
(* The components in front of the first with a wildcard fit themselves and *)
(* nothing else.                                                           *)
(***************************************************************************)
LEMMA LiteralFits ==
    ASSUME NEW S, NEW name \in Seq(S), NEW pattern \in Seq(S), ~Wild(pattern)
    PROVE  NameFits(name, pattern) <=> name = pattern
<1> DEFINE L == Len(name)
           P == Len(pattern)
<1>0. L \in Nat /\ P \in Nat /\ DOMAIN pattern = 1 .. P
      /\ \A i \in 1 .. P : pattern[i] # "*" /\ pattern[i] # "?"
  BY DEF Wild
<1>1. NameFits(name, pattern) <=> RestFits(name, pattern, 0, 0)
  BY NameFitsIs
<1>2. ASSUME RestFits(name, pattern, 0, 0) PROVE name = pattern
  <2>1. ASSUME NEW j \in 0 .. P PROVE j <= L /\ RestFits(name, pattern, j, j)
    <3>1. 0 \in 0 .. L /\ 0 \in 0 .. P /\ j \in Nat /\ 0 + j <= P /\ 0 + j = j
          /\ \A i \in 0 + 1 .. 0 + j : pattern[i] # "*"
      BY <1>0
    <3>2. 0 + j <= L /\ RestFits(name, pattern, 0 + j, 0 + j)
      BY <1>0, <1>2, <3>1, RestAfterRun
    <3> QED BY <3>1, <3>2
  <2>2. P = L
    <3>1. P \in 0 .. P
      BY <1>0
    <3> QED BY <1>0, <2>1, <3>1, RestEnds
  <2>3. ASSUME NEW i \in 1 .. P PROVE name[i] = pattern[i]
    <3> DEFINE c == i - 1
    <3>1. c \in 0 .. P /\ c \in 0 .. P - 1 /\ c \in 0 .. L /\ c + 1 = i
      BY <1>0, <2>2
    <3>2. RestFits(name, pattern, c, c) /\ pattern[c + 1] # "*" /\ pattern[c + 1] # "?"
      BY <1>0, <2>1, <3>1
    <3>3. pattern[c + 1] \in {"?", name[c + 1]}
      <4> HIDE DEF c
      <4> QED BY <1>0, <3>1, <3>2, RestAfterOne
    <3> QED BY <3>1, <3>2, <3>3
  <2> QED BY <2>2, <2>3, SeqEqual
<1>3. ASSUME name = pattern PROVE RestFits(name, pattern, 0, 0)
  <2> DEFINE cut == [i \in 0 .. P |-> i]
  <2>1. cut \in [0 .. P -> 0 .. L] /\ cut[0] = 0 /\ cut[P] = L
    BY <1>0, <1>3
  <2>2. \A i \in 0 + 1 .. P : Takes(name, pattern, cut[i - 1], cut[i], i)
    BY <1>0, <1>3 DEF Takes
  <2> HIDE DEF cut
  <2>3. RestCut(cut, name, pattern, 0, 0)
    BY <2>1, <2>2 DEF RestCut
  <2> QED BY <2>3 DEF RestFits
<1> QED BY <1>1, <1>2, <1>3

LEMMA LiteralsFit ==
    ASSUME NEW path \in AnyPath, NEW pattern \in AnyPath, NEW n, n \in 0 .. Len(pattern),
           \A i \in 1 .. n : ~Wild(pattern[i])
    PROVE  UpTo(path, pattern, Len(path), n) <=> path = SubSeq(pattern, 1, n)
<1> DEFINE L == Len(path)
           Good(j) == \A m \in 0 .. L : UpTo(path, pattern, m, j)
                                          <=> m = j /\ \A i \in 1 .. j : path[i] = pattern[i]
           S == {j \in Nat : j <= n => Good(j)}
           N == Seq(Characters)
<1>0. L \in Nat /\ n \in Nat /\ n <= Len(pattern) /\ path \in Seq(N) /\ pattern \in Seq(N)
      /\ Len(pattern) \in Nat
  BY DEF AnyPath
<1>1. Good(0)
  BY UpToNone
<1>2. ASSUME NEW j \in Nat, j + 1 <= n, Good(j) PROVE Good(j + 1)
  <2> SUFFICES ASSUME NEW m \in 0 .. L
               PROVE  UpTo(path, pattern, m, j + 1)
                        <=> m = j + 1 /\ \A i \in 1 .. j + 1 : path[i] = pattern[i]
    OBVIOUS
  <2>1. j + 1 \in Nat /\ j + 1 # 0 /\ (j + 1) - 1 = j /\ j + 1 \in 1 .. Len(pattern)
        /\ ~Wild(pattern[j + 1])
    BY <1>0, <1>2
  <2>2. pattern[j + 1] \in N
    <3> HIDE DEF N
    <3> QED BY <1>0, <2>1, ElementOfSeq
  <2>3. pattern[j + 1] # AnyDepth
    <3>1. Wild(AnyDepth)
      BY DEF Wild, AnyDepth
    <3> QED BY <2>1, <3>1
  <2>4. UpTo(path, pattern, m, j + 1)
          <=> m # 0 /\ UpTo(path, pattern, m - 1, j) /\ NameFits(path[m], pattern[j + 1])
    BY <2>1, <2>3, UpToName
  <2>5. m # 0 => (NameFits(path[m], pattern[j + 1]) <=> path[m] = pattern[j + 1])
    <3> SUFFICES ASSUME m # 0 PROVE NameFits(path[m], pattern[j + 1]) <=> path[m] = pattern[j + 1]
      OBVIOUS
    <3>1. path[m] \in N
      <4>1. m \in 1 .. L
        BY <1>0
      <4> HIDE DEF N
      <4> QED BY <1>0, <4>1, ElementOfSeq
    <3> QED BY <2>1, <2>2, <3>1, LiteralFits
  <2>6. m # 0 => (UpTo(path, pattern, m - 1, j) <=> m - 1 = j /\ \A i \in 1 .. j : path[i] = pattern[i])
    <3>1. m # 0 => m - 1 \in 0 .. L
      BY <1>0
    <3> QED BY <1>2, <3>1
  <2>7. (m # 0 /\ m - 1 = j) <=> m = j + 1
    <3>1. m \in Nat /\ j \in Nat
      BY <1>0
    <3> QED BY <3>1
  <2>9. \A i : i \in 1 .. j + 1 <=> (i \in 1 .. j \/ i = j + 1)
    <3>1. j \in Nat
      OBVIOUS
    <3> QED BY <3>1
  <2>8. UpTo(path, pattern, m, j + 1)
          <=> m = j + 1 /\ path[m] = pattern[j + 1] /\ \A i \in 1 .. j : path[i] = pattern[i]
    BY <2>4, <2>5, <2>6, <2>7, Zenon
  <2> QED BY <2>8, <2>9, Zenon
<1>3. Nat \subseteq S
  <2> HIDE DEF Good
  <2>1. 0 \in S
    BY <1>1
  <2>2. ASSUME NEW j \in Nat, j \in S PROVE j + 1 \in S
    <3>1. j + 1 <= n => j <= n
      BY <1>0
    <3> QED BY <1>2, <2>2, <3>1
  <2> HIDE DEF S
  <2> QED BY <2>1, <2>2, NatInd
<1>4. Good(n)
  <2> HIDE DEF Good
  <2>1. n \in S /\ n <= n
    BY <1>0, <1>3
  <2> QED BY <2>1
<1>5. UpTo(path, pattern, L, n) <=> L = n /\ \A i \in 1 .. n : path[i] = pattern[i]
  <2>1. L \in 0 .. L
    BY <1>0
  <2> HIDE DEF L
  <2> QED BY <1>4, <2>1
<1>6. /\ SubSeq(pattern, 1, n) \in Seq(N) /\ Len(SubSeq(pattern, 1, n)) = n
      /\ \A i \in 1 .. n : SubSeq(pattern, 1, n)[i] = pattern[i]
  BY PrefixIs DEF AnyPath
<1>7. (L = n /\ \A i \in 1 .. n : path[i] = pattern[i]) <=> path = SubSeq(pattern, 1, n)
  <2> DEFINE p == SubSeq(pattern, 1, n)
  <2> HIDE DEF p, N
  <2>1. ASSUME L = n, \A i \in 1 .. n : path[i] = pattern[i] PROVE path = p
    BY <1>0, <1>6, <2>1, SeqEqual DEF p
  <2>2. ASSUME path = p PROVE L = n /\ \A i \in 1 .. n : path[i] = pattern[i]
    BY <1>6, <2>2 DEF p
  <2> QED BY <2>1, <2>2 DEF p
<1> QED BY <1>5, <1>7

LEMMA FixedPartsIs ==
    ASSUME NEW pattern \in AnyPath
    PROVE  /\ FixedParts(pattern) \in 0 .. Len(pattern)
           /\ \A i \in 1 .. FixedParts(pattern) : ~Wild(pattern[i])
<1> DEFINE P == Len(pattern)
           Is(n) == /\ \A i \in 1 .. n : ~Wild(pattern[i])
                    /\ n < P => Wild(pattern[n + 1])
           T == {n \in 0 .. P - 1 : Wild(pattern[n + 1])}
<1>0. P \in Nat
  BY DEF AnyPath
<1>1. \E n \in 0 .. P : Is(n)
  <2>1. CASE T = {}
    <3>1. P \in 0 .. P /\ \A i \in 1 .. P : i - 1 \in 0 .. P - 1 /\ (i - 1) + 1 = i
      BY <1>0
    <3>2. \A i \in 1 .. P : ~Wild(pattern[i])
      BY <2>1, <3>1
    <3>3. Is(P)
      BY <1>0, <3>2
    <3> QED BY <3>1, <3>3
  <2>2. CASE T # {}
    <3>1. T \subseteq Nat
      BY <1>0
    <3>2. PICK x \in T : \A y \in T : x <= y
      <4> HIDE DEF T
      <4> QED BY <2>2, <3>1, NatMin
    <3>3. x \in 0 .. P /\ Wild(pattern[x + 1]) /\ x \in 0 .. P - 1
      BY <1>0
    <3>4. \A i \in 1 .. x : ~Wild(pattern[i])
      <4> SUFFICES ASSUME NEW i \in 1 .. x, Wild(pattern[i]) PROVE FALSE
        OBVIOUS
      <4>1. i - 1 \in 0 .. P - 1 /\ (i - 1) + 1 = i /\ ~(x <= i - 1)
        BY <1>0, <3>3
      <4>2. i - 1 \in T
        BY <4>1
      <4> QED BY <3>2, <4>1, <4>2
    <3>5. Is(x)
      BY <3>3, <3>4
    <3> QED BY <3>3, <3>5
  <2> QED BY <2>1, <2>2
<1>2. FixedParts(pattern) = CHOOSE n \in 0 .. P : Is(n)
  BY DEF FixedParts
<1>3. FixedParts(pattern) \in 0 .. P /\ Is(FixedParts(pattern))
  <2> HIDE DEF Is, P
  <2> QED BY <1>1, <1>2
<1> QED BY <1>3

(***************************************************************************)
(* glob_matches, component by component.                                   *)
(***************************************************************************)
ReachesUpTo(f, pattern, files, fixed, top) ==
    f = [n \in fixed .. top |-> IF n = fixed THEN {SubSeq(pattern, 1, fixed)}
                                ELSE Descend(f[n - 1], pattern[n], files)]

LEMMA ReachesExists ==
    ASSUME NEW pattern, NEW files, NEW fixed \in Nat, NEW n \in Nat
    PROVE  \E f : ReachesUpTo(f, pattern, files, fixed, fixed + n)
<1> DEFINE Deeper(s, k) == Descend(s, pattern[k], files)
           first == {SubSeq(pattern, 1, fixed)}
           S == {m \in Nat : \E f : ReachesUpTo(f, pattern, files, fixed, fixed + m)}
<1>1. 0 \in S
  <2> DEFINE f == [k \in fixed .. fixed + 0 |-> first]
  <2>1. \A k \in fixed .. fixed + 0 : k = fixed
    OBVIOUS
  <2>2. f = [k \in fixed .. fixed + 0 |-> IF k = fixed THEN first ELSE Deeper(f[k - 1], k)]
    <3> HIDE DEF Deeper, first
    <3> QED BY <2>1
  <2> HIDE DEF f
  <2>3. ReachesUpTo(f, pattern, files, fixed, fixed + 0)
    BY <2>2 DEF ReachesUpTo
  <2> QED BY <2>3
<1>2. ASSUME NEW m \in Nat, m \in S
      PROVE  m + 1 \in S
  <2>1. PICK f : ReachesUpTo(f, pattern, files, fixed, fixed + m)
    BY <1>2
  <2> DEFINE t == fixed + m
             g == [k \in fixed .. t + 1 |-> IF k <= t THEN f[k] ELSE Deeper(f[t], t + 1)]
  <2>2. \A k \in fixed .. t : f[k] = IF k = fixed THEN first ELSE Deeper(f[k - 1], k)
    BY <2>1 DEF ReachesUpTo
  <2>0. t \in Nat /\ fixed <= t /\ fixed + (m + 1) = t + 1
    OBVIOUS
  <2>3. \A k \in fixed .. t + 1 : g[k] = IF k = fixed THEN first ELSE Deeper(g[k - 1], k)
    <3> HIDE DEF Deeper, first, t
    <3> SUFFICES ASSUME NEW k \in fixed .. t + 1
                 PROVE  g[k] = IF k = fixed THEN first ELSE Deeper(g[k - 1], k)
      OBVIOUS
    <3>1. CASE k = fixed
      BY <2>0, <2>2, <3>1
    <3>2. CASE k # fixed /\ k <= t
      <4>1. k - 1 \in fixed .. t /\ k \in fixed .. t
        BY <2>0, <3>2
      <4> QED BY <2>0, <2>2, <3>2, <4>1
    <3>3. CASE k = t + 1
      <4>1. k - 1 = t /\ t \in fixed .. t + 1 /\ k # fixed /\ ~(k <= t)
        BY <2>0, <3>3
      <4> QED BY <3>3, <4>1
    <3> QED BY <2>0, <3>1, <3>2, <3>3
  <2>4. ReachesUpTo(g, pattern, files, fixed, t + 1)
    <3>1. g = [k \in fixed .. t + 1 |-> g[k]]
      OBVIOUS
    <3> HIDE DEF g, t
    <3> QED BY <2>3, <3>1 DEF ReachesUpTo
  <2> HIDE DEF g, t
  <2> QED BY <2>0, <2>4
<1>3. Nat \subseteq S
  <2> HIDE DEF S
  <2> QED BY <1>1, <1>2, NatInd
<1> QED BY <1>3

\* All that a descent finds, from what was reached so far.
LEMMA DescendIs ==
    ASSUME NEW current, current \subseteq AnyPath, NEW files, files \subseteq MayExist,
           NEW pattern \in AnyPath, NEW n, n \in 1 .. Len(pattern),
           \A q \in files \cup Directories : q \in current <=> UpTo(q, pattern, Len(q), n - 1)
    PROVE  /\ Descend(current, pattern[n], files) \subseteq AnyPath
           /\ \A q \in files \cup Directories :
                q \in Descend(current, pattern[n], files) <=> UpTo(q, pattern, Len(q), n)
<1> DEFINE all == files \cup Directories
           after == Descend(current, pattern[n], files)
<1>1. \A q \in all : q \in MayExist /\ q \in AnyPath
  <2>1. \A q \in all : q \in MayExist
    BY DEF MayExist
  <2> QED BY <2>1, PlacesHavePrefixes
<1>2. n \in Nat /\ n # 0
  BY DEF AnyPath
<1>3. pattern[n] \in Seq(Characters)
  <2> DEFINE N == Seq(Characters)
  <2>1. pattern \in Seq(N)
    BY DEF AnyPath
  <2> HIDE DEF N
  <2>2. pattern[n] \in N
    BY <2>1, ElementOfSeq
  <2> QED BY <2>2 DEF N
<1>4. CASE pattern[n] # AnyDepth
  <2>1. after = {q \in all : q # <<>> /\ Front(q) \in current /\ matches_component(Last(q), pattern[n])}
    BY <1>4 DEF Descend
  <2>2. after \subseteq AnyPath
    <3> HIDE DEF all
    <3> QED BY <1>1, <2>1
  <2>3. ASSUME NEW q \in all PROVE q \in after <=> UpTo(q, pattern, Len(q), n)
    <3>0. q \in AnyPath /\ q \in MayExist /\ Len(q) \in Nat /\ Len(q) \in 0 .. Len(q)
          /\ (q # <<>> <=> Len(q) # 0)
      BY <1>1, EmptySeq DEF AnyPath
    <3>1. UpTo(q, pattern, Len(q), n)
            <=> /\ Len(q) # 0 /\ UpTo(q, pattern, Len(q) - 1, n - 1)
                /\ NameFits(q[Len(q)], pattern[n])
      BY <1>2, <1>4, <3>0, UpToName
    <3>2. CASE q = <<>>
      <4> HIDE DEF all, after
      <4>1. q \notin after /\ ~UpTo(q, pattern, Len(q), n)
        BY <2>1, <3>0, <3>1, <3>2
      <4> QED BY <4>1
    <3>3. CASE q # <<>>
      <4> DEFINE k == Len(q) - 1
      <4>1. k \in 0 .. Len(q) /\ Front(q) = SubSeq(q, 1, k) /\ Len(Front(q)) = k
        BY <3>0, <3>3, FrontIs, PrefixIs
      <4>2. Front(q) \in Directories
        BY <3>0, <3>3, PlacesHavePrefixes
      <4>3. Front(q) \in current <=> UpTo(Front(q), pattern, k, n - 1)
        <5> HIDE DEF k
        <5> QED BY <4>1, <4>2
      <4>4. n - 1 \in Nat
        BY <1>2
      <4>5. UpTo(Front(q), pattern, k, n - 1) <=> UpTo(q, pattern, k, n - 1)
        <5> HIDE DEF k
        <5> QED BY <3>0, <4>1, <4>4, UpToOfPrefix
      <4>6. Last(q) = q[Len(q)] /\ Last(q) \in Seq(Characters)
        <5> DEFINE N == Seq(Characters)
        <5>1. q \in Seq(N) /\ Len(q) \in 1 .. Len(q)
          BY <3>0, <3>3 DEF AnyPath
        <5> HIDE DEF N
        <5>2. q[Len(q)] \in N
          BY <5>1, ElementOfSeq
        <5> QED BY <5>2 DEF N, Last
      <4>7. matches_component(Last(q), pattern[n]) <=> NameFits(q[Len(q)], pattern[n])
        BY <1>3, <4>6, MatcherIsRight
      <4> HIDE DEF all, after, k
      <4>8. q \in after <=> Front(q) \in current /\ matches_component(Last(q), pattern[n])
        BY <2>1, <3>3
      <4>9. UpTo(q, pattern, Len(q), n)
              <=> UpTo(q, pattern, k, n - 1) /\ NameFits(q[Len(q)], pattern[n])
        BY <3>0, <3>1, <3>3 DEF k
      <4> QED BY <4>3, <4>5, <4>7, <4>8, <4>9, Zenon
    <3> QED BY <3>2, <3>3
  <2> QED BY <2>2, <2>3
<1>5. CASE pattern[n] = AnyDepth
  <2>1. after = current \cup {d \in Directories : \E c \in current : IsPrefix(c, d)}
    BY <1>5 DEF Descend, collect_directories
  <2>2. after \subseteq AnyPath
    <3>1. Directories \subseteq AnyPath
      BY ListingAssumption
    <3> HIDE DEF AnyPath, after
    <3> QED BY <2>1, <3>1
  <2>3. ASSUME NEW q \in all PROVE q \in after <=> UpTo(q, pattern, Len(q), n)
    <3> DEFINE L == Len(q)
    <3>0. q \in AnyPath /\ q \in MayExist /\ L \in Nat /\ L \in 0 .. L
      BY <1>1 DEF AnyPath
    <3>1. UpTo(q, pattern, L, n)
            <=> \E k \in 0 .. L : /\ UpTo(q, pattern, k, n - 1)
                                  /\ \A j \in k + 1 .. L : SubSeq(q, 1, j) \in Directories
      BY <1>2, <1>5, <3>0, UpToAnyDepth
    <3>2. ASSUME q \in after PROVE UpTo(q, pattern, L, n)
      <4>1. CASE q \in current
        <5>1. UpTo(q, pattern, L, n - 1)
          BY <4>1
        <5>2. \A j \in L + 1 .. L : SubSeq(q, 1, j) \in Directories
          BY <3>0
        <5> HIDE DEF L
        <5> QED BY <3>0, <3>1, <5>1, <5>2
      <4>2. CASE q \notin current
        <5> HIDE DEF all, after
        <5>1. q \in Directories /\ \E c \in current : IsPrefix(c, q)
          BY <2>1, <3>2, <4>2
        <5>2. PICK c \in current : IsPrefix(c, q)
          BY <5>1
        <5> DEFINE k == Len(c)
        <5>3. c \in AnyPath /\ k \in Nat
          BY DEF AnyPath
        <5>4. k \in 0 .. L /\ SubSeq(c, 1, k) = SubSeq(q, 1, k)
          BY <3>0, <5>2, <5>3 DEF IsPrefix
        <5>5. c = SubSeq(q, 1, k)
          <6>1. k \in 0 .. Len(c)
            BY <5>3
          <6>2. SubSeq(c, 1, k) = c
            BY <5>3, <6>1, PrefixIs
          <6> QED BY <5>4, <6>2
        <5>6. c \in Directories
          BY <5>1, <5>4, <5>5, DirectoriesHavePrefixes
        <5>7. UpTo(c, pattern, k, n - 1)
          BY <5>6 DEF all
        <5>8. n - 1 \in Nat
          BY <1>2
        <5>9. UpTo(q, pattern, k, n - 1)
          <6> HIDE DEF k
          <6> QED BY <3>0, <5>4, <5>5, <5>7, <5>8, UpToOfPrefix
        <5>10. \A j \in k + 1 .. L : SubSeq(q, 1, j) \in Directories
          <6>1. \A j \in k + 1 .. L : j \in 0 .. L
            BY <3>0, <5>3
          <6> QED BY <5>1, <6>1, DirectoriesHavePrefixes
        <5> HIDE DEF k, L
        <5> QED BY <3>1, <5>4, <5>9, <5>10
      <4> QED BY <4>1, <4>2
    <3>3. ASSUME UpTo(q, pattern, L, n) PROVE q \in after
      <4>1. PICK k \in 0 .. L : /\ UpTo(q, pattern, k, n - 1)
                                /\ \A j \in k + 1 .. L : SubSeq(q, 1, j) \in Directories
        <5> HIDE DEF L
        <5> QED BY <3>1, <3>3
      <4>2. CASE k = L
        <5>1. q \in current
          BY <4>1, <4>2
        <5> HIDE DEF after
        <5> QED BY <2>1, <5>1
      <4>3. CASE k # L
        <5>0. L \in k + 1 .. L
          BY <3>0, <4>3
        <5>1. q \in Directories
          <6>1. SubSeq(q, 1, L) = q
            BY <3>0, PrefixIs
          <6>2. SubSeq(q, 1, L) \in Directories
            <7> HIDE DEF L
            <7> QED BY <4>1, <5>0
          <6> QED BY <6>1, <6>2
        <5> DEFINE c == SubSeq(q, 1, k)
        <5>2. c \in AnyPath /\ Len(c) = k /\ c \in Directories
          BY <3>0, <5>1, PrefixIs, DirectoriesHavePrefixes
        <5>3. n - 1 \in Nat
          BY <1>2
        <5>4. UpTo(c, pattern, Len(c), n - 1)
          BY <3>0, <4>1, <5>2, <5>3, UpToOfPrefix
        <5>5. c \in current
          <6> HIDE DEF c
          <6> QED BY <5>2, <5>4
        <5>6. IsPrefix(c, q)
          <6>1. Len(c) <= L /\ SubSeq(c, 1, k) = c
            <7>1. k \in 0 .. Len(c) /\ k = Len(c) /\ k <= L
              BY <3>0, <5>2
            <7> HIDE DEF c
            <7> QED BY <5>2, <7>1, PrefixIs
          <6> QED BY <5>2, <6>1 DEF IsPrefix
        <5> HIDE DEF after, c
        <5> QED BY <2>1, <5>1, <5>5, <5>6
      <4> QED BY <4>2, <4>3
    <3> QED BY <3>2, <3>3
  <2> QED BY <2>2, <2>3
<1> QED BY <1>4, <1>5

\* What glob_matches reaches of what exists is what the pattern fits.
LEMMA ReachedIs ==
    ASSUME NEW pattern \in AnyPath, NEW recursive, NEW files, files \subseteq MayExist
    PROVE  \E paths :
             /\ \A q \in files \cup Directories : q \in paths <=> PathFits(q, pattern)
             /\ glob_matches(pattern, recursive, files)
                  = (paths \cap files) \cup UNION {Walk(d, recursive, files) : d \in paths \cap Directories}
<1> DEFINE fixed == FixedParts(pattern)
           P == Len(pattern)
           all == files \cup Directories
           f == CHOOSE g : ReachesUpTo(g, pattern, files, fixed, P)
<1>0. P \in Nat /\ fixed \in Nat /\ fixed <= P /\ P \in fixed .. P /\ fixed \in 0 .. P
      /\ P - fixed \in Nat /\ fixed + (P - fixed) = P
  <2>1. P \in Nat
    BY DEF AnyPath
  <2>2. fixed \in 0 .. P
    BY FixedPartsIs
  <2> HIDE DEF fixed, P
  <2> QED BY <2>1, <2>2
<1>1. glob_matches(pattern, recursive, files)
        = (f[P] \cap files) \cup UNION {Walk(d, recursive, files) : d \in f[P] \cap Directories}
  BY DEF glob_matches, ReachesUpTo
<1>2. ReachesUpTo(f, pattern, files, fixed, P)
  <2> HIDE DEF fixed, P, f
  <2>1. \E g : ReachesUpTo(g, pattern, files, fixed, fixed + (P - fixed))
    BY <1>0, ReachesExists
  <2>2. \E g : ReachesUpTo(g, pattern, files, fixed, P)
    BY <1>0, <2>1
  <2> QED BY <2>2 DEF f
<1> HIDE DEF f
<1>3. \A n \in fixed .. P : f[n] = IF n = fixed THEN {SubSeq(pattern, 1, fixed)}
                                   ELSE Descend(f[n - 1], pattern[n], files)
  <2> HIDE DEF fixed, P
  <2> QED BY <1>2 DEF ReachesUpTo
<1>4. \A q \in all : q \in AnyPath
  <2>1. \A q \in all : q \in MayExist
    BY DEF MayExist
  <2> QED BY <2>1, PlacesHavePrefixes
<1> DEFINE Good(n) == /\ f[n] \subseteq AnyPath
                      /\ \A q \in all : q \in f[n] <=> UpTo(q, pattern, Len(q), n)
           S == {m \in Nat : fixed + m <= P => Good(fixed + m)}
<1>5. 0 \in S
  <2>1. f[fixed] = {SubSeq(pattern, 1, fixed)}
    <3>1. fixed \in fixed .. P
      BY <1>0
    <3> HIDE DEF fixed, P
    <3> QED BY <1>3, <3>1
  <2>2. SubSeq(pattern, 1, fixed) \in AnyPath
    <3> HIDE DEF fixed
    <3> QED BY <1>0, PrefixIs DEF P
  <2>3. ASSUME NEW q \in all PROVE UpTo(q, pattern, Len(q), fixed) <=> q = SubSeq(pattern, 1, fixed)
    <3>1. \A i \in 1 .. fixed : ~Wild(pattern[i])
      BY FixedPartsIs
    <3>2. q \in AnyPath
      BY <1>4
    <3> HIDE DEF fixed, all
    <3> QED BY <1>0, <3>1, <3>2, LiteralsFit DEF P
  <2>4. fixed + 0 = fixed
    BY <1>0
  <2>5. Good(fixed)
    <3> HIDE DEF fixed, all, P
    <3> QED BY <2>1, <2>2, <2>3
  <2> HIDE DEF Good, fixed, P
  <2> QED BY <2>4, <2>5
<1>6. ASSUME NEW m \in Nat, m \in S PROVE m + 1 \in S
  <2> SUFFICES ASSUME fixed + (m + 1) <= P PROVE Good(fixed + (m + 1))
    OBVIOUS
  <2> DEFINE n == fixed + (m + 1)
  <2>1. /\ fixed + m <= P /\ n \in fixed .. P /\ n # fixed /\ n - 1 = fixed + m /\ n \in 1 .. P
    <3> HIDE DEF fixed, P, S
    <3> QED BY <1>0
  <2>2. Good(n - 1)
    <3> HIDE DEF Good
    <3> QED BY <1>6, <2>1
  <2>3. f[n] = Descend(f[n - 1], pattern[n], files)
    <3> HIDE DEF fixed, P, n
    <3> QED BY <1>3, <2>1
  <2> HIDE DEF n, fixed, S
  <2>4. n \in 1 .. Len(pattern)
    BY <2>1 DEF P
  <2>5. \A q \in files \cup Directories : q \in f[n - 1] <=> UpTo(q, pattern, Len(q), n - 1)
    BY <2>2
  <2>6. f[n - 1] \subseteq AnyPath
    BY <2>2
  <2>7. /\ Descend(f[n - 1], pattern[n], files) \subseteq AnyPath
        /\ \A q \in files \cup Directories :
             q \in Descend(f[n - 1], pattern[n], files) <=> UpTo(q, pattern, Len(q), n)
    BY <2>4, <2>5, <2>6, DescendIs
  <2>8. Good(n)
    BY <2>3, <2>7
  <2> QED BY <2>8 DEF n
<1>7. Nat \subseteq S
  <2> HIDE DEF S
  <2> QED BY <1>5, <1>6, NatInd
<1>8. Good(P)
  <2> HIDE DEF Good, fixed, P
  <2> QED BY <1>0, <1>7
<1>9. \A q \in files \cup Directories : q \in f[P] <=> PathFits(q, pattern)
  <2> SUFFICES ASSUME NEW q \in all PROVE q \in f[P] <=> PathFits(q, pattern)
    OBVIOUS
  <2>1. PathFits(q, pattern) <=> UpTo(q, pattern, Len(q), P)
    BY <1>4, PathFitsIs
  <2> HIDE DEF P, all
  <2> QED BY <1>8, <2>1
<1> HIDE DEF P
<1> QED BY <1>1, <1>9

\* What walk finds of what lies in a directory, in the words of Named.
LEMMA WalkIs ==
    ASSUME NEW d \in AnyPath, NEW recursive, NEW files, NEW f \in files, f \in AnyPath, f \notin Directories,
           d \in Directories
    PROVE  f \in Walk(d, recursive, files)
             <=> \E n \in 0 .. Len(f) - 1 : /\ SubSeq(f, 1, n) = d
                                            /\ recursive \/ n = Len(f) - 1
<1> DEFINE k == Len(d)
           L == Len(f)
<1>0. k \in Nat /\ L \in Nat /\ f # d /\ SubSeq(d, 1, k) = d /\ (f # <<>> <=> L # 0)
  <2>1. k \in Nat /\ L \in Nat /\ k \in 0 .. Len(d)
    BY DEF AnyPath
  <2>2. SubSeq(d, 1, k) = d
    BY <2>1, PrefixIs
  <2> QED BY <2>1, <2>2, EmptySeq DEF AnyPath
<1>1. ASSUME NEW n \in 0 .. L - 1, SubSeq(f, 1, n) = d PROVE n = k /\ n \in 0 .. L
  <2>1. n \in 0 .. L
    BY <1>0
  <2>2. Len(SubSeq(f, 1, n)) = n
    BY <2>1, PrefixIs
  <2> QED BY <1>1, <2>1, <2>2
<1>2. IsPrefix(d, f) <=> k \in 0 .. L - 1 /\ SubSeq(f, 1, k) = d
  <2>1. IsPrefix(d, f) <=> k <= L /\ d = SubSeq(f, 1, k)
    BY <1>0 DEF IsPrefix
  <2>2. k = L => SubSeq(f, 1, k) = f
    <3>1. L \in 0 .. L
      BY <1>0
    <3> QED BY <3>1, PrefixIs
  <2> HIDE DEF k, L
  <2>3. k \in 0 .. L - 1 <=> (k <= L /\ k # L)
    BY <1>0
  <2> QED BY <1>0, <2>1, <2>2, <2>3
<1>3. IsPrefix(d, f) => (IsChild(f, d) <=> k = L - 1)
  <2> SUFFICES ASSUME IsPrefix(d, f) PROVE IsChild(f, d) <=> k = L - 1
    OBVIOUS
  <2>1. k \in 0 .. L - 1 /\ SubSeq(f, 1, k) = d
    BY <1>2
  <2>2. L # 0 /\ f # <<>>
    <3>1. L # 0
      <4> HIDE DEF k, L
      <4> QED BY <1>0, <2>1
    <3> QED BY <1>0, <3>1
  <2> DEFINE h == L - 1
  <2>3. h \in 0 .. L /\ Front(f) = SubSeq(f, 1, h)
    BY <2>2, FrontIs
  <2>4. Len(SubSeq(f, 1, h)) = h
    <3> HIDE DEF h
    <3> QED BY <2>3, PrefixIs
  <2>5. IsChild(f, d) <=> Front(f) = d
    BY <2>2 DEF IsChild
  <2> HIDE DEF h
  <2>6. IsChild(f, d) => k = h
    BY <2>3, <2>4, <2>5
  <2>7. k = h => IsChild(f, d)
    BY <2>1, <2>3, <2>5
  <2> QED BY <2>6, <2>7 DEF h
<1>4. f \in Walk(d, recursive, files) <=> IsPrefix(d, f) /\ (recursive \/ IsChild(f, d))
  BY DEF Walk
<1> HIDE DEF k, L
<1>5. ASSUME f \in Walk(d, recursive, files)
      PROVE  \E n \in 0 .. L - 1 : SubSeq(f, 1, n) = d /\ (recursive \/ n = L - 1)
  <2>1. k \in 0 .. L - 1 /\ SubSeq(f, 1, k) = d /\ (recursive \/ k = L - 1)
    BY <1>2, <1>3, <1>4, <1>5
  <2> QED BY <2>1
<1>6. ASSUME NEW n \in 0 .. L - 1, SubSeq(f, 1, n) = d, recursive \/ n = L - 1
      PROVE  f \in Walk(d, recursive, files)
  <2>1. n = k
    BY <1>1, <1>6
  <2> QED BY <1>2, <1>3, <1>4, <1>6, <2>1
<1> QED BY <1>5, <1>6 DEF L

\* However the argument is taken, what is collected is what it names.
THEOREM CollectsWhatIsNamed ==
    ASSUME NEW argument \in AnyPath, NEW recursive, NEW files,
           files \subseteq {Listing[i] : i \in DOMAIN Listing}
    PROVE  collect_files(argument, recursive, files) = InOrder(Named(argument, recursive, files))
<1> DEFINE Means(path) == IF argument \in files \cup Directories THEN path = argument
                          ELSE PathFits(path, argument)
           Below(f) == \E n \in 0 .. Len(f) - 1 : /\ Means(SubSeq(f, 1, n))
                                                  /\ recursive \/ n = Len(f) - 1
           named == {f \in files : Means(f) \/ Below(f)}
           taken == IF argument \in files THEN {argument}
                    ELSE IF argument \in Directories THEN Walk(argument, recursive, files)
                    ELSE glob_matches(argument, recursive, files)
<1>0. /\ files \subseteq MayExist
      /\ \A f \in files : /\ f \in AnyPath /\ f \notin Directories /\ Len(f) \in Nat
                          /\ \A n \in 0 .. Len(f) - 1 : SubSeq(f, 1, n) \in Directories
  <2>1. files \subseteq MayExist
    BY DEF MayExist
  <2>2. \A f \in files : f \notin Directories
    BY ListingAssumption
  <2>3. \A f \in files : f \in AnyPath /\ \A n \in 0 .. Len(f) - 1 : SubSeq(f, 1, n) \in Directories
    BY <2>1, PlacesHavePrefixes
  <2>4. \A f \in files : Len(f) \in Nat
    BY <2>3 DEF AnyPath
  <2> QED BY <2>1, <2>2, <2>3, <2>4
<1>1. named = Named(argument, recursive, files)
  BY DEF Named
<1>2. collect_files(argument, recursive, files) = InOrder(taken)
  BY DEF collect_files
<1>3. CASE argument \in files
  <2>1. \A path : Means(path) <=> path = argument
    BY <1>3
  <2>2. argument \notin Directories
    BY <1>0, <1>3
  <2>3. \A f \in files : ~Below(f)
    <3> HIDE DEF Means
    <3> QED BY <1>0, <2>1, <2>2
  <2>4. \A f : f \in named <=> f \in {argument}
    <3> HIDE DEF Means, Below
    <3> QED BY <1>3, <2>1, <2>3
  <2>5. taken = {argument}
    BY <1>3
  <2> HIDE DEF named, taken
  <2>6. named = {argument}
    BY <2>4
  <2> QED BY <1>1, <1>2, <2>5, <2>6
<1>4. CASE argument \notin files /\ argument \in Directories
  <2>1. \A path : Means(path) <=> path = argument
    BY <1>4
  <2>2. \A f \in files : ~Means(f)
    <3> HIDE DEF Means
    <3> QED BY <1>4, <2>1
  <2>3. ASSUME NEW f \in files PROVE f \in Walk(argument, recursive, files) <=> Below(f)
    <3>1. f \in Walk(argument, recursive, files)
            <=> \E n \in 0 .. Len(f) - 1 : /\ SubSeq(f, 1, n) = argument
                                           /\ recursive \/ n = Len(f) - 1
      BY <1>0, <1>4, WalkIs
    <3> HIDE DEF Means
    <3> QED BY <2>1, <3>1, Zenon
  <2>4. Walk(argument, recursive, files) \subseteq files
    BY DEF Walk
  <2>5. \A f : f \in named <=> f \in Walk(argument, recursive, files)
    <3> HIDE DEF Means, Below
    <3> QED BY <2>2, <2>3, <2>4
  <2>6. taken = Walk(argument, recursive, files)
    BY <1>4
  <2> HIDE DEF named, taken
  <2>7. named = taken
    BY <2>5, <2>6
  <2> QED BY <1>1, <1>2, <2>7
<1>5. CASE argument \notin files /\ argument \notin Directories
  <2>1. \A path : Means(path) <=> PathFits(path, argument)
    BY <1>5
  <2>2. PICK paths :
             /\ \A q \in files \cup Directories : q \in paths <=> PathFits(q, argument)
             /\ glob_matches(argument, recursive, files)
                  = (paths \cap files) \cup UNION {Walk(d, recursive, files) : d \in paths \cap Directories}
    BY <1>0, ReachedIs
  <2> HIDE DEF Means
  <2>3. ASSUME NEW f \in files
        PROVE  (\E d \in paths \cap Directories : f \in Walk(d, recursive, files)) <=> Below(f)
    <3>1. \A d \in paths \cap Directories :
            f \in Walk(d, recursive, files)
              <=> \E n \in 0 .. Len(f) - 1 : /\ SubSeq(f, 1, n) = d
                                             /\ recursive \/ n = Len(f) - 1
      <4> SUFFICES ASSUME NEW d \in paths \cap Directories
                   PROVE  f \in Walk(d, recursive, files)
                            <=> \E n \in 0 .. Len(f) - 1 : /\ SubSeq(f, 1, n) = d
                                                           /\ recursive \/ n = Len(f) - 1
        OBVIOUS
      <4>1. d \in AnyPath /\ d \in Directories
        BY ListingAssumption
      <4> QED BY <1>0, <4>1, WalkIs
    <3>2. \A d \in Directories : d \in paths <=> Means(d)
      BY <2>1, <2>2
    <3>3. \A n \in 0 .. Len(f) - 1 : SubSeq(f, 1, n) \in Directories
      BY <1>0
    <3>4. ASSUME NEW d \in paths \cap Directories, f \in Walk(d, recursive, files) PROVE Below(f)
      <4>1. PICK n \in 0 .. Len(f) - 1 : /\ SubSeq(f, 1, n) = d
                                         /\ recursive \/ n = Len(f) - 1
        BY <3>1, <3>4
      <4>2. Means(SubSeq(f, 1, n))
        BY <3>2, <4>1
      <4> QED BY <4>1, <4>2
    <3>5. ASSUME NEW n \in 0 .. Len(f) - 1, Means(SubSeq(f, 1, n)), recursive \/ n = Len(f) - 1
          PROVE  \E d \in paths \cap Directories : f \in Walk(d, recursive, files)
      <4> DEFINE d == SubSeq(f, 1, n)
      <4>1. d \in paths \cap Directories
        BY <3>2, <3>3, <3>5
      <4>2. f \in Walk(d, recursive, files)
        <5>1. \E k \in 0 .. Len(f) - 1 : /\ SubSeq(f, 1, k) = d
                                         /\ recursive \/ k = Len(f) - 1
          BY <3>5
        <5> HIDE DEF d
        <5> QED BY <3>1, <4>1, <5>1
      <4> HIDE DEF d
      <4> QED BY <4>1, <4>2
    <3> QED BY <3>4, <3>5
  <2>4. \A d : Walk(d, recursive, files) \subseteq files
    BY DEF Walk
  <2>5. \A f \in files : f \in paths <=> Means(f)
    BY <2>1, <2>2
  <2>6. taken = (paths \cap files) \cup UNION {Walk(d, recursive, files) : d \in paths \cap Directories}
    BY <1>5, <2>2
  <2>7. \A f : f \in taken <=> f \in files /\ (f \in paths \/ \E d \in paths \cap Directories : f \in Walk(d, recursive, files))
    <3> HIDE DEF taken
    <3> QED BY <2>4, <2>6
  <2>8. \A f : f \in named <=> f \in taken
    <3> HIDE DEF taken, Below
    <3> QED BY <2>3, <2>5, <2>7
  <2> HIDE DEF named, taken
  <2>9. named = taken
    BY <2>8
  <2> QED BY <1>1, <1>2, <2>9
<1> QED BY <1>3, <1>4, <1>5

(***************************************************************************)
(* The list.  It is made once, of the files there were, and stays; what it *)
(* lists is what the argument named then.                                  *)
(***************************************************************************)
Listed ==
    /\ request.argument \in AnyPath
    /\ pc # "collect" =>
        /\ there \subseteq Paths
        /\ found = collect_files(request.argument, request.recursive, there)
    /\ pc = "refused" => found = <<>> \/ request.argument \notin there

LEMMA ListedInit == Init => Listed
<1> SUFFICES ASSUME Init PROVE Listed
  OBVIOUS
<1>1. PICK r \in Requests : request = [argument |-> r.argument, recursive |-> r.recursive,
                                       all |-> r.all, json |-> r.json]
  BY DEF Init
<1>2. request.argument \in AnyPath
  BY <1>1, ScanAssumption
<1>3. pc = "collect"
  BY DEF Init
<1> QED BY <1>2, <1>3 DEF Listed

LEMMA ListedSteps ==
    ASSUME Listed, [Next]_vars
    PROVE  Listed'
<1>1. CASE CollectFiles
  <2> DEFINE files == {p \in Paths : disk[p] # Missing}
             list == collect_files(request.argument, request.recursive, files)
  <2>1. there' = files /\ found' = list /\ UNCHANGED request /\ pc' \in {"probe", "refused"}
    BY <1>1 DEF CollectFiles, Step
  <2>2. pc' = "refused" => list = <<>> \/ request.argument \notin files
    BY <1>1 DEF CollectFiles, Step
  <2>3. files \subseteq Paths
    OBVIOUS
  <2> HIDE DEF files
  <2> QED BY <2>1, <2>2, <2>3 DEF Listed
<1>2. CASE ProbeNext \/ StartBar \/ ExamineOther \/ BeginExamine \/ LoadStep \/ EndExamine
           \/ Report \/ Elsewhere \/ Finished \/ UNCHANGED vars
  <2>1. UNCHANGED <<request, there, found>>
    BY <1>2 DEF ProbeNext, StartBar, ExamineOther, BeginExamine, LoadStep, EndExamine, Report, Elsewhere,
                Finished, vars
  <2>2. \/ pc # "collect" /\ (pc' = "refused" => pc = "refused")
        \/ pc' = pc
    BY <1>2 DEF ProbeNext, StartBar, ExamineOther, BeginExamine, LoadStep, EndExamine, Report, Elsewhere,
                Finished, vars, Step, Examining
  <2> QED BY <2>1, <2>2 DEF Listed
<1> QED BY <1>1, <1>2 DEF Next

LEMMA ListedAlways == Spec => []Listed
<1>1. Init => Listed
  BY ListedInit
<1>2. Listed /\ [Next]_vars => Listed'
  BY ListedSteps
<1> QED BY <1>1, <1>2, PTL DEF Spec

\* What is in a list in the order of paths, each path once.
LEMMA InOrderIs ==
    ASSUME NEW files, files \subseteq Paths
    PROVE  /\ InOrder(files) \in Seq(Paths)
           /\ \A p : p \in files <=> \E i \in 1 .. Len(InOrder(files)) : InOrder(files)[i] = p
           /\ \A i, j \in 1 .. Len(InOrder(files)) : InOrder(files)[i] = InOrder(files)[j] => i = j
<1> DEFINE ks == {i \in DOMAIN Listing : Listing[i] \in files}
           L == Len(Listing)
           list == InOrder(files)
<1>0. L \in Nat /\ DOMAIN Listing = 1 .. L /\ Listing \in Seq(Paths)
  <2>1. Listing \in Seq(AnyPath) /\ \A i \in DOMAIN Listing : Listing[i] \in Paths
    BY ListingAssumption, ScanAssumption
  <2>2. L \in Nat /\ DOMAIN Listing = 1 .. L /\ Listing = [i \in 1 .. L |-> Listing[i]]
    <3> HIDE DEF AnyPath
    <3> QED BY <2>1
  <2>3. Listing \in [1 .. L -> Paths]
    <3> HIDE DEF L
    <3> QED BY <2>1, <2>2
  <2> QED BY <2>2, <2>3, SeqDef
<1>1. list \in Seq(Paths) /\ \E w : Places(w, list, Listing, (1 .. L) \cap ks)
  BY <1>0, KeptIs DEF InOrder
<1>2. PICK w : Places(w, list, Listing, ks)
  <2>1. (1 .. L) \cap ks = ks
    BY <1>0
  <2> HIDE DEF ks, list, L
  <2> QED BY <1>1, <2>1
<1>3. /\ w \in [1 .. Len(list) -> ks]
      /\ \A i, j \in 1 .. Len(list) : i < j => w[i] < w[j]
      /\ \A i \in 1 .. Len(list) : list[i] = Listing[w[i]]
      /\ \A k \in ks : \E i \in 1 .. Len(list) : w[i] = k
  <2> HIDE DEF ks, list
  <2> QED BY <1>2 DEF Places
<1> HIDE DEF list
<1>4. ASSUME NEW p, p \in files PROVE \E i \in 1 .. Len(list) : list[i] = p
  <2>1. PICK k \in DOMAIN Listing : Listing[k] = p
    BY <1>4, ScanAssumption
  <2>2. k \in ks
    BY <1>4, <2>1
  <2> HIDE DEF ks
  <2> QED BY <1>3, <2>1, <2>2
<1>5. ASSUME NEW i \in 1 .. Len(list) PROVE list[i] \in files
  <2>1. w[i] \in ks
    <3> HIDE DEF ks
    <3> QED BY <1>3
  <2> QED BY <1>3, <2>1
<1>6. ASSUME NEW i \in 1 .. Len(list), NEW j \in 1 .. Len(list), list[i] = list[j] PROVE i = j
  <2>1. w[i] \in ks /\ w[j] \in ks
    <3> HIDE DEF ks
    <3> QED BY <1>3
  <2>2. w[i] = w[j] /\ w[i] \in Nat
    <3>1. w[i] \in DOMAIN Listing /\ w[j] \in DOMAIN Listing
      BY <2>1
    <3>2. Listing[w[i]] = Listing[w[j]]
      <4> HIDE DEF ks
      <4> QED BY <1>3, <1>6
    <3> QED BY <1>0, <3>1, <3>2, ListingAssumption
  <2>3. i \in Int /\ j \in Int
    OBVIOUS
  <2>4. ~(i < j) /\ ~(j < i)
    <3> HIDE DEF ks
    <3> QED BY <1>3, <2>2
  <2> QED BY <2>3, <2>4
<1> QED BY <1>1, <1>4, <1>5, <1>6 DEF list

LEMMA FoundIs ==
    ASSUME Listed, pc # "collect"
    PROVE  /\ found = InOrder(Named(request.argument, request.recursive, there))
           /\ Named(request.argument, request.recursive, there) \subseteq there
           /\ there \subseteq Paths
<1>1. there \subseteq Paths /\ request.argument \in AnyPath
  BY DEF Listed
<1>2. there \subseteq {Listing[i] : i \in DOMAIN Listing}
  BY <1>1, ScanAssumption
<1>3. found = InOrder(Named(request.argument, request.recursive, there))
  BY <1>1, <1>2, CollectsWhatIsNamed DEF Listed
<1>4. Named(request.argument, request.recursive, there) \subseteq there
  BY DEF Named
<1> QED BY <1>1, <1>3, <1>4

\* Of every argument, with every set of files and directories: what is listed
\* is what it means, each file once and in order, and a refusal named nothing.
THEOREM ListingIsExact == Spec => []ListsWhatIsNamed
<1>1. Listed => ListsWhatIsNamed
  <2> SUFFICES ASSUME Listed PROVE ListsWhatIsNamed
    OBVIOUS
  <2> DEFINE named == Named(request.argument, request.recursive, there)
  <2>1. pc # "collect" => found = InOrder(named)
    BY FoundIs
  <2>2. ASSUME pc = "refused", request.argument \in there PROVE named = {}
    <3>1. found = <<>> /\ pc # "collect"
      BY <2>2 DEF Listed
    <3>2. found = InOrder(named) /\ named \subseteq Paths
      BY <3>1, FoundIs
    <3> HIDE DEF named
    <3>3. \A p : p \in named <=> \E i \in 1 .. Len(found) : found[i] = p
      BY <3>2, InOrderIs
    <3>4. 1 .. Len(found) = {}
      BY <3>1, EmptySeq
    <3> QED BY <3>3, <3>4
  <2> HIDE DEF named
  <2> QED BY <2>1, <2>2 DEF ListsWhatIsNamed, named
<1> QED BY <1>1, ListedAlways, PTL

(***************************************************************************)
(* The groups.  After any number of entries there is one group for each    *)
(* salt among them, and it has the names of the entries with that salt.    *)
(***************************************************************************)
Group(S) == [salt : S, names : Seq(Paths)]

OpensUpTo(f, list, n) == f = [k \in 0 .. n |-> IF k = 0 THEN <<>> ELSE Placed(f[k - 1], list[k])]

LEMMA OpensExists ==
    ASSUME NEW list, NEW n \in Nat
    PROVE  \E f : OpensUpTo(f, list, n)
<1> DEFINE Further(s, k) == Placed(s, list[k])
           S == {m \in Nat : \E f : OpensUpTo(f, list, m)}
<1>1. 0 \in S
  <2> DEFINE f == [k \in 0 .. 0 |-> <<>>]
  <2>1. OpensUpTo(f, list, 0)
    BY DEF OpensUpTo
  <2> QED BY <2>1
<1>2. ASSUME NEW m \in Nat, m \in S
      PROVE  m + 1 \in S
  <2>1. PICK f : OpensUpTo(f, list, m)
    BY <1>2
  <2> DEFINE g == [k \in 0 .. m + 1 |-> IF k <= m THEN f[k] ELSE Further(f[m], m + 1)]
  <2>2. \A k \in 0 .. m : f[k] = IF k = 0 THEN <<>> ELSE Further(f[k - 1], k)
    BY <2>1 DEF OpensUpTo
  <2>3. \A k \in 0 .. m + 1 : g[k] = IF k = 0 THEN <<>> ELSE Further(g[k - 1], k)
    <3> HIDE DEF Further
    <3> SUFFICES ASSUME NEW k \in 0 .. m + 1
                 PROVE  g[k] = IF k = 0 THEN <<>> ELSE Further(g[k - 1], k)
      OBVIOUS
    <3>1. CASE k = 0
      BY <2>2, <3>1
    <3>2. CASE k # 0 /\ k <= m
      <4>1. k - 1 \in 0 .. m /\ k \in 0 .. m
        BY <3>2
      <4> QED BY <2>2, <3>2, <4>1
    <3>3. CASE k = m + 1
      <4>1. k - 1 = m /\ m \in 0 .. m + 1 /\ k # 0 /\ ~(k <= m)
        BY <3>3
      <4> QED BY <3>3, <4>1
    <3> QED BY <3>1, <3>2, <3>3
  <2>4. OpensUpTo(g, list, m + 1)
    <3>1. g = [k \in 0 .. m + 1 |-> g[k]]
      OBVIOUS
    <3> HIDE DEF g
    <3> QED BY <2>3, <3>1 DEF OpensUpTo
  <2> HIDE DEF g
  <2> QED BY <2>4
<1>3. Nat \subseteq S
  <2> HIDE DEF S
  <2> QED BY <1>1, <1>2, NatInd
<1> QED BY <1>3

\* Somebody among the first n of a list has this path and this salt.
Has(list, n, path, salt) == \E i \in 1 .. n : list[i].path = path /\ list[i].salt = salt

In(names, path) == \E i \in 1 .. Len(names) : names[i] = path

\* What the groups are after n entries.
Grouped(groups, list, n) ==
    /\ \A g, h \in 1 .. Len(groups) : groups[g].salt = groups[h].salt => g = h
    /\ \A g \in 1 .. Len(groups) : groups[g].salt # NoSalt
    /\ \A g \in 1 .. Len(groups) : \A p : In(groups[g].names, p) <=> Has(list, n, p, groups[g].salt)
    /\ \A i \in 1 .. n : list[i].salt # NoSalt => \E g \in 1 .. Len(groups) : groups[g].salt = list[i].salt

LEMMA HasOneMore ==
    ASSUME NEW list, NEW n \in Nat, NEW p, NEW s
    PROVE  Has(list, n + 1, p, s)
             <=> Has(list, n, p, s) \/ (list[n + 1].path = p /\ list[n + 1].salt = s)
<1>1. \A i : i \in 1 .. n + 1 <=> (i \in 1 .. n \/ i = n + 1)
  OBVIOUS
<1> QED BY <1>1 DEF Has

LEMMA InOneMore ==
    ASSUME NEW names \in Seq(Paths), NEW e \in Paths, NEW p
    PROVE  /\ In(Append(names, e), p) <=> In(names, p) \/ e = p
           /\ Append(names, e) \in Seq(Paths)
<1> DEFINE L == Len(names)
           more == Append(names, e)
<1>1. L \in Nat /\ more \in Seq(Paths) /\ Len(more) = L + 1 /\ more[L + 1] = e
      /\ \A i \in 1 .. L : more[i] = names[i]
  BY AppendProperties
<1>2. \A i : i \in 1 .. L + 1 <=> (i \in 1 .. L \/ i = L + 1)
  BY <1>1
<1> HIDE DEF L, more
<1>3. In(more, p) <=> In(names, p) \/ e = p
  BY <1>1, <1>2 DEF In, L
<1> QED BY <1>1, <1>3 DEF more

LEMMA InOne ==
    ASSUME NEW e \in Paths, NEW p
    PROVE  (In(<<e>>, p) <=> e = p) /\ <<e>> \in Seq(Paths)
<1>1. Len(<<e>>) = 1 /\ <<e>>[1] = e /\ 1 .. 1 = {1}
  OBVIOUS
<1>2. <<e>> \in Seq(Paths)
  OBVIOUS
<1> HIDE DEF In
<1>3. In(<<e>>, p) <=> e = p
  BY <1>1 DEF In
<1> QED BY <1>2, <1>3

LEMMA PlacedKeepsGroups ==
    ASSUME NEW S, NEW groups \in Seq(Group(S)), NEW list, NEW n \in Nat, Grouped(groups, list, n),
           list[n + 1].salt \in S, list[n + 1].path \in Paths
    PROVE  /\ Placed(groups, list[n + 1]) \in Seq(Group(S))
           /\ Grouped(Placed(groups, list[n + 1]), list, n + 1)
<1> DEFINE e == list[n + 1]
           L == Len(groups)
           after == Placed(groups, e)
           same == {g \in DOMAIN groups : groups[g].salt = e.salt}
<1>0. L \in Nat /\ DOMAIN groups = 1 .. L /\ \A g \in 1 .. L : groups[g] \in Group(S)
  OBVIOUS
<1>00. \A g \in 1 .. L : groups[g].salt \in S /\ groups[g].names \in Seq(Paths)
  BY <1>0 DEF Group
<1>000. \A i : i \in 1 .. n + 1 <=> (i \in 1 .. n \/ i = n + 1)
  OBVIOUS
<1>1. /\ \A g, h \in 1 .. L : groups[g].salt = groups[h].salt => g = h
      /\ \A g \in 1 .. L : groups[g].salt # NoSalt
      /\ \A g \in 1 .. L : \A p : In(groups[g].names, p) <=> Has(list, n, p, groups[g].salt)
      /\ \A i \in 1 .. n : list[i].salt # NoSalt => \E g \in 1 .. L : groups[g].salt = list[i].salt
  BY DEF Grouped
<1>2. \A p, s : Has(list, n + 1, p, s) <=> Has(list, n, p, s) \/ (e.path = p /\ e.salt = s)
  BY HasOneMore
<1>3. CASE e.salt = NoSalt
  <2>1. after = groups
    BY <1>3 DEF Placed
  <2> HIDE DEF after, e
  <2>2. \A g \in 1 .. L : \A p : Has(list, n + 1, p, groups[g].salt) <=> Has(list, n, p, groups[g].salt)
    BY <1>1, <1>2, <1>3
  <2>3. \A i \in 1 .. n + 1 : list[i].salt # NoSalt => i \in 1 .. n
    BY <1>000, <1>3 DEF e
  <2>4. Grouped(groups, list, n + 1)
    BY <1>1, <2>2, <2>3 DEF Grouped, L
  <2> QED BY <2>1, <2>4 DEF after, e
<1>4. CASE e.salt # NoSalt /\ same = {}
  <2> DEFINE new == [salt |-> e.salt, names |-> <<e.path>>]
  <2>1. after = Append(groups, new)
    BY <1>4 DEF Placed
  <2>2. new \in Group(S) /\ new.salt = e.salt /\ new.names = <<e.path>>
    BY InOne DEF Group
  <2> HIDE DEF new
  <2>3. /\ after \in Seq(Group(S)) /\ Len(after) = L + 1 /\ after[L + 1] = new
        /\ \A g \in 1 .. L : after[g] = groups[g]
    <3> DEFINE T == Group(S)
    <3>1. groups \in Seq(T) /\ new \in T
      BY <2>2
    <3> HIDE DEF T, after
    <3>2. /\ after \in Seq(T) /\ Len(after) = L + 1 /\ after[L + 1] = new
          /\ \A g \in 1 .. L : after[g] = groups[g]
      BY <2>1, <3>1, AppendProperties
    <3> QED BY <3>2 DEF T
  <2>4. \A g : g \in 1 .. L + 1 <=> (g \in 1 .. L \/ g = L + 1)
    BY <1>0
  <2>5. \A g \in 1 .. L : groups[g].salt # e.salt
    BY <1>0, <1>4
  <2>6. \A p : ~Has(list, n, p, e.salt)
    <3> SUFFICES ASSUME NEW i \in 1 .. n, list[i].salt = e.salt PROVE FALSE
      BY DEF Has
    <3> HIDE DEF e, L
    <3> QED BY <1>1, <1>4, <2>5
  <2> HIDE DEF after, e, L, same
  <2>7. \A g, h \in 1 .. L + 1 : after[g].salt = after[h].salt => g = h
    BY <1>1, <2>2, <2>3, <2>4, <2>5
  <2>8. \A g \in 1 .. L + 1 : after[g].salt # NoSalt
    BY <1>1, <1>4, <2>2, <2>3, <2>4
  <2>9. ASSUME NEW g \in 1 .. L + 1, NEW p
        PROVE  In(after[g].names, p) <=> Has(list, n + 1, p, after[g].salt)
    <3>1. CASE g \in 1 .. L
      BY <1>1, <1>2, <2>3, <2>5, <3>1
    <3>2. CASE g = L + 1
      <4>1. In(<<e.path>>, p) <=> e.path = p
        BY InOne DEF e
      <4> QED BY <1>2, <2>2, <2>3, <2>6, <3>2, <4>1
    <3> QED BY <2>4, <3>1, <3>2
  <2>10. ASSUME NEW i \in 1 .. n + 1, list[i].salt # NoSalt
         PROVE  \E g \in 1 .. L + 1 : after[g].salt = list[i].salt
    <3>1. CASE i \in 1 .. n
      <4>1. PICK g \in 1 .. L : groups[g].salt = list[i].salt
        BY <1>1, <2>10, <3>1
      <4> QED BY <2>3, <2>4, <4>1
    <3>2. CASE i = n + 1
      BY <2>2, <2>3, <2>4, <3>2 DEF e
    <3> QED BY <1>000, <3>1, <3>2
  <2>11. Grouped(after, list, n + 1)
    BY <2>3, <2>7, <2>8, <2>9, <2>10 DEF Grouped
  <2> QED BY <2>3, <2>11 DEF after, e
<1>5. CASE e.salt # NoSalt /\ same # {}
  <2> DEFINE k == CHOOSE g \in same : TRUE
             more == Append(groups[k].names, e.path)
  <2>1. after = [groups EXCEPT ![k].names = more]
    BY <1>5 DEF Placed
  <2>2. k \in 1 .. L /\ groups[k].salt = e.salt
    <3>1. k \in same
      <4> HIDE DEF same
      <4> QED BY <1>5
    <3> HIDE DEF k
    <3> QED BY <1>0, <3>1
  <2> HIDE DEF k
  <2>3. /\ more \in Seq(Paths)
        /\ \A p : In(more, p) <=> In(groups[k].names, p) \/ e.path = p
    BY <1>00, <2>2, InOneMore
  <2> DEFINE new == [groups[k] EXCEPT !.names = more]
  <2>4. new \in Group(S) /\ new.salt = e.salt /\ new.names = more
    <3>1. groups[k] \in Group(S)
      BY <1>0, <2>2
    <3> HIDE DEF more
    <3> QED BY <2>2, <2>3, <3>1 DEF Group
  <2>5. /\ after \in Seq(Group(S)) /\ Len(after) = L /\ after[k] = new
        /\ \A g \in 1 .. L : g # k => after[g] = groups[g]
    <3> DEFINE T == Group(S)
    <3>1. groups \in Seq(T) /\ new \in T
      BY <2>4
    <3>2. after = [groups EXCEPT ![k] = new]
      BY <2>1
    <3> HIDE DEF T, after, new
    <3>3. after \in Seq(T) /\ Len(after) = L /\ after[k] = new
          /\ \A g \in 1 .. L : g # k => after[g] = groups[g]
      BY <1>0, <2>2, <3>1, <3>2, ExceptSeq
    <3> QED BY <3>3 DEF T
  <2>6. \A g \in 1 .. L : after[g].salt = groups[g].salt
    <3> HIDE DEF new, after
    <3> QED BY <2>2, <2>4, <2>5
  <2> HIDE DEF after, e, L, same, new, more
  <2>7. ASSUME NEW g \in 1 .. L, NEW p
        PROVE  In(after[g].names, p) <=> Has(list, n + 1, p, after[g].salt)
    <3>1. CASE g = k
      <4>1. after[g].names = more /\ after[g].salt = e.salt
        BY <2>4, <2>5, <3>1
      <4>2. In(more, p) <=> In(groups[k].names, p) \/ e.path = p
        BY <2>3
      <4>3. In(groups[k].names, p) <=> Has(list, n, p, e.salt)
        BY <1>1, <2>2
      <4>4. Has(list, n + 1, p, e.salt) <=> Has(list, n, p, e.salt) \/ e.path = p
        BY <1>2
      <4> QED BY <4>1, <4>2, <4>3, <4>4
    <3>2. CASE g # k
      <4>1. groups[g].salt # e.salt
        BY <1>1, <2>2, <3>2
      <4> QED BY <1>1, <1>2, <2>5, <3>2, <4>1
    <3> QED BY <3>1, <3>2
  <2>8. ASSUME NEW i \in 1 .. n + 1, list[i].salt # NoSalt
        PROVE  \E g \in 1 .. L : after[g].salt = list[i].salt
    <3>1. CASE i \in 1 .. n
      BY <1>1, <2>6, <2>8, <3>1
    <3>2. CASE i = n + 1
      BY <2>2, <2>6, <3>2 DEF e
    <3> QED BY <1>000, <3>1, <3>2
  <2>9. Grouped(after, list, n + 1)
    BY <1>1, <2>5, <2>6, <2>7, <2>8 DEF Grouped
  <2> QED BY <2>5, <2>9 DEF after, e
<1> QED BY <1>3, <1>4, <1>5

\* What the warning says of a list whose entries are of different files: it
\* has a group for each salt of more than one, of all that have it.
LEMMA SharedGroupsAre ==
    ASSUME NEW list, Len(list) \in Nat, \A i \in 1 .. Len(list) : list[i].path \in Paths
    PROVE  \E S : \E groups \in Seq(Group(S)) :
             /\ Grouped(groups, list, Len(list))
             /\ shared_groups(list) = NamesOf(Kept(groups, Several(groups)))
<1> DEFINE L == Len(list)
           f == CHOOSE g : OpensUpTo(g, list, L)
           S == {list[i].salt : i \in 1 .. L}
           Good(n) == f[n] \in Seq(Group(S)) /\ Grouped(f[n], list, n)
           T == {n \in Nat : n <= L => Good(n)}
<1>1. shared_groups(list) = NamesOf(Kept(f[L], Several(f[L])))
  BY DEF shared_groups, OpensUpTo
<1>2. OpensUpTo(f, list, L)
  <2> HIDE DEF f
  <2> QED BY OpensExists DEF f
<1> HIDE DEF f
<1>3. \A k \in 0 .. L : f[k] = IF k = 0 THEN <<>> ELSE Placed(f[k - 1], list[k])
  BY <1>2 DEF OpensUpTo
<1>4. \A k \in 1 .. L : list[k].salt \in S /\ list[k].path \in Paths
  OBVIOUS
<1> HIDE DEF S, L
<1>00. L \in Nat
  BY DEF L
<1>5. 0 \in T
  <2>1. f[0] = <<>>
    BY <1>00, <1>3
  <2>2. f[0] \in Seq(Group(S)) /\ Len(f[0]) = 0
    BY <2>1, EmptySeq
  <2>3. Grouped(f[0], list, 0)
    BY <2>2 DEF Grouped
  <2> QED BY <2>2, <2>3
<1>6. ASSUME NEW m \in Nat, m \in T PROVE m + 1 \in T
  <2> SUFFICES ASSUME m + 1 <= L PROVE Good(m + 1)
    OBVIOUS
  <2>1. m <= L /\ m + 1 \in 0 .. L /\ m + 1 \in 1 .. L /\ m + 1 # 0 /\ (m + 1) - 1 = m
    BY <1>00
  <2>2. Good(m)
    BY <1>6, <2>1
  <2>3. f[m + 1] = Placed(f[m], list[m + 1])
    <3> HIDE DEF Good
    <3> QED BY <1>3, <2>1
  <2>4. f[m] \in Seq(Group(S)) /\ Grouped(f[m], list, m)
    BY <2>2
  <2> QED BY <1>4, <2>1, <2>3, <2>4, PlacedKeepsGroups
<1>7. Nat \subseteq T
  <2> HIDE DEF T
  <2> QED BY <1>5, <1>6, NatInd
<1>8. Good(L)
  <2> HIDE DEF Good
  <2> QED BY <1>00, <1>7
<1> QED BY <1>1, <1>8 DEF L

(***************************************************************************)
(* The report.  While the files are examined the entries are those of the  *)
(* files behind, in their order, and one has a salt when it is usable.     *)
(***************************************************************************)
Reported ==
    /\ verdict # "Usable"
    /\ stage # "idle" => loading = Current
    /\ \A i \in 1 .. Len(entries) : /\ entries[i].path = found[i]
                                    /\ Usable(entries[i]) <=> entries[i].salt # NoSalt
    /\ pc = "done" => /\ Len(entries) = Len(found)
                      /\ report = render(entries, shared_groups(entries))

\* No gate answers with the verdict on a file that passed them all.
LEMMA GatesNeverSayUsable ==
    ASSUME NEW p
    PROVE  probe_geometry(p) # "Usable" /\ Gates(p) # "Usable"
<1>1. validate_magic_bytes(p) # "Usable"
  <2>1. validate_magic_bytes(p) =
          IF Answer(p.length = "short", "NotPng") # "ok" THEN Answer(p.length = "short", "NotPng")
          ELSE IF Answer(p.format = "jpeg", "JpegDetected") # "ok" THEN Answer(p.format = "jpeg", "JpegDetected")
          ELSE IF Answer(p.format = "webp", "WebpDetected") # "ok" THEN Answer(p.format = "webp", "WebpDetected")
          ELSE Answer(p.format # "png", "NotPng")
    BY FirstOfFour DEF validate_magic_bytes
  <2> QED BY <2>1 DEF Answer
<1>2. check_dimensions(p) # "Usable"
  <2>1. check_dimensions(p) =
          IF Answer(p.width < MIN_DIMENSION \/ p.height < MIN_DIMENSION, "ImageTooSmall") # "ok"
          THEN Answer(p.width < MIN_DIMENSION \/ p.height < MIN_DIMENSION, "ImageTooSmall")
          ELSE Answer(pixel_count(p) > MAX_PIXELS, "ImageTooLarge")
    BY FirstOfTwo DEF check_dimensions
  <2> QED BY <2>1 DEF Answer
<1>3. decode_png(p) # "Usable"
  BY <1>2, DecoderAnswers
<1>4. CASE Readable(p)
  BY <1>1, <1>2, <1>3, <1>4, ProbeAnswers, GateAnswers
<1>5. CASE ~Readable(p)
  BY <1>1, <1>3, <1>5, GateAnswers DEF probe_geometry
<1> QED BY <1>4, <1>5

LEMMA ExaminedIs ==
    ASSUME Loader, stage = "returned", verdict # "Usable"
    PROVE  Examined.path = loading /\ (Usable(Examined) <=> Examined.salt # NoSalt)
<1>1. CASE verdict = "ok"
  <2>1. bytes \in Pictures
    BY <1>1 DEF Loader
  <2>2. bytes.salt # NoSalt /\ Examined = Analyse(bytes)
    BY <1>1, <2>1, ScanAssumption DEF Examined
  <2> QED BY <2>2 DEF Analyse, NewEntry, Usable
<1>2. CASE verdict # "ok"
  BY <1>2 DEF Examined, NewEntry, Usable
<1> QED BY <1>1, <1>2

LEMMA ReportedInit == Init => Reported
<1> SUFFICES ASSUME Init PROVE Reported
  OBVIOUS
<1>1. verdict = "none" /\ stage = "idle" /\ entries = <<>> /\ found = <<>> /\ pc = "collect"
  BY DEF Init, IntakeInit
<1> QED BY <1>1 DEF Reported

\* An entry more, of the file in hand.
LEMMA EntryAdded ==
    ASSUME Behind, Reported, Examining, NEW e, e.path = Current, Usable(e) <=> e.salt # NoSalt,
           entries' = Append(entries, e), found' = found
    PROVE  \A i \in 1 .. Len(entries') : /\ entries'[i].path = found'[i]
                                         /\ Usable(entries'[i]) <=> entries'[i].salt # NoSalt
<1> DEFINE L == Len(entries)
<1>1. PICK S : entries \in Seq(S)
  BY DEF Behind, InStep
<1> DEFINE T == S \cup {e}
           new == entries'
<1>2. entries \in Seq(T) /\ e \in T
  BY <1>1, SeqMonotonic
<1>3. /\ L \in Nat /\ Len(new) = L + 1 /\ new[L + 1] = e
      /\ \A i \in 1 .. L : new[i] = entries[i]
  <2> HIDE DEF T
  <2> QED BY <1>2, AppendProperties
<1>6. \A i : i \in 1 .. L + 1 <=> (i \in 1 .. L \/ i = L + 1)
  BY <1>3
<1>7. \A i \in 1 .. L : entries[i].path = found[i] /\ (Usable(entries[i]) <=> entries[i].salt # NoSalt)
  BY DEF Reported
<1> HIDE DEF new, L
<1>9. ASSUME NEW i \in 1 .. Len(new)
      PROVE  new[i].path = found[i] /\ (Usable(new[i]) <=> new[i].salt # NoSalt)
  <2>1. CASE i \in 1 .. L
    BY <1>3, <1>7, <2>1
  <2>2. CASE i = L + 1
    BY <1>3, <2>2 DEF Current, L
  <2> QED BY <1>3, <1>6, <2>1, <2>2
<1> QED BY <1>9 DEF new

LEMMA ReportedSteps ==
    ASSUME Behind, Reported, [Next]_vars
    PROVE  Reported'
<1>0. Loader /\ InStep /\ Measured
  BY DEF Behind
<1>1. CASE CollectFiles
  <2>1. UNCHANGED <<entries, stage, verdict>> /\ pc = "collect" /\ pc' # "done"
    BY <1>1 DEF CollectFiles, Step, intakeVars
  <2>2. entries = <<>> /\ stage = "idle"
    BY <1>0, <2>1 DEF InStep, Loader
  <2> QED BY <2>1, <2>2, EmptySeq DEF Reported
<1>2. CASE ExamineOther
  <2> DEFINE e == NewEntry(Current, "UnsupportedFormat", NoSalt)
  <2>1. /\ Examining /\ entries' = Append(entries, e) /\ stage' = "idle" /\ pc = "examine" /\ pc' = pc
        /\ UNCHANGED <<found, verdict>>
    BY <1>2 DEF ExamineOther, Examining, intakeVars
  <2>2. e.path = Current /\ (Usable(e) <=> e.salt # NoSalt)
    BY DEF NewEntry, Usable
  <2> HIDE DEF e
  <2>3. \A i \in 1 .. Len(entries') : /\ entries'[i].path = found'[i]
                                      /\ Usable(entries'[i]) <=> entries'[i].salt # NoSalt
    BY <2>1, <2>2, EntryAdded
  <2> QED BY <2>1, <2>3 DEF Reported, Usable
<1>3. CASE BeginExamine
  <2>1. /\ loading' = Current /\ verdict' = "pending" /\ pc = "examine"
        /\ UNCHANGED <<found, entries, pc>>
    BY <1>3 DEF BeginExamine, Examining, Load
  <2> QED BY <2>1 DEF Reported, Current, Usable
<1>4. CASE LoadStep
  <2>1. UNCHANGED <<loading, found, entries, report, pc>> /\ stage # "idle"
    BY <1>4 DEF LoadStep, IntakeStep, Probe, ReadFile, Decode, Screen
  <2>2. verdict' # "Usable"
    <3>1. verdict # "Usable"
      BY DEF Reported
    <3> QED BY <1>4, <3>1, GatesNeverSayUsable
            DEF LoadStep, IntakeStep, Probe, ReadFile, Decode, Screen, Goes, Answer, Gates
  <2>3. pc' = "examine"
    BY <1>0, <2>1 DEF InStep
  <2> QED BY <2>1, <2>2, <2>3 DEF Reported, Current, Usable
<1>5. CASE EndExamine
  <2>1. /\ Examining /\ entries' = Append(entries, Examined) /\ stage = "returned" /\ stage' = "idle"
        /\ verdict' = "none" /\ pc = "examine" /\ UNCHANGED <<found, pc>>
    BY <1>5 DEF EndExamine, Examining, Unload
  <2> DEFINE e == Examined
  <2>2. e.path = Current /\ (Usable(e) <=> e.salt # NoSalt)
    <3>1. verdict # "Usable" /\ loading = Current
      BY <2>1 DEF Reported
    <3> QED BY <1>0, <2>1, <3>1, ExaminedIs
  <2> HIDE DEF e
  <2>3. \A i \in 1 .. Len(entries') : /\ entries'[i].path = found'[i]
                                      /\ Usable(entries'[i]) <=> entries'[i].salt # NoSalt
    BY <2>1, <2>2, EntryAdded DEF e
  <2> QED BY <2>1, <2>3 DEF Reported, Usable
<1>6. CASE Report
  <2>1. /\ UNCHANGED <<found, entries, stage, verdict, loading>> /\ Len(entries) = Len(found)
        /\ report' = render(entries, shared_groups(entries)) /\ UNCHANGED request
    BY <1>6 DEF Report, intakeVars
  <2>2. report' = render(entries, shared_groups(entries))'
    BY <2>1 DEF render
  <2> QED BY <2>1, <2>2 DEF Reported, Current, Usable
<1>7. CASE ProbeNext \/ StartBar \/ Elsewhere \/ Finished \/ UNCHANGED vars
  <2>1. UNCHANGED <<found, entries, stage, verdict, loading, report, request>>
    BY <1>7 DEF ProbeNext, StartBar, Elsewhere, Finished, vars, intakeVars
  <2>2. pc' = "done" => pc = "done"
    BY <1>7 DEF ProbeNext, StartBar, Elsewhere, Finished, vars, Step
  <2>3. render(entries, shared_groups(entries))' = render(entries, shared_groups(entries))
    BY <2>1 DEF render
  <2> QED BY <2>1, <2>2, <2>3 DEF Reported, Current, Usable
<1> QED BY <1>1, <1>2, <1>3, <1>4, <1>5, <1>6, <1>7 DEF Next

LEMMA ReportedAlways == Spec => [](Behind /\ Listed /\ Reported)
<1>1. Init => Behind /\ Listed /\ Reported
  BY BehindInit, ListedInit, ReportedInit
<1>2. Behind /\ Listed /\ Reported /\ [Next]_vars => (Behind /\ Listed /\ Reported)'
  BY BehindSteps, ListedSteps, ReportedSteps
<1> QED BY <1>1, <1>2, PTL DEF Spec

\* When the report is there, the entries are of different files, all those
\* that were named.
LEMMA EntriesAre ==
    ASSUME Behind, Listed, Reported, pc = "done"
    PROVE  /\ \E S : entries \in Seq(S)
           /\ Len(entries) \in Nat /\ DOMAIN entries = 1 .. Len(entries)
           /\ \A i \in 1 .. Len(entries) : /\ entries[i].path \in Paths
                                           /\ Usable(entries[i]) <=> entries[i].salt # NoSalt
           /\ \A i, j \in 1 .. Len(entries) : entries[i].path = entries[j].path => i = j
           /\ \A p : p \in Named(request.argument, request.recursive, there)
                       <=> \E i \in 1 .. Len(entries) : entries[i].path = p
<1> DEFINE named == Named(request.argument, request.recursive, there)
           L == Len(entries)
<1>1. PICK S : entries \in Seq(S)
  BY DEF Behind, InStep
<1>2. L \in Nat /\ DOMAIN entries = 1 .. L
  BY <1>1
<1>3. found = InOrder(named) /\ named \subseteq Paths
  BY FoundIs
<1> HIDE DEF named
<1>4. /\ found \in Seq(Paths)
      /\ \A p : p \in named <=> \E i \in 1 .. Len(found) : found[i] = p
      /\ \A i, j \in 1 .. Len(found) : found[i] = found[j] => i = j
  BY <1>3, InOrderIs
<1>5. /\ L = Len(found)
      /\ \A i \in 1 .. L : entries[i].path = found[i] /\ (Usable(entries[i]) <=> entries[i].salt # NoSalt)
  BY DEF Reported
<1>6. \A i \in 1 .. L : found[i] \in Paths
  BY <1>4, <1>5
<1> HIDE DEF L
<1> QED BY <1>1, <1>2, <1>4, <1>5, <1>6 DEF L, named


\* The salts of the groups of the warning.
Salted(salts, warning, list) ==
    /\ \A g, h \in DOMAIN warning : salts[g] = salts[h] => g = h
    /\ \A g \in DOMAIN warning : salts[g] # NoSalt
    /\ \A g \in DOMAIN warning : \A p : p \in ToSet(warning[g]) <=> Has(list, Len(list), p, salts[g])
    /\ \A i, j \in 1 .. Len(list) :
         i # j /\ list[i].salt = list[j].salt /\ list[i].salt # NoSalt
           => \E g \in DOMAIN warning : salts[g] = list[i].salt

LEMMA WarningHas ==
    ASSUME NEW list, Len(list) \in Nat,
           \A i \in 1 .. Len(list) : list[i].path \in Paths,
           \A i, j \in 1 .. Len(list) : list[i].path = list[j].path => i = j
    PROVE  \E salts : Salted(salts, shared_groups(list), list)
<1> DEFINE L == Len(list)
           warning == shared_groups(list)
<1>0. PICK S : \E groups \in Seq(Group(S)) : /\ Grouped(groups, list, L)
                                             /\ warning = NamesOf(Kept(groups, Several(groups)))
  BY SharedGroupsAre
<1>1. PICK groups \in Seq(Group(S)) : /\ Grouped(groups, list, L)
                                      /\ warning = NamesOf(Kept(groups, Several(groups)))
  BY <1>0
<1> DEFINE G == Len(groups)
           several == Several(groups)
           kept == Kept(groups, several)
<1>2. G \in Nat /\ DOMAIN groups = 1 .. G
      /\ \A g \in 1 .. G : groups[g].names \in Seq(Paths)
  <2> DEFINE T == Group(S)
  <2>1. groups \in Seq(T)
    OBVIOUS
  <2>2. \A t \in T : t.names \in Seq(Paths)
    BY DEF Group
  <2> HIDE DEF T
  <2>3. G \in Nat /\ DOMAIN groups = 1 .. G /\ \A g \in 1 .. G : groups[g] \in T
    BY <2>1
  <2> QED BY <2>2, <2>3
<1>3. PICK w : kept \in Seq(Group(S)) /\ Places(w, kept, groups, (1 .. G) \cap several)
  <2> DEFINE T == Group(S)
  <2>1. groups \in Seq(T)
    OBVIOUS
  <2> HIDE DEF T, several
  <2>2. kept \in Seq(T) /\ \E w : Places(w, kept, groups, (1 .. G) \cap several)
    BY <2>1, KeptIs
  <2> QED BY <2>2 DEF T
<1> DEFINE K == Len(kept)
           ks == (1 .. G) \cap several
<1>4. K \in Nat /\ DOMAIN kept = 1 .. K
  <2> DEFINE T == Group(S)
  <2>1. kept \in Seq(T)
    BY <1>3
  <2> HIDE DEF T, kept
  <2> QED BY <2>1
<1>5. /\ w \in [1 .. K -> ks]
      /\ \A g, h \in 1 .. K : g < h => w[g] < w[h]
      /\ \A g \in 1 .. K : kept[g] = groups[w[g]]
      /\ \A k \in ks : \E g \in 1 .. K : w[g] = k
  <2> HIDE DEF kept, ks
  <2> QED BY <1>3 DEF Places, ks
<1>6. DOMAIN warning = 1 .. K /\ \A g \in 1 .. K : warning[g] = kept[g].names
  <2> HIDE DEF kept
  <2> QED BY <1>1, <1>4 DEF NamesOf, kept
<1>7. \A k \in 1 .. G : k \in several <=> Len(groups[k].names) > 1
  BY <1>2 DEF Several
<1> HIDE DEF kept, several, warning, G, L, K
<1>8. /\ \A g, h \in 1 .. G : groups[g].salt = groups[h].salt => g = h
      /\ \A g \in 1 .. G : groups[g].salt # NoSalt
      /\ \A g \in 1 .. G : \A p : In(groups[g].names, p) <=> Has(list, L, p, groups[g].salt)
      /\ \A i \in 1 .. L : list[i].salt # NoSalt => \E g \in 1 .. G : groups[g].salt = list[i].salt
  BY <1>1 DEF Grouped, G
<1>9. \A g \in 1 .. K : w[g] \in 1 .. G /\ w[g] \in Nat
  BY <1>2, <1>5
<1> DEFINE salts == [g \in 1 .. K |-> groups[w[g]].salt]
<1>10. \A g \in 1 .. K : salts[g] = groups[w[g]].salt /\ warning[g] = groups[w[g]].names
  BY <1>5, <1>6
<1> HIDE DEF salts, ks
<1>11. ASSUME NEW g \in 1 .. K, NEW h \in 1 .. K, salts[g] = salts[h] PROVE g = h
  <2>1. w[g] = w[h]
    BY <1>8, <1>9, <1>10, <1>11
  <2>2. ~(g < h) /\ ~(h < g)
    BY <1>5, <1>9, <2>1
  <2>3. g \in Int /\ h \in Int
    OBVIOUS
  <2> QED BY <2>2, <2>3
<1>12. \A g \in 1 .. K : salts[g] # NoSalt
  BY <1>8, <1>9, <1>10
<1>13. ASSUME NEW g \in 1 .. K, NEW p PROVE p \in ToSet(warning[g]) <=> Has(list, L, p, salts[g])
  <2> DEFINE names == groups[w[g]].names
  <2>1. warning[g] = names /\ names \in Seq(Paths)
    BY <1>2, <1>9, <1>10
  <2>2. In(names, p) <=> Has(list, L, p, salts[g])
    BY <1>8, <1>9, <1>10
  <2> HIDE DEF names
  <2>3. p \in ToSet(names) <=> In(names, p)
    <3>1. DOMAIN names = 1 .. Len(names)
      BY <2>1
    <3> QED BY <3>1 DEF ToSet, In
  <2> QED BY <2>1, <2>2, <2>3
<1>14. ASSUME NEW i \in 1 .. L, NEW j \in 1 .. L, i # j, list[i].salt = list[j].salt, list[i].salt # NoSalt
       PROVE  \E g \in 1 .. K : salts[g] = list[i].salt
  <2>1. PICK k \in 1 .. G : groups[k].salt = list[i].salt
    BY <1>8, <1>14
  <2> DEFINE names == groups[k].names
  <2>2. In(names, list[i].path) /\ In(names, list[j].path)
    <3>1. Has(list, L, list[i].path, groups[k].salt) /\ Has(list, L, list[j].path, groups[k].salt)
      BY <1>14, <2>1 DEF Has
    <3> QED BY <1>8, <3>1
  <2>3. list[i].path # list[j].path
    BY <1>14 DEF L
  <2>4. Len(names) \in Nat
    BY <1>2
  <2> HIDE DEF names
  <2>5. PICK a \in 1 .. Len(names), b \in 1 .. Len(names) : a # b
    <3>1. PICK a \in 1 .. Len(names) : names[a] = list[i].path
      BY <2>2 DEF In
    <3>2. PICK b \in 1 .. Len(names) : names[b] = list[j].path
      BY <2>2 DEF In
    <3>3. a # b
      BY <2>3, <3>1, <3>2
    <3> QED BY <3>3
  <2>6. Len(names) > 1
    BY <2>4, <2>5
  <2>7. k \in ks
    BY <1>7, <2>6 DEF names, ks
  <2>8. PICK g \in 1 .. K : w[g] = k
    BY <1>5, <2>7
  <2> QED BY <1>10, <2>1, <2>8
<1>15. Salted(salts, warning, list)
  BY <1>6, <1>11, <1>12, <1>13, <1>14 DEF Salted, L
<1> QED BY <1>15 DEF warning

\* Wherever they are in the list and however many files are between them: two
\* files share a group of the warning exactly when both can carry a payload
\* and derive one salt, and no file is in two groups.
THEOREM WarningIsComplete == Spec => []WarningIsExact
<1>1. Behind /\ Listed /\ Reported => WarningIsExact
  <2> SUFFICES ASSUME Behind, Listed, Reported, pc = "done" PROVE WarningIsExact
    BY DEF WarningIsExact
  <2> DEFINE L == Len(entries)
             warning == shared_groups(entries)
  <2>1. /\ L \in Nat /\ DOMAIN entries = 1 .. L
        /\ \A i \in 1 .. L : /\ entries[i].path \in Paths
                             /\ Usable(entries[i]) <=> entries[i].salt # NoSalt
        /\ \A i, j \in 1 .. L : entries[i].path = entries[j].path => i = j
    BY EntriesAre
  <2>2. report.groups = warning
    BY DEF Reported, render
  <2>3. PICK salts : Salted(salts, warning, entries)
    BY <2>1, WarningHas
  <2> HIDE DEF L, warning
  <2>4. /\ \A g, h \in DOMAIN warning : salts[g] = salts[h] => g = h
        /\ \A g \in DOMAIN warning : salts[g] # NoSalt
        /\ \A g \in DOMAIN warning : \A p : p \in ToSet(warning[g]) <=> Has(entries, L, p, salts[g])
        /\ \A i, j \in 1 .. L :
             i # j /\ entries[i].salt = entries[j].salt /\ entries[i].salt # NoSalt
               => \E g \in DOMAIN warning : salts[g] = entries[i].salt
    BY <2>3 DEF Salted, L
  <2>5. \A i \in 1 .. L : \A s : Has(entries, L, entries[i].path, s) <=> entries[i].salt = s
    BY <2>1 DEF Has
  <2>6. ASSUME NEW i \in 1 .. L, NEW j \in 1 .. L, i < j
        PROVE  (/\ Usable(entries[i]) /\ Usable(entries[j])
                /\ entries[i].salt = entries[j].salt)
                 <=> \E g \in DOMAIN warning :
                       {entries[i].path, entries[j].path} \subseteq ToSet(warning[g])
    <3>1. ASSUME Usable(entries[i]), Usable(entries[j]), entries[i].salt = entries[j].salt
          PROVE  \E g \in DOMAIN warning : {entries[i].path, entries[j].path} \subseteq ToSet(warning[g])
      <4>1. i # j /\ entries[i].salt # NoSalt
        BY <2>1, <2>6, <3>1
      <4>2. PICK g \in DOMAIN warning : salts[g] = entries[i].salt
        BY <2>4, <3>1, <4>1
      <4>3. entries[i].path \in ToSet(warning[g]) /\ entries[j].path \in ToSet(warning[g])
        BY <2>4, <2>5, <3>1, <4>2
      <4> QED BY <4>3
    <3>2. ASSUME NEW g \in DOMAIN warning, {entries[i].path, entries[j].path} \subseteq ToSet(warning[g])
          PROVE  /\ Usable(entries[i]) /\ Usable(entries[j])
                 /\ entries[i].salt = entries[j].salt
      <4>1. entries[i].path \in ToSet(warning[g]) /\ entries[j].path \in ToSet(warning[g])
        BY <3>2
      <4>2. entries[i].salt = salts[g] /\ entries[j].salt = salts[g] /\ salts[g] # NoSalt
        BY <2>4, <2>5, <4>1
      <4> QED BY <2>1, <4>2
    <3> QED BY <3>1, <3>2
  <2>7. ASSUME NEW g \in DOMAIN warning, NEW h \in DOMAIN warning, g # h
        PROVE  ToSet(warning[g]) \cap ToSet(warning[h]) = {}
    <3> SUFFICES ASSUME NEW p, p \in ToSet(warning[g]), p \in ToSet(warning[h]) PROVE FALSE
      OBVIOUS
    <3>1. Has(entries, L, p, salts[g]) /\ Has(entries, L, p, salts[h])
      BY <2>4
    <3>2. PICK i \in 1 .. L : entries[i].path = p
      BY <3>1 DEF Has
    <3>3. entries[i].salt = salts[g] /\ entries[i].salt = salts[h]
      BY <2>5, <3>1, <3>2
    <3> QED BY <2>4, <2>7, <3>3
  <2> QED BY <2>1, <2>2, <2>6, <2>7 DEF WarningIsExact
<1> QED BY <1>1, ReportedAlways, PTL

\* A list without repetition is as long as what it lists.
LEMMA ListCounts ==
    ASSUME NEW n \in Nat, NEW S, NEW f \in [1 .. n -> S],
           \A i, j \in 1 .. n : f[i] = f[j] => i = j,
           \A p \in S : \E i \in 1 .. n : f[i] = p
    PROVE  Cardinality(S) = n
<1>1. f \in Bijection(1 .. n, S)
  BY DEF Bijection, Injection, Surjection, IsInjective
<1> QED BY <1>1, FS_CountingElements DEF ExistsBijection

\* The report of a list: the counts make it up, and every line is of an entry.
LEMMA RenderIs ==
    ASSUME NEW S, NEW list \in Seq(S), NEW groups
    PROVE  LET r == render(list, groups)
               listed == request.json \/ request.all
           IN  /\ r.valid \in Nat /\ r.invalid \in Nat /\ r.valid + r.invalid = Len(list)
               /\ Len(r.lines) = IF listed THEN Len(list) ELSE r.valid
               /\ ToSet(r.lines) \subseteq ToSet(Lines(list))
               /\ (r.hint = "embed") <=> (r.valid > 0 /\ ~request.json)
<1> DEFINE P == {i \in DOMAIN list : Usable(list[i])}
           Q == DOMAIN list \ P
           valid == Kept(list, P)
           invalid == Kept(list, Q)
           listed == request.json \/ request.all
           line(e) == [path |-> e.path, verdict |-> e.verdict]
           T == {line(list[i]) : i \in DOMAIN list}
           upper == Lines(valid)
           lower == IF listed THEN Lines(invalid) ELSE <<>>
           r == render(list, groups)
<1>1. /\ r.lines = upper \o lower /\ r.valid = Len(valid) /\ r.invalid = Len(invalid)
      /\ r.hint = IF request.json THEN "none"
                  ELSE IF valid # <<>> THEN "embed"
                  ELSE IF invalid # <<>> THEN "generate" ELSE "none"
  BY DEF render
<1>2. Len(valid) + Len(invalid) = Len(list)
  <2> HIDE DEF P
  <2> QED BY KeptParts
<1>3. ASSUME NEW positions
      PROVE  /\ Kept(list, positions) \in Seq(S)
             /\ Lines(Kept(list, positions)) \in Seq(T)
             /\ Len(Lines(Kept(list, positions))) = Len(Kept(list, positions))
  <2> DEFINE kept == Kept(list, positions)
             ks == (1 .. Len(list)) \cap positions
  <2>1. kept \in Seq(S) /\ \E w : Places(w, kept, list, ks)
    BY KeptIs
  <2>2. PICK w : Places(w, kept, list, ks)
    BY <2>1
  <2>3. DOMAIN list = 1 .. Len(list)
    OBVIOUS
  <2> HIDE DEF kept
  <2>4. Len(kept) \in Nat /\ DOMAIN kept = 1 .. Len(kept)
    BY <2>1
  <2>5. \A i \in 1 .. Len(kept) : line(kept[i]) \in T
    <3> SUFFICES ASSUME NEW i \in 1 .. Len(kept) PROVE line(kept[i]) \in T
      OBVIOUS
    <3>1. kept[i] = list[w[i]] /\ w[i] \in DOMAIN list
      BY <2>2, <2>3 DEF Places
    <3> QED BY <3>1
  <2> DEFINE lines == [i \in 1 .. Len(kept) |-> line(kept[i])]
  <2>6. Lines(kept) = lines
    BY <2>4 DEF Lines
  <2> HIDE DEF T, line
  <2>7. lines \in Seq(T) /\ Len(lines) = Len(kept)
    BY <2>4, <2>5
  <2> QED BY <2>1, <2>6, <2>7 DEF kept
<1>4. /\ valid \in Seq(S) /\ upper \in Seq(T) /\ Len(upper) = Len(valid)
      /\ invalid \in Seq(S) /\ Lines(invalid) \in Seq(T) /\ Len(Lines(invalid)) = Len(invalid)
  <2> HIDE DEF P, Q, T
  <2> QED BY <1>3
<1> HIDE DEF valid, invalid, P, Q, r, upper
<1>5. Len(valid) \in Nat /\ Len(invalid) \in Nat /\ (valid # <<>> <=> Len(valid) > 0)
  BY <1>4, EmptySeq
<1>6. lower \in Seq(T) /\ Len(lower) = IF listed THEN Len(invalid) ELSE 0
  <2> HIDE DEF T
  <2> QED BY <1>4
<1> HIDE DEF lower, T
<1>7. upper \o lower \in Seq(T) /\ Len(upper \o lower) = Len(upper) + Len(lower)
  BY <1>4, <1>6, ConcatProperties
<1>8. ToSet(r.lines) \subseteq ToSet(Lines(list))
  <2>1. ToSet(r.lines) \subseteq T
    <3>1. r.lines \in Seq(T)
      BY <1>1, <1>7
    <3>2. \A i \in DOMAIN r.lines : r.lines[i] \in T
      BY <3>1
    <3> QED BY <3>2 DEF ToSet
  <2>2. ToSet(Lines(list)) = T
    BY DEF ToSet, Lines, T
  <2> QED BY <2>1, <2>2
<1>9. Len(r.lines) = IF listed THEN Len(list) ELSE r.valid
  <2>1. Len(r.lines) = Len(valid) + (IF listed THEN Len(invalid) ELSE 0)
    BY <1>1, <1>4, <1>6, <1>7
  <2> HIDE DEF listed
  <2>2. CASE listed
    BY <1>2, <2>1, <2>2
  <2>3. CASE ~listed
    BY <1>1, <1>5, <2>1, <2>3
  <2> QED BY <2>2, <2>3
<1>10. (r.hint = "embed") <=> (r.valid > 0 /\ ~request.json)
  BY <1>1, <1>5
<1>11. r.valid \in Nat /\ r.invalid \in Nat /\ r.valid + r.invalid = Len(list)
  BY <1>1, <1>2, <1>5
<1> HIDE DEF listed
<1>12. /\ r.valid \in Nat /\ r.invalid \in Nat /\ r.valid + r.invalid = Len(list)
       /\ Len(r.lines) = IF listed THEN Len(list) ELSE r.valid
       /\ ToSet(r.lines) \subseteq ToSet(Lines(list))
       /\ (r.hint = "embed") <=> (r.valid > 0 /\ ~request.json)
  BY <1>8, <1>9, <1>10, <1>11
<1> QED BY <1>12 DEF r, listed

\* Every file that was named is accounted for once, whatever has become of it.
THEOREM NobodyIsForgotten == Spec => []AllAccountedFor
<1>1. Behind /\ Listed /\ Reported => AllAccountedFor
  <2> SUFFICES ASSUME Behind, Listed, Reported, pc = "done" PROVE AllAccountedFor
    BY DEF AllAccountedFor
  <2> DEFINE named == Named(request.argument, request.recursive, there)
             L == Len(entries)
             path(i) == entries[i].path
  <2>1. /\ L \in Nat /\ DOMAIN entries = 1 .. L
        /\ \A i, j \in 1 .. L : path(i) = path(j) => i = j
        /\ \A p : p \in named <=> \E i \in 1 .. L : path(i) = p
    BY EntriesAre
  <2>2. PICK S : entries \in Seq(S)
    BY EntriesAre
  <2>3. report = render(entries, shared_groups(entries))
    BY DEF Reported
  <2>4. Cardinality(named) = L
    <3> DEFINE f == [i \in 1 .. L |-> path(i)]
    <3> HIDE DEF named, L, path
    <3>1. f \in [1 .. L -> named] /\ \A i \in 1 .. L : f[i] = path(i)
      BY <2>1
    <3>2. \A i, j \in 1 .. L : f[i] = f[j] => i = j
      BY <2>1, <3>1
    <3>3. \A p \in named : \E i \in 1 .. L : f[i] = p
      BY <2>1, <3>1
    <3> HIDE DEF f
    <3> QED BY <2>1, <3>1, <3>2, <3>3, ListCounts
  <2>5. {entries[i].path : i \in DOMAIN entries} = named
    <3> DEFINE paths == {entries[i].path : i \in DOMAIN entries}
    <3>1. \A p : p \in paths <=> \E i \in 1 .. L : path(i) = p
      BY <2>1
    <3> HIDE DEF paths, named
    <3>2. paths = named
      BY <2>1, <3>1
    <3> QED BY <3>2 DEF paths
  <2>6. /\ report.valid + report.invalid = L
        /\ Len(report.lines) = IF request.json \/ request.all THEN L ELSE report.valid
        /\ ToSet(report.lines) \subseteq ToSet(Lines(entries))
        /\ (report.hint = "embed") <=> (report.valid > 0 /\ ~request.json)
    BY <2>2, <2>3, RenderIs
  <2> HIDE DEF named, L
  <2> QED BY <2>4, <2>5, <2>6 DEF AllAccountedFor, named
<1> QED BY <1>1, ReportedAlways, PTL
=============================================================================
