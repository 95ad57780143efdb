# Stenoxide in TLA+

Stenoxide hides a message in a PNG photograph (`embed`), draws a synthetic
container around a message (`generate`), and reads either back (`extract`).
Sender and receiver agree on nothing in advance but a password: the salt of the
key is a perceptual hash of the image, so the key depends on the picture, the
picture depends on the payload, and the payload is sealed under the key. A
second mode replaces the password by a key pair.

These modules model how the code breaks that circle, what it leaves on disk
when it does not get to the end, the arithmetic by which both ends find the
same bits, and the commands around it in a directory that other programs use.
Line numbers are in `PROJECT.json`, under `map`; `core` is
`stenoxide-core/src`, `cli` is `stenoxide-cli/src`.

## 1. The system

### Components, their state and their operations

| Component | State | Operations | Where |
|---|---|---|---|
| Perceptual hash | none (a measurement of 64 coefficients) | `compute_stable_phash`, `phash_salt_hypotheses`, `recover_phash_salt` | core `image_io/phash.rs` |
| Embedding pipeline | the samples, the secrets alive, the output file | `embed`, eleven steps with a refusal each | core `pipeline/mod.rs` |
| Extraction pipeline | the hypothesis, the prefix, two rayon workers | `extract`, `attempt_extract`, `decode_trellis`, `read_generated` | core `pipeline/mod.rs` |
| PNG output | the file under the output name | `write_png` | core `pipeline/frame.rs` |
| Container generation | candidate, draft salt, image | `generate`, the candidate loop | core `generate/` |
| Recipient mode | message key, identity | `generate_container_for_recipient`, `extract_with_identity`, `Identity::open` and `seal` | core `crypto/kem.rs`, `pipeline/mod.rs`, `generate/mod.rs` |
| Syndrome-trellis coder | metrics, survivors, register | `stc_encode_safe`, `stc_decode_safe` | core `stego/stc/native.rs` |
| Visiting order | keystream, index, permutation | `generate_pixel_permutation`, `gather_cover_symbols`, `apply_cover_symbols` | core `stego/permute.rs`, `pipeline/frame.rs` |
| Sizer and frame budget | none | `capacity_for_image`, the charge in `embed`, the gates of coder and receiver | core `stego/sizer.rs`, `pipeline/`, `native.rs` |
| Container dimensions | none | `ContainerDimensions::new`, `fits`, `recommended_square_side`, `read_generated_after` | core `generate/mod.rs` |
| Commands | file system, key material, what was said | `run_extract`, `run_embed`, `run_generate`, `run_keygen` | cli `main.rs`, `payload.rs` |
| Cipher, key derivation, compression | none | idealised | core `crypto/` |
| Intake | the path, what the probe saw, the bytes | `load_and_validate`: `probe_geometry`, read, `validate_magic_bytes`, `decode_png`, the JPEG screen | core `image_io/validate.rs` |
| JPEG detector | none | `detect_jpeg_artifacts`, `block_energies` | core `image_io/jpeg_detect.rs` |
| HILL cost map | the plane in work, the region in search | `compute_cost`: three filters, percentiles, flood fill, three gates | core `cost/hill.rs` |
| PNG envelope | what was kept of a file | `PngEnvelope::read`, `synthesised`, `record`, `dominant_length`; `write_png` | core `image_io/envelope.rs`, `pipeline/frame.rs` |
| Texture and carrier | the samples drawn so far | `base_levels`, `draw_free`, `draw_with_lsb`, `render`, `gather_carrier_bits`, `read_generated_after` | core `generate/` |
| Key armor | none | `encode_labelled`, `decode_labelled` | core `crypto/armor.rs` |
| Scan command | the list, the sizes, the entries, the bar | `run`: `collect_files`, two passes, `shared_groups`, the renderings | cli `scan.rs`, `progress.rs` |

The parts meet in a few places only. The pipelines call each other's helpers
and share no state; sender and receiver share one file and the definition of the
salt; the two rayon workers share the prefix, which neither changes; a command
shares its directory with whatever else runs there. There are no locks, no
channels and no retries over a network, and nothing is persisted but the output
files.

### What is hard

* The receiver measures another picture than the sender did, so the salt it
  computes may be wrong by one bit, and it has to find out which bit without
  knowing whether there is a payload at all.
* The search for that bit answers with one of several failures, and which one
  may not say why.
* The output is created under its final name, without a temporary file. A
  crash, a full disk, or a reader in the middle of it, meets a fragment.
* Secrets have to be gone before the slow and fallible write.
* `generate` derives its key from a draft and draws the container again.
* The coder and the decoder cut the samples into blocks and segments by
  arithmetic of their own; four places compute the largest payload, two of them
  in `f32`; the suggested side is computed backwards.
* Both ends consume one keystream with rejected draws.
* Destinations are judged long before they are opened, by name; a container is
  probed and then read, and may be another file by then.
* Planes are row-major, so a neighbour past the end of a row is a pixel too.
* `scan` walks a tree others change, in two passes, and has to say of two files
  far apart that they share a salt.

`PROJECT.json` lists each of these under `hazards`, at its line, with the
properties that would catch it going wrong.

### What makes each part correct

* Hash: every salt the sender can have used is among the receiver's hypotheses.
* Extraction: a payload that is there comes out; nothing comes out that was not
  sealed; all failures after the gates are one.
* Embedding and generation: a whole container on disk is one the receiver can
  read; no refusal touches the output path; success means a whole container.
* Coder: the message survives, at the least distortion, at one level a sample.
* Order: both ends have the same permutation, whoever is ahead.
* Budgets: what one place accepts no later one refuses; a suggestion is enough.
* Intake: what is decoded and accepted keeps the limits, whatever was probed; a
  probe refuses what the loader would.
* Filters and detector: no border is invented, the grid is seen and nothing
  else, the regions are those of the picture.
* Envelope: a container has the chunks and the cut of its cover, and no
  metadata of a person or a program.
* Carrier: every bit can be drawn, and is read back where it was put.
* Armor: a line with a gap in it is refused.
* Scan: each file named once, a warning for exactly the pairs that share a salt,
  a bar that ends full.
* Commands: no file of somebody else is lost unasked, with one exception that
  section 7 names, no fragment of the plaintext stays, one sentence for every
  failure after a key was read.

## 2. The modules

```
PerceptualHash ── Container ─┬─ ExtractPipeline ──(refines)── Delivery
                             ├─ EmbedInputs ── EmbedPipeline ── OutputFile
                             └─ GenerateContainer ─ OutputFile
StegoChannel = EXTENDS ExtractPipeline + Sender: INSTANCE EmbedPipeline, over one path
Armor ── RecipientMode ── OutputFile
SharedFolder ── Command ─┬─ ExtractCommand ─┐
                         ├─ KeyGeneration ──┼─ Commands
                         └─ ImageCommand ───┘
Intake + FileListing ── Scan
Envelope + JpegGrid + HillCost + Carrier ── ContainerFile
SyndromeTrellis    VisitingOrder    FrameBudget    ContainerGeometry
```

**PerceptualHash** models the margin filter. A measurement gives each hash bit
its signed distance from the median, which is all the filter looks at; a salt is
the set of bits that are one.

**Container** says what a file is to both pipelines: the verdict of the gates,
its measurement, who made it, under which key and how it was damaged. Argon2id
with HKDF is an injection, the cipher opens what it sealed and nothing else. A
chance match of a four byte prefix, probability 2^-32, is kept and switched by
`Collisions`, since the code argues about it.

**ExtractPipeline** has one action per step of `extract`, and two per worker of
the `rayon::join`. `prefix` is the set of keys under which the rejected reading
shows a frame magic. Its refinement mapping to **Delivery** keeps `image`,
`password` and `result`, and supplies `Answers(file, password)`.

**EmbedPipeline** has one action per numbered step of `embed`; `held` is the set
of secrets in memory, so each `drop` in the source is a set difference.
**OutputFile** is `write_png`, with the failures of each call.
**GenerateContainer** is the candidate loop. In all three the process may be
killed between any two steps.

**StegoChannel** composes the two pipelines over one path, which the receiver
opens at any moment. The receiver is ExtractPipeline under its own names, so
that what is proved about it can be used of the composition; the sender is
`Sender`, an instance of EmbedPipeline.

**RecipientMode** is the mode with key pairs, sender and receiver, with key
files that are mislabelled, cut or changed. ML-KEM yields the shared secret to
the addressee of an unchanged encapsulation and a secret of its own otherwise;
it never fails, as the crate does not. The receiver has a step for each call of
`extract_with_identity`: the gates, the decapsulation with the derivation of the
message key, the reading of the payload. The secret goes from one to the next,
and the failures leave from where they occur; that they are the same answer is
`OneAnswer`.

**SyndromeTrellis** models the coder and decoder at the level of positions,
blocks, registers and metrics, one action per position and per end of a block in
either pass and in the decoder. A block is closed as in the source, in place and
one state after the other, each folded from entries the ones before it may have
overwritten. The keystream is a free choice of columns and of
directions. What the passes are to compute is stated apart from them: `Syndrome`
is the product of a vector with the parity-check matrix, whose entries `Meets`
gives in closed form, and `Distortion` the sum of the prices.

**VisitingOrder** runs the shuffle at both ends over one keystream, fixed as it
is first read, in any interleaving; then gather, code, apply and gather.

**FrameBudget** follows one payload through the sizer, the charge, the two
regions of the coder and the gate of the receiver. An `f32` product truncated is
any integer within the relative error of three roundings.

**ContainerGeometry** is the arithmetic of `generate`: what is permitted, what
fits, what is suggested, and what the receiver takes for the cipher text.

**SharedFolder** is a directory under several programs: names bound to files,
files that keep their identity when the name goes. **Command** is what the
handlers share: arguments, the exit, and `write_payload_file` on the folder.
**ExtractCommand**, **KeyGeneration** and **ImageCommand** (embed and generate)
are the handlers, one action per call that can fail or that the file system can
interfere with. **Commands** puts them together: the user runs one of the four,
other programs act between any two of its calls, and it can be killed.
`NothingReplacedUnasked` is about each step of a command: neither the content of
somebody else's file changes nor the name it goes by.

**Intake** is `load_and_validate`: one action for the probe, one for the reading,
one for the decoder, one for the screen; a file may be replaced between any two.
A picture is a record of what the gates look at. **FileListing** is the argument
of `scan`: a file, a directory, or a pattern with `*`, `?` and `**`, over paths
that are sequences of components. **Scan** is the command over both: two passes,
a bar measured in the first and filled in the second, and the report.

**ContainerFile** takes one file through everything that reads and rebuilds it:
**Envelope** (chunks in front of, around and behind the pixels), **JpegGrid** (the
pairs of neighbours inside blocks and across their edges, over any choice of
blocks), **HillCost** (the filters with their mirrored border, the percentiles,
the search for regions one pixel at a time, the gates) and, where there is no
cover, **Carrier** (a drawn container sample by sample: cells, levels, clamps, the
draw under a given bit, which may give up and leaves no container then, and the
two readers). A type of chunk is technical, ancillary or critical; unknown ones
of both cases occur. `ShapeSurvives` compares the copy with the cover, chunk by
chunk, and not only with what the reader noted of it.

**Armor** is the Base64 codec of the key files, in closed form: symbol `i` of a
line and byte `i` of a material are given by the group they fall into and their
place in it. **RecipientMode** reads its keys through it, from lines that
somebody cut or changed. Its MC module holds the vectors of RFC 4648 that the
tests of the code pin.

Definitions named in a comment as a mutant are variants of the definition that
follows them, each with one plausible mistake. No specification uses them; they
are there to show that the property they belong to can fail.

## 3. The runs

Distinct states are in brackets.

| Run | Question | Bounds and why they are enough |
|---|---|---|
| ExtractPipeline [249 335] | Does the search for the salt recover every payload that is there, return nothing that was not sealed, and answer as Delivery does? | Every file of the shape of `PossibleFiles` (three makers, damage to each region, gates passed or not), every derivation failing or not |
| GenerateContainer [122 864] | Does the candidate loop end, and is what it publishes sealed under its own hash? | Three candidates: one skipped as a draft, one thrown away as a container, one kept |
| StegoChannel [3 098 816] | The two pipelines over one path: what is on disk and in memory after every refusal, failure and crash of the sender, and what does a receiver get who opens the path at any moment? | One message sent, another in an older file; the whole range of measurements on both sides |
| SyndromeTrellis [669 952] | Is the vector found a cheapest one, and does the decoder read the message back? | Register of 3 bits, 4 positions, all column choices; 3 bits in blocks of unequal width and two segments; covers at both ends of the range and inside; flat, uneven, zero and invalid costs; a message too long |
| VisitingOrder [111 784] | Do the symbols arrive, whatever is rejected and whoever is ahead? | Three pixels, words from 0 to 7, so that two are rejected for a bound of 3; four words |
| FrameBudget [5 164] | Is what the sizer accepts refused by nobody later? | The constants of the code; images at each limit up to the largest, all or few positions usable, lengths at each limit, every rounding |
| ContainerGeometry [288 442] | Do budgets, layout and suggestions agree? | A hundredth of the sides of the code, payloads one below, at and one above the capacity of every pair of sides |
| RecipientMode [826 560] | Does a container for a public key open for its holder and for nobody else, and is a damaged line refused? | Two people; the lines of one cut between and within groups, with a foreign character, padding in the middle, another symbol, another last symbol, another label; two candidates |
| Commands [2 570 127] | What do the four commands leave in a shared folder, what do they read, print and hold? | Three names, one in a directory that may be missing; two files made by others besides the one that was there, of three kinds; every failure and kill |
| Scan [1 213 949] | Does scan list what was named, judge it by the loader's limits, warn of shared salts and fill its bar, while files change? | Every pattern of up to three characters over a letter, another, `*` and `?`, and patterns with `**`, in a tree three deep with a file that is named like a pattern, with one file replaced or removed at any moment; every assignment of six pictures to three files; and each of eleven flaws |
| ContainerFile [171 708] | Does a container look like its cover to the next reader, do detector and cost map measure the picture and not its storage, and does a drawn container carry? | All files of up to three chunks before the pixels, eight ways to cut them, a chunk behind, also of a critical type no decoder knows; every picture of 3 or 4 by 3 pixels of two levels and six larger; drawn containers of one row and one column, at the lowest and highest levels, of all lengths, in both modes |
| GeometryAdvice | `violation`: see section 7 | the constants of the code and one payload |

Scaled constants. Scan divides sides by 1000 and keeps the order of the limits;
`Word` is where a product would wrap. ContainerFile has blocks of 2 by 2 pixels,
so that pictures of a few pixels have inner blocks and blocks at both borders;
its Gaussians have whole taps, and the limit of the texture gate is scaled with
their sum; bytes have two bits and the grid of the texture 2 by 2 cells and the
ring around them. Nothing in the formulas depends on these sizes, and each
interesting case (a tap that reaches past two borders, a tie between two chunk
lengths, a level at its clamp) occurs.

Bounds in common. Two hash bits, because the filter allows one uncertain bit
and refuses two: with two bits there are images with none, one and two.
Distances from -2 to 2 around a margin of 2, moved by at most 1, give every
combination of stable or not, before or after, and a bit that flips; the
theorems of section 6 cover 64 bits and every margin. Two messages, one of
which does not fit or expands past the ceiling. Three passwords for a receiver:
the right one, a wrong one, the empty one.

`SharedFolder` starts with one file of others. They can add and rewrite files
before the first call of a command, so every other beginning is reached too.

The run with `violation` checks one statement that the repository makes of
itself; section 7 has it.

Every machine has a type invariant. Where the proofs establish it, or where the
run has harder questions, no run repeats it; so it is with `SearchIsBounded`,
`FailuresAreOne`, `Bijective`, `DerivationsAreBounded` and the `TouchedLast` of
GenerateContainer, which are theorems.

## 4. Fairness

`EmbedPipeline`, `ExtractPipeline` and `GenerateContainer` assume weak fairness
of their own steps: each is one synchronous call, every statement of it is
executed once it is reached, and rayon runs both halves of a join before the
join returns. A crash is a step without fairness, after which nothing is owed.
The liveness properties are `SearchEnds` (the candidate loop ends, whatever the
textures look like) and the fairness of `Delivery` inside `KeepsPromise` (an
extraction answers). The other modules state safety only and assume no
fairness; `EmbedPipeline` is run inside StegoChannel, without its fairness.
Their finding that something is never lost does not depend on anybody being
scheduled.

Deadlock is checked in every run. Where the system stops, a `Finished` step says
when it may; a state where nothing is possible and `Finished` is not is an
error.

## 5. How properties are kept honest

Each property of a passing run has a mutant of a definition that models code,
in `PROJECT.json` under `mutants`; with it in place of the original, the same
run with the same bounds finds the property violated. The mutants are the
mistakes one would make here: retrying the salt as measured in place of its
alternative, decompressing before verifying, not comparing the container with
its draft, dropping the writer instead of finishing it, charging the frame in
bytes for bits, folding the states of a block in descending order, writing the
symbols back in raster order, giving a payload that does not decompress an
answer of its own, judging the destination by opening it, reading the payload
file by its name again, filling the bar with what is measured the second time,
pairing the last pixel of a row with what
follows it in memory, taking padding for a symbol.

## 6. What is proved

The proofs are in eight modules named after what they are about, with
`_proofs`. All of them are for every value of the constants that satisfies the
named assumptions.

**StegoChannel_proofs**, in two parts. The first is about the receiver.

* `RecoveryComplete`: if embedding moves every coefficient by at most
  `Eps < DeltaMin`, and both images are stable, the salt of the cover is among
  the hypotheses of the stego image. A bit on which the two disagree has crossed
  the median, so it lies within the margin in the stego image, where at most one
  bit does.
* `TypeCorrect`, `Authentic` (OnlyTheSealedMessage) and `Bounded`
  (SearchIsBounded) hold without further assumption. `GenuineRecovered`,
  `OneFailure` and `ImplementsDelivery` assume `~Collisions`, since the code
  gives up on a chance match (section 7). The inductive invariant says of each
  control point which hypotheses have been read in vain; its core is
  *Outstanding*: while a readable payload has not been returned, the hypothesis
  that opens it has not been read. `ImplementsDelivery` is the safety part of
  the refinement, its liveness part stays with TLC.

The second is about the sender and the path.

* `SenderGuarantees` and `SenderUndisturbed`: the invariant of the sender ties
  each control point to the gates that were passed and to the secrets that can
  be alive there, and the state of the writer to what is on disk; no step of the
  receiver disturbs it. From it `ChannelPublishes` (PublishedIsPossible) and
  `ChannelTouchesLast` (TouchedLast).
* `MessageDelivered` (Delivered, under `~Collisions`) and `OldOrNewOnly`
  (OldOrNew) put the two together: every file the receiver can find is one of
  `PossibleFiles`, so the invariant of the receiver holds of it, and a whole
  container on disk is the one the sender last held.

**GenerateContainer_proofs.** `Publishes`, `TouchesLast`, `Bounded`: the image
in memory at the write is sealed under the hash it shows, although earlier
candidates left a salt behind.

**RecipientMode_proofs**, in two parts. The first is about the lines of key
files of any length: `ReadsBack` (what `encode` writes `decode` reads back) and
`ReadWasWritten` (what `decode` accepts is what `encode` writes of the material
it gave, but for the bits behind the last byte). The core is the arithmetic of
one group, 24 bits as three bytes and as four symbols, whole or short by one or
two bytes. The second is the invariant of both sides: the key is the one that
was read and is fresh once something was sealed under it, every texture drawn
carries it, a fresh key in the file of the receiver is the key of the sender,
and the answer of the receiver is a function of its files and of what it typed.
From the two, all five properties of the run: `OneSealing` (SealedOnce),
`WholeKeysOnly` (OnlyWholeKeys), `RecipientOnly` (OnlyTheRecipient),
`RecipientReads` (Delivered) and `NothingToldApart` (OneAnswer). The last follows
the secret from the decapsulation to the tag: whatever failed on the way, the
reading ends in one answer, and it is the message exactly where the container was
sealed for this identity, nothing was damaged, the derivation worked and the
payload decompresses.
`RecipientAssumption` asks for keys of one length that are different for
different people, and that a person or a message is none of the words the two
sides answer with.

**SyndromeTrellis_proofs.** All three properties of the run: `Survives`
(MessageSurvives), `Optimal` (CheapestVector) and `Imperceptible` (OneLevel), for
every height of the register, width of a block, length of a segment, cover, cost
vector, message and draw of the columns. `TrellisAssumption` asks for a height of
two bits or more, a capacity of at most one bit a position, and a sentinel above
the sum of the costs, as the infinity of `f32` is. Costs are naturals: the theorem is
about exact sums, not about their rounding. The argument has three parts.

* The register read off the matrix: after the positions of a vector before `p`,
  bit `i` of it is the parity of the positions that meet bit `i` (`At`). A
  position adds its column (`AtAdds`), the end of a block shifts (`AtShifts`),
  the bit that is shifted out is a row of the matrix times the vector (`AtRow`),
  and at the start of a segment nothing is met yet (`AtStart`).
* Forward, the metric of a register is the cost of the cheapest vector that
  leads to it with the right bits so far: one such vector is found by following
  the survivors (`Reached`), and none costs less (`Cheapest`). Columns have
  their lowest bit set, so a register of either parity is alive inside a block
  (`Alive`), which is why the arm for a trellis without a path is never taken.
  Closing a block in place loses nothing, because no state is folded from one
  that was folded before it (`SourceNotFolded`).
  The vectors compared are those of the whole cover: the segments before
  contribute the same least cost to each.
* Backward, the register is that of one cheapest vector, which agrees with the
  positions already set and whose earlier positions the survivors still lead
  back along (`Tracing`). The decoder, resetting at multiples of the segment
  length, has `At` of that vector, so its bits are the syndrome.

The layout is arithmetic of its own: `BlocksInOrder`, `OneBlock` and `Segments`
say that integer division leaves no block empty, none over another, and that
encoder and decoder begin their segments at the same blocks.

**Placement_proofs** has three small components: the two budgets and the visiting
order. The specifications of the second and third are called `GeometrySpec` and
`OrderSpec` so that one module can hold them. `AcceptedCoded`: no payload that the sizer accepts is
refused later, for images of every size and every admissible rounding. The
assumption is `BudgetAssumption`: a header of 32 bits at 52 to 200 positions a
bit and at least 24 bytes of overhead charged; the code's 64, 8 and 16 satisfy
it. The lemmas turn the two truncated products into linear inequalities: what fits at
85 % of the whole image fits at 100 % of the image less the header region,
because the 24 bytes of overhead charged pay for the region.

In the container of `generate`, `BreakEven`: a container has room for a payload
exactly when it has as many pixels as `NeededPixels` asks for. From it
`AdviceIsEnough` and `NoAdviceFinal`, together `AdviceTrue`; `NothingIsCutOff` is
the layout.
`GeometryAssumption` asks for no more than positive constants and a root bound.

Of the visiting order: `OrdersAgree`, `VisitedOnce`, `Arrival`. The argument
is a run that neither end executes: the states one gets by consuming the
stream word by word. Each end is at the state of that run at its own cursor.
Only the last state can be finished, because a finished end draws no further
word, so two ends that are finished have consumed the same words. That run is
existentially quantified in the invariant and extended by each new word.

**Commands_proofs.** All seven properties of the run, for any number of names,
files and interfering steps: `OthersKeepTheirFiles` (NothingReplacedUnasked),
`FragmentsGo` (NoFragmentLeft), `RefusalsAreFree` (RefusalsCostNothing),
`SuccessIsWhole` (SuccessMeansFiles), `OneSentenceOnly` (OneSentence),
`IdentityGone` (IdentityIsBrief) and `ReadWasChecked` (CheckedIsRead). The
invariant follows the one file a command has a handle to: it is the only one
that can hold a fragment, it goes by no name but the one it was opened under, and
before it is opened everything in the folder is somebody else's. `OthersApart`
says what a step of others leaves alone. `OthersKeepTheirFiles` speaks of content
and of names, each step of the command for itself; the removal after a failed
write is the one step that can take a name from a file of others, and only from
one that is younger than the command's own (section 7). `SuccessIsWhole` assumes
`Public # Private`, that the two halves of a key pair are asked for under two
names, without which it is false (section 7).

**Scan_proofs.** All six properties of the run, for any tree of directories, any
files that come and go, any pattern, pictures and limits.

* `NothingUnfitLoaded` (OnlyFitImages) and `ProbeIsHonest` (ProbeAgrees): the
  loader between its two reads.
* `MatcherIsRight`: the greedy loop over one component accepts the names that
  the pattern cuts into runs, and no other. The loop comes to an end because
  the name left to try, weighed with the pattern left, becomes less with every
  turn (`TurnsShorten`). Its invariant: the name matches exactly when what is
  left of it fits what is left of the pattern, or would with a longer run for
  the last asterisk (`Hopes`); and the members since that asterisk fit where
  they were tried (`Tried`). That the asterisks before it need never be taken up
  again is `LongerRun`: a longer run only leaves the name further behind at the
  same place of the pattern, and the next asterisk can make up for that.
* `CollectsWhatIsNamed`: the components one after the other, which `Descend`
  keeps as a set of paths, reach exactly the prefixes that fit a prefix of the
  pattern (`ReachedIs`). From it `ListingIsExact` (ListsWhatIsNamed), the
  argument being a file, a directory or a pattern.
* `BarNeverOverruns` (BarEndsFull): the bar is the work of the entries done, as
  measured in the first pass, and the work of a prefix of the list is at most
  that of the list.
* `WarningIsComplete` (WarningIsExact) and `NobodyIsForgotten`
  (AllAccountedFor): the verdicts are those of the prefix that was examined
  (`Reported`), the groups are one for each salt of that prefix, with all its
  pictures in order (`PlacedKeepsGroups`, by the list that is one longer), and
  the two parts of a report are the list again (`ListCounts`).

The induction theorems of the library cannot be applied; an induction is made
as an argument about the least number that would be an exception (`NatMin`,
`NatInd`), and a recursive function is what its equations say because one that
satisfies them is built step by step (`KeepsExists`, `LoopExists`,
`OpensExists`). The sums of costs in SyndromeTrellis_proofs are treated in the
same way.

One attempt failed for a reason in the model: `Named`, what an argument means,
took an argument with a wildcard for a pattern although a directory goes by
that very name; the code asks for the path as it stands first. The
definition has that case now, and the instance a directory whose name is `?`.

**ContainerFile_proofs.** All six properties of the run, for files of any chunks,
pictures of any size and levels, kernels of any length, and containers of any
size in either mode. Five invariants say how far each part of the work has come.

* *Computing*, for `RegionIsLargest` (LargestRegion): the planes stay full, the
  threshold of the percentile lets at most the configured share of the pixels
  be smooth (`PercentileIs`), which is why the first two gates never refuse, and
  the search is where *Searching* has it. Searching names a set `C` of pixels:
  it is closed but for the queue, everything in it hangs together with the pixel
  it was started from, the number taken and the queue make up the size of it,
  and what was seen before is a union of regions that were measured. So a queue
  that runs empty leaves a region and its size (`RegionIs`, `RegionIsMeasured`).
* *Looked*, for `GridIsWhatIsSeen` (GridIsSeen): the verdict is that of the blocks
  sampled. Every pair of pixels the loops compare is a pair of neighbours, and it
  is counted as an edge exactly if the two are in different blocks (`StepIs`,
  `BlockOf`); every sample has pairs of both kinds (`SampleReaches`). From there
  two extremes: equal contrasts give equal means (`OneContrast`), flat blocks give
  none inside (`EdgesAlone`). A sum over a set does not depend on the order in
  which the folds take its members (`SumsTakeAny`, `SumsAgree`).
* *Filtered*, for `NoBorderIsInvented` (NoInventedBorder): each pass leaves the
  filter of the plane before it. `UnfoldedIs` and `SmoothedOverMirror`: reflecting
  a coordinate, as often as its distance asks for, is reading the picture
  continued by its mirror image. It needs kernels that are their own mirror image
  (`IsKernel`), so that what the first filter gives has the mirrors of what it
  was given, and the second finds them there.
* *Travelling*, for `TheShapeSurvives` (ShapeSurvives) and
  `OnlyTheTechnicalTravels` (OnlyTechnicalTravels): what is kept is what `read`
  gives of the cover, what is on disk is `Written` of that and of some stream,
  what is read again is `read` of that. The walk over the chunks keeps the first
  small one of each technical kind ahead of the pixels (`WalkIs`); the walk over
  what was written keeps them all (`WalkIsBack`), because they are few, small,
  different and in front; and the commonest length of pieces of which only the
  last is shorter is the length they were cut to, the tie of one whole and one
  short piece included (`DominantIs`, `SizeStays`). That this is the length of the
  cover, and not only one the code has noted, is `TheCutIsSeen`: of pieces cut at
  one size the reader notes that size (`NotedIs`).
* *DrawnSoFar*, for `TheDrawnCarries` (DrawnCarries): each sample drawn has the bit
  at its position. A draw under a given bit is possible (`BothAreDrawn`) because
  levels stay clear of both ends of the range and the grain has two values a level
  apart; the cells asked for are in the grid (`AroundIsInGrid`); and bits put
  together again are the byte they came from (`ByteIsRead`, `GatherIs`). A draw
  may give up at any sample; there is no container then (`RenderKeeps`).

The assumptions are named in the modules: `FileAssumption` (a picture is wider
and higher than a block, `IsPicture`; the message of a job fits, `IsJob`),
`HillAssumption` (kernels that are their own mirror image), `GridAssumption` (two
samples at least; the code takes 50), `EnvelopeAssumption` (technical types that
are ancillary, ancillary types that are not critical, and different ones in an
envelope that is made up) and
`CarrierAssumption` (the grain, twelve standard deviations wide in the code, has
two values a level apart that no clamp can reach).

What the proofs changed in the model. `Blurred`, the two-dimensional filter that
the separable one is compared with, sums along the rows first. The chunks of `read` are walked in the order of the
file, `b >> n` is a halving `n` times, and the chunks that may stand next to the
pixels are places in the file; the functions are the same and their equations can
be reasoned about. That kernels are symmetric, that a picture is larger than a
block and that the grain reaches across a level were true of the instance and
are now assumptions with names, since the properties do not hold without them.

Every invariant of a passing run is proved. Only model-checked: the liveness
properties (`SearchEnds`, and that an extraction answers, in `KeepsPromise`), and
`AdviceIsPermitted`, which is false (section 7).

## 7. Where the code and its text disagree

One run exhibits a disagreement: in `GeometryAdvice` the largest suggestion is
refused when it is followed.

`PROJECT.json` quotes the text with its lines. Others were met while
modelling; the models keep the code's side of them, and no run is spent on them:

* `embed` does not judge its own output, and the gates of `extract` may refuse
  it, although `pipeline/mod.rs:367` says such a container cannot exist. This is
  why `Delivered` has the gates of the container as a hypothesis.
* With a chance match of the Zstandard magic (`Collisions`), a hypothesis that
  the prefix confirms ends the search without a decryption under it, although
  `phash.rs:475` says the payload is decrypted in full under the chosen salt.
* One uncertain bit can cost four derivations (`SearchIsBounded`), the number
  `phash.rs:63` gives for two uncertain bits.
* A position of cost zero is free to the coder; `frame.rs:191` has it unusable.
* A file that appears at the destination of `embed` or `generate` after the
  check is replaced without `--force`. So `NothingReplacedUnasked` is stated of
  `extract` and `keygen` only, which open with `create_new`.
* `payload.rs:350` says that an existing file is never touched without `--force`.
  When a write fails, `write_payload_file` removes its fragment by name (line 406);
  a file that another program has renamed onto that path in the meantime is
  unlinked in its place. This is the one exception in `NothingReplacedUnasked`
  (`PutInPlaceOfOurs`).
* With `--force` and one path for both halves `keygen` reports two files and
  leaves one. The instance has two different names, and `SuccessIsWhole` assumes
  them.
* A payload of exactly `available_bytes` is refused, the tag being deducted
  twice.
* When the second write of `keygen` fails, the public key stays on disk and the
  private one is gone; the message names the file that could not be written.
* `walk` says it takes regular files and takes whatever is no directory;
  `glob_matches` and `collect_directories` promise errors that are never
  returned: what cannot be read contributes nothing.
* The texture gate of `hill.rs` refuses a picture whose expensive pixels are
  cheap too. So a flat picture passes all three gates and one full of noise is
  refused, although the README has pictures rejected that are too smooth; and
  "smooth" there names the pixels of the lowest cost, which are the most textured. The first two gates refuse
  nothing (`FirstTwoGatesPass`, a part of `LargestRegion`).
* `run_generate` starts its indicator ahead of the password prompt.
* A cover of one IDAT chunk may give a container with a second, short one, when
  the new pixels compress worse; `ShapeSurvives` has that case apart.
* `decode` of the armor accepts any bits behind the last byte, so a key has
  several lines. They are the same key.
* The last line typed loses a `\r` that no `\n` follows.

## 8. What is not modelled

* Bytes: Argon2id, HKDF labels, XChaCha20-Poly1305, SHA3, ML-KEM and Zstandard
  are ideals. So is `f32` beyond an error bound: HILL is computed in integers,
  the ridge of the texture is any height in its range, the grain one of a few
  values, and the ratio of the detector is cross-multiplied.
* The thumbnail, the DCT and the median of the hash: free measurements. Nothing
  here speaks about whether an image looks natural.
* The pipelines see the gates as one verdict; what that verdict is made of, and
  that the file is opened twice for it, is in Intake and Scan.
* CRCs, compression and filters of PNG: an IDAT chunk is its length.
* `decode_trellis` maps coder errors to a failure that its own length gate makes
  unreachable; the action has no branch for it.
* `read_key_transport` gives `None` for an image too small for an encapsulation
  (`pipeline/mod.rs:517`); the gate on `MIN_DIMENSION` before it leaves no such
  image, and the action has no branch for it.
* Another program that moves a command's own file to another name while it is
  written; it may remove it or put another in its place.
* Power loss. `closed` means that the process has handed its data over; the
  image is not synced, so nothing is said about what survives a power cut.
* Files that change while they are read, and payload files that grow after the
  size check.
* The spinner thread of the long commands, whose state nothing else reads; the
  wording and layout of what is printed; the message typed line by line at a
  terminal, and the table of payload extensions, which are data.
* Links and special files in a tree that is scanned.
* Fuzz targets, examples, benchmarks and analysis scripts.

## 9. Plan

Order of the work, most important first. All steps are done.

1. The key circle: PerceptualHash, Container, ExtractPipeline, Delivery.
2. EmbedPipeline with OutputFile, and their composition StegoChannel.
3. GenerateContainer.
4. SyndromeTrellis.
5. VisitingOrder, FrameBudget, ContainerGeometry.
6. The commands on SharedFolder, and RecipientMode.
7. Proofs for the pipelines, the order, the budgets and the commands.
8. *Intake*: the gates in their order, the file opened twice.
9. *Scan* over it: the listing, the two passes, a directory that changes.
10. *Armor* under RecipientMode.
11. *ContainerFile*: envelope, detector, cost map, and the carrier of a drawn
    container.
12. Proofs of the properties of Intake and Scan, of RecipientMode
    with the lines of its key files, of the rest of Commands, and of StegoChannel
    from those of its parts.
13. Proofs of SyndromeTrellis: the vector found has the right syndrome and none
    is cheaper, from the metrics as minima over the paths into a register.
14. Proofs about ContainerFile: the region search, the shape of the file, the
    detector on its two extremes, the mirrored border, the bits of the samples.

## 10. Running

```
tlc -workers 2 -config ExtractPipeline.cfg ExtractPipeline.tla
tlapm StegoChannel_proofs.tla
```

`PROJECT.json` names the module and the configuration of every run.
