----------------------------- MODULE Container ------------------------------
(***************************************************************************)
(* What an image file is to the pipelines that write and read one.         *)
(*                                                                         *)
(* Argon2id followed by HKDF is an injection of (salt, password) into      *)
(* subkeys, XChaCha20-Poly1305 accepts a ciphertext only under the key and *)
(* nonce that sealed it and only if no bit of it changed, and a region     *)
(* read with the wrong permutation seed is uniformly random.  The one      *)
(* probabilistic event the code argues about, a four byte prefix matching  *)
(* the Zstandard magic by chance, is kept and switched by a constant.      *)
(***************************************************************************)
EXTENDS PerceptualHash

CONSTANTS
    Passwords,      \* includes EmptyPassword
    EmptyPassword,  \* the password the KDF refuses
    Messages,       \* plaintexts
    Oversized,      \* plaintexts that expand past MAX_DECOMPRESSED_BYTES
    Reach,          \* how far from the median a coefficient can be
    Eps,            \* how far embedding can move a coefficient
    Collisions,     \* whether a random prefix can match the frame magic
    KdfOutcomes     \* {TRUE}: a derivation from a non-empty password never
                    \* fails; {TRUE, FALSE}: it may

ASSUME ContainerAssumption ==
    /\ EmptyPassword \in Passwords
    /\ Oversized \subseteq Messages
    /\ Reach \in Nat
    /\ Eps \in Nat /\ Eps < DeltaMin
    /\ Collisions \in BOOLEAN
    /\ TRUE \in KdfOutcomes /\ KdfOutcomes \subseteq BOOLEAN

NoKey == <<"no key">>
NoMessage == "no message"

Measurements == [Bits -> -Reach .. Reach]

KeyOf(salt, password) == <<salt, password>>
Keys == Salts \X Passwords

\* Regions of an embedded payload that damage can reach: the length header,
\* the first bytes of the ciphertext, and the rest of it with the tag.
Regions == {"header", "head", "tail"}

(***************************************************************************)
(* gates   the verdict of load_and_validate on the file                    *)
(* hash    the measurement of its coefficients                             *)
(* made    a photograph, the output of embed, or the output of generate    *)
(* key     the key its payload was sealed under                            *)
(* damage  the regions changed since it was written                        *)
(***************************************************************************)
Files == [gates : BOOLEAN, hash : Measurements,
          made : {"photo", "embed", "generate"},
          key : Keys \cup {NoKey}, msg : Messages \cup {NoMessage},
          damage : SUBSET Regions]

(***************************************************************************)
(* The files there can be.  A photograph carries nothing.  A file nobody   *)
(* touched since embed wrote it differs from its cover by what embedding   *)
(* does to the coefficients, and its key was derived from the cover; one   *)
(* that generate wrote was measured before it was published.  A file that  *)
(* was edited afterwards can measure as anything.                          *)
(***************************************************************************)
Carries(f) == f.key \in Keys /\ f.key[2] # EmptyPassword /\ f.msg \in Messages

AsEmbedded(f) ==
    \E c \in Measurements :
        Stable(c) /\ Near(c, f.hash, Eps) /\ f.key[1] = Primary(c)

AsGenerated(f) == f.gates /\ Stable(f.hash) /\ f.key[1] = Primary(f.hash)

PossibleFiles ==
    {f \in Files :
        \/ f.made = "photo" /\ f.key = NoKey /\ f.msg = NoMessage /\ f.damage = {}
        \/ f.made = "embed" /\ Carries(f) /\ (f.damage = {} => AsEmbedded(f))
        \/ f.made = "generate" /\ Carries(f) /\ (f.damage = {} => AsGenerated(f))}

\* The keys under which four random bytes decrypt to the Zstandard magic.
RandomPrefixes ==
    {{}} \cup (IF Collisions THEN {{k} : k \in Keys} ELSE {})

Recovered(msg) == [kind |-> "recovered", msg |-> msg, prefix |-> {}]
Broken == [kind |-> "broken", msg |-> NoMessage, prefix |-> {}]
Rejected(prefix) == [kind |-> "rejected", msg |-> NoMessage, prefix |-> prefix]

(***************************************************************************)
(* EmbedPipeline::decode_trellis under key k: the attempts it can return.  *)
(* A prefix is represented by the keys under which it shows a frame magic, *)
(* so the empty prefix of an implausible length header is {}.              *)
(***************************************************************************)
TrellisReadings(f, k) ==
    IF ~(f.made = "embed" /\ f.key = k /\ "header" \notin f.damage)
    THEN {Rejected(p) : p \in RandomPrefixes}
    ELSE IF "head" \in f.damage
    THEN {Rejected(p) : p \in RandomPrefixes}
    ELSE IF "tail" \in f.damage
    THEN {Rejected({k})}
    ELSE IF f.msg \in Oversized
    THEN {Broken}
    ELSE {Recovered(f.msg)}

\* Mutant of GeneratedReads: the tag is not verified.
GeneratedReadsUnverified(f, k) ==
    f.made = "generate" /\ f.key = k /\ f.msg \notin Oversized

\* read_generated under key k succeeds; every failure of it is one failure.
GeneratedReads(f, k) ==
    /\ f.made = "generate"
    /\ f.key = k
    /\ f.damage = {}
    /\ f.msg \notin Oversized
=============================================================================
