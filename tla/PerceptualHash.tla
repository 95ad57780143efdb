--------------------------- MODULE PerceptualHash ---------------------------
(***************************************************************************)
(* The margin filter of image_io/phash.rs: how 64 transform coefficients   *)
(* become the Argon2id salt, which images are refused because a            *)
(* coefficient sits too close to the median, and which salts a receiver    *)
(* has to consider.                                                        *)
(*                                                                         *)
(* A measurement m gives, for every hash bit i, the signed distance        *)
(* m[i] = ac[i] - median in coefficient units.  The thumbnail, the DCT and *)
(* the median are abstracted to that one number, which is all the filter   *)
(* looks at.  The salt is the SHA3 image of the bits, so it is modelled as *)
(* the set of bits that are one: distinct hashes give distinct salts.      *)
(***************************************************************************)
EXTENDS Integers, FiniteSets

CONSTANTS
    Bits,       \* indices of the hash bits (N_HASH_BITS = 64 in the code)
    DeltaMin    \* smallest stable distance from the median

ASSUME HashAssumption ==
    /\ IsFiniteSet(Bits)
    /\ DeltaMin \in Nat \ {0}

MAX_UNSTABLE_BITS == 1

Salts == SUBSET Bits

\* ac[index] > median: a coefficient exactly on the median is a zero bit.
HashBits(m) == {i \in Bits : m[i] > 0}

Margin(m, i) == IF m[i] < 0 THEN -m[i] ELSE m[i]

UnstableIndices(m) == {i \in Bits : Margin(m, i) < DeltaMin}

\* The verdict of compute_stable_phash and phash_salt_hypotheses.
Stable(m) == Cardinality(UnstableIndices(m)) <= MAX_UNSTABLE_BITS

Flip(bits, i) == IF i \in bits THEN bits \ {i} ELSE bits \cup {i}

\* The salt of the bits as measured, and of the same bits with the uncertain
\* one inverted.  A stable measurement has at most one alternative.
Primary(m) == HashBits(m)
Alternatives(m) == {Flip(HashBits(m), i) : i \in UnstableIndices(m)}
Hypotheses(m) == {Primary(m)} \cup Alternatives(m)

\* b is a with every coefficient moved by at most eps: what rewriting the
\* least significant bits of a few thousand samples does to the transform.
Near(a, b, eps) == \A i \in Bits : b[i] - a[i] \in -eps .. eps
=============================================================================
