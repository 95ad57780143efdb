------------------------- MODULE StegoChannel_proofs -------------------------
(***************************************************************************)
(* What embed and extract guarantee, each alone and together, for every    *)
(* set of hash bits, every measurement, margin, message and older file,    *)
(* every perturbation smaller than the margin, and every moment at which   *)
(* the receiver opens the path.                                            *)
(*                                                                         *)
(* Part 1 is the receiver, who is handed any file at all.  Part 2 is the   *)
(* sender by itself, then the file between the two, and what they promise  *)
(* together: there what is new is that the file handed over is one that    *)
(* part 1 speaks of.  The theorems about what is delivered leave out       *)
(* chance matches of the frame magic.                                      *)
(***************************************************************************)
EXTENDS StegoChannel, FiniteSetTheorems, Sequences, TLAPS

(***************************************************************************)
(* Part 1: the receiver.                                                   *)
(***************************************************************************)

(***************************************************************************)
(* Why two hypotheses are enough: the facts about the margin filter that   *)
(* extraction rests on, for every set of bits, every threshold and every   *)
(* perturbation smaller than the threshold.                                *)
(***************************************************************************)

\* phash_salt_hypotheses returns one alternative at most: when k is 1 there is
\* one way of flipping the uncertain bit, and when k is 0 there is none.
LEMMA OneAlternative ==
    ASSUME NEW m, Stable(m),
           NEW a \in Alternatives(m), NEW b \in Alternatives(m)
    PROVE  a = b
<1> DEFINE U == UnstableIndices(m)
<1>1. IsFiniteSet(U)
    BY HashAssumption, FS_Subset DEF HashAssumption, UnstableIndices
<1>2. U # {}
    BY DEF Alternatives
<1>3. Cardinality(U) = 1
    <2>1. Cardinality(U) \in Nat /\ Cardinality(U) # 0
        BY <1>1, <1>2, FS_CardinalityType, FS_EmptySet
    <2>2. Cardinality(U) <= 1
        BY DEF Stable, MAX_UNSTABLE_BITS
    <2> QED
        BY <2>1, <2>2
<1>4. PICK x : U = {x}
    BY <1>1, <1>3, FS_Singleton
<1> QED
    BY <1>4 DEF Alternatives

\* A bit the receiver measures clear of the margin has the value the sender
\* measured, if embedding moved the coefficient by less than the margin.
LEMMA StableBitsAgree ==
    ASSUME NEW c \in [Bits -> Int], NEW e \in [Bits -> Int],
           NEW eps \in Nat, eps < DeltaMin, Near(c, e, eps),
           NEW i \in Bits, i \notin UnstableIndices(e)
    PROVE  i \in HashBits(c) <=> i \in HashBits(e)
<1>1. e[i] - c[i] \in -eps .. eps
    BY DEF Near
<1>2. e[i] >= DeltaMin \/ -e[i] >= DeltaMin
    BY HashAssumption DEF HashAssumption, UnstableIndices, Margin
<1>3. c[i] > 0 <=> e[i] > 0
    BY <1>1, <1>2, HashAssumption DEF HashAssumption
<1> QED
    BY <1>3 DEF HashBits

\* The guarantee behind the search: the salt the sender derived from the cover
\* is one of the hypotheses the receiver forms about the stego image, whenever
\* that image is accepted at all and embedding moves no coefficient by the full
\* margin.
THEOREM RecoveryComplete ==
    ASSUME NEW c \in [Bits -> Int], NEW e \in [Bits -> Int],
           NEW eps \in Nat, eps < DeltaMin, Near(c, e, eps), Stable(e)
    PROVE  Primary(c) \in Hypotheses(e)
<1>1. \A i \in Bits \ UnstableIndices(e) : i \in HashBits(c) <=> i \in HashBits(e)
    BY StableBitsAgree
<1>2. HashBits(c) \subseteq Bits /\ HashBits(e) \subseteq Bits
    BY DEF HashBits
<1>3. CASE UnstableIndices(e) = {}
    <2>1. HashBits(c) = HashBits(e)
        BY <1>1, <1>2, <1>3
    <2> QED
        BY <2>1 DEF Hypotheses, Primary
<1>4. CASE \E x : UnstableIndices(e) = {x}
    <2>1. PICK x : UnstableIndices(e) = {x}
        BY <1>4
    <2>2. x \in Bits
        BY <2>1 DEF UnstableIndices
    <2>3. \A i \in Bits : i # x => (i \in HashBits(c) <=> i \in HashBits(e))
        BY <1>1, <2>1
    <2>4. HashBits(c) = HashBits(e) \/ HashBits(c) = Flip(HashBits(e), x)
        BY <1>2, <2>2, <2>3 DEF Flip
    <2> QED
        BY <2>1, <2>4 DEF Hypotheses, Primary, Alternatives
<1>5. UnstableIndices(e) = {} \/ \E x : UnstableIndices(e) = {x}
    <2>1. IsFiniteSet(UnstableIndices(e))
        BY HashAssumption, FS_Subset DEF HashAssumption, UnstableIndices
    <2>2. Cardinality(UnstableIndices(e)) \in {0, 1}
        BY <2>1, FS_CardinalityType DEF Stable, MAX_UNSTABLE_BITS
    <2> QED
        BY <2>1, <2>2, FS_EmptySet, FS_Singleton
<1> QED
    BY <1>3, <1>4, <1>5
-----------------------------------------------------------------------------

pvars == <<image, password, result>>

(***************************************************************************)
(* The inductive invariant.                                                *)
(*                                                                         *)
(* Progress: what is known at each control point, the count of derivations *)
(* and the salt under which extract is reading.                            *)
(***************************************************************************)
Started(w) == IF worker[w] = "idle" THEN 0 ELSE 1

Progress ==
    /\ pc # "done" => result = Pending
    /\ pc \notin {"load", "done"} => image.gates
    /\ pc \notin {"load", "hash", "done"} => Stable(image.hash)
    /\ pc \in {"trellis", "generated", "search"} => password # EmptyPassword
    /\ pc \in {"load", "hash"} => ~retried
    /\ pc = "search" => ~retried /\ Uncertain # {}
    /\ retried => Uncertain # {} /\ password # EmptyPassword
    /\ (pc \notin {"search", "done"} /\ ~retried) => \A w \in Workers : worker[w] = "idle"

\* A worker fails only in a derivation that may fail.
HonestErrors ==
    \A w \in Workers : worker[w] = "error" =>
        password = EmptyPassword \/ FALSE \in KdfOutcomes

Counted ==
    /\ pc \in {"load", "hash"} => derivations = 0
    /\ pc = "derive" => derivations = IF retried THEN 3 ELSE 0
    /\ pc \in {"trellis", "generated"} => derivations = IF retried THEN 4 ELSE 1
    /\ pc = "search" => derivations = 1 + Started("cleared") + Started("set")

Reading ==
    pc \in {"derive", "trellis", "generated", "search"} =>
        IF retried THEN salt \in Alternatives(image.hash)
                   ELSE salt = Primary(image.hash)

(***************************************************************************)
(* Outstanding: as long as extract has not answered, a payload it can      *)
(* deliver is under a key it has not tried yet, and the prefix of a wrong  *)
(* hypothesis has persuaded nobody.                                        *)
(***************************************************************************)
Deliverable ==
    /\ Opens(image, password) /\ image.damage = {}
    /\ image.msg \notin Oversized \/ image.made = "embed"

Outstanding ==
    Deliverable =>
        /\ prefix = {}
        /\ \A w \in Workers : worker[w] # "match"
        /\ pc = "generated" =>
               image.made = "generate" \/ image.key # KeyOf(salt, password)
        /\ pc = "search" \/ retried =>
               image.key # KeyOf(Primary(image.hash), password)

Answered == pc = "done" => result \in Answers(image, password)

IInv == /\ TypeOK /\ Progress /\ HonestErrors /\ Counted /\ Reading
        /\ SearchIsBounded /\ OnlyTheSealedMessage

DInv == IInv /\ Outstanding /\ Answered
-----------------------------------------------------------------------------
(***************************************************************************)
(* Facts about files, salts and readings.                                  *)
(***************************************************************************)

\* The salts a receiver considers are salts.
LEMMA SaltTypes ==
    ASSUME NEW m
    PROVE  Primary(m) \in Salts /\ Alternatives(m) \subseteq Salts
<1>1. HashBits(m) \subseteq Bits
    BY DEF HashBits
<1> QED
    BY <1>1 DEF Primary, Alternatives, UnstableIndices, Flip, Salts

\* A photograph has no key that any password could make.
LEMMA NoKeyIsNoKey == NoKey \notin Keys
<1> SUFFICES ASSUME NEW s \in Salts, NEW p \in Passwords, NoKey = <<s, p>>
             PROVE  FALSE
    BY DEF Keys
<1>1. Len(<<"no key">>) = 1 /\ Len(<<s, p>>) = 2
    OBVIOUS
<1> QED
    BY <1>1 DEF NoKey

LEMMA FileFacts ==
    ASSUME NEW f \in PossibleFiles
    PROVE  /\ f \in Files
           /\ f.key \in Keys => Carries(f) /\ f.made \in {"embed", "generate"}
           /\ f.key \notin Keys => f.key = NoKey /\ f.made = "photo"
<1>1. f \in Files
    BY DEF PossibleFiles
<1>2. f.made \in {"photo", "embed", "generate"} /\ f.key \in Keys \cup {NoKey}
    BY <1>1 DEF Files
<1>3. /\ f.made = "photo" => f.key = NoKey
      /\ f.made \in {"embed", "generate"} => Carries(f)
    BY DEF PossibleFiles
<1> QED
    BY <1>1, <1>2, <1>3, NoKeyIsNoKey DEF Carries

\* What decode_trellis returns, and what each answer says about the file.
LEMMA Readings ==
    ASSUME NEW f \in PossibleFiles, NEW k \in Keys, NEW a \in TrellisReadings(f, k)
    PROVE  /\ a.kind \in {"recovered", "broken", "rejected"}
           /\ a.kind = "recovered" =>
                  /\ a.msg = f.msg /\ f.msg \in Messages \ Oversized
                  /\ f.made = "embed" /\ f.key = k /\ f.damage = {}
           /\ a.kind = "broken" =>
                  /\ f.msg \in Oversized
                  /\ f.made = "embed" /\ f.key = k /\ f.damage = {}
           /\ a.kind = "rejected" =>
                  /\ a.prefix \subseteq Keys
                  /\ f.made = "embed" /\ f.damage = {} => f.key # k
                  /\ f.damage = {} /\ ~Collisions => a.prefix = {}
<1>1. f.damage \subseteq {"header", "head", "tail"}
    BY FileFacts DEF Files, Regions
<1>2. \A p \in RandomPrefixes : p \subseteq Keys /\ (~Collisions => p = {})
    BY DEF RandomPrefixes
<1>3. CASE \E p \in RandomPrefixes : a = Rejected(p)
    <2>1. a.kind = "rejected" /\ a.prefix \in RandomPrefixes
        BY <1>3 DEF Rejected
    <2>2. f.made = "embed" /\ f.damage = {} => f.key # k
        BY <1>3 DEF TrellisReadings, Rejected, Recovered, Broken
    <2> QED
        BY <2>1, <2>2, <1>2
<1>4. CASE /\ f.made = "embed" /\ f.key = k /\ f.damage # {}
           /\ a = Rejected({k})
    BY <1>4 DEF Rejected
<1>5. CASE /\ f.made = "embed" /\ f.key = k /\ f.damage = {}
           /\ f.msg \in Oversized /\ a = Broken
    BY <1>5 DEF Broken
<1>6. CASE /\ f.made = "embed" /\ f.key = k /\ f.damage = {}
           /\ f.msg \notin Oversized /\ a = Recovered(f.msg)
    BY <1>6, FileFacts DEF Recovered, Carries
<1> QED
    BY <1>1, <1>3, <1>4, <1>5, <1>6 DEF TrellisReadings

-----------------------------------------------------------------------------
(***************************************************************************)
(* The invariant that needs nothing of the KDF or of chance.               *)
(***************************************************************************)
LEMMA KeysAreKeys ==
    ASSUME TypeOK
    PROVE  KeyOf(salt, password) \in Keys
BY DEF TypeOK, KeyOf, Keys

LEMMA InitIInv == Init => IInv
<1> SUFFICES ASSUME Init
             PROVE  IInv
    OBVIOUS
<1>1. TypeOK
    <2>1. salt \in Salts /\ prefix \subseteq Keys
        BY DEF Init, Salts
    <2>2. worker \in [Workers -> WorkerStates]
        BY DEF Init, WorkerStates
    <2>3. result \in [kind : FailureKinds \cup {"pending", "recovered"},
                     msg : Messages \cup {NoMessage}]
        BY DEF Init, Pending
    <2>4. retried \in BOOLEAN
        BY DEF Init
    <2>5. derivations \in 0 .. 4
        BY DEF Init
    <2> QED
        BY <2>1, <2>2, <2>3, <2>4, <2>5 DEF Init, TypeOK
<1>2. Progress /\ HonestErrors /\ Counted /\ Reading
    BY DEF Init, Progress, HonestErrors, Counted, Reading, Workers
<1>3. SearchIsBounded /\ OnlyTheSealedMessage
    BY DEF Init, SearchIsBounded, OnlyTheSealedMessage, Pending
<1> QED
    BY <1>1, <1>2, <1>3 DEF IInv

LEMMA NextIInv == IInv /\ [Next]_vars => IInv'
<1> SUFFICES ASSUME IInv, [Next]_vars
             PROVE  IInv'
    OBVIOUS
<1> USE DEF IInv, inputs
<1>1. CASE Load
    <2>1. TypeOK'
        BY <1>1 DEF Load, TypeOK, Return, Failure, FailureKinds
    <2>2. Progress' /\ HonestErrors' /\ Counted' /\ Reading'
        BY <1>1 DEF Load, Progress, HonestErrors, Counted, Reading, Return, Uncertain
    <2>3. SearchIsBounded' /\ OnlyTheSealedMessage'
        BY <1>1 DEF Load, SearchIsBounded, OnlyTheSealedMessage, Return, Failure, Uncertain
    <2> QED
        BY <2>1, <2>2, <2>3
<1>2. CASE Hash
    <2>1. TypeOK'
        BY <1>2, SaltTypes DEF Hash, TypeOK, Return, Failure, FailureKinds
    <2>2. Progress' /\ HonestErrors'
        BY <1>2 DEF Hash, Progress, HonestErrors, Return, Uncertain
    <2>4. Counted' /\ Reading'
        BY <1>2 DEF Hash, Progress, HonestErrors, Counted, Reading, Return
    <2>3. SearchIsBounded' /\ OnlyTheSealedMessage'
        BY <1>2 DEF Hash, Progress, SearchIsBounded, OnlyTheSealedMessage, Return, Failure, Uncertain, Pending
    <2> QED
        BY <2>1, <2>2, <2>3, <2>4
<1>3. CASE Derive
    <2>0. \/ pc' = "trellis" /\ result' = result /\ password # EmptyPassword
          \/ Return(Failure("kdf"))
        BY <1>3 DEF Derive, KdfMay
    <2>1. derivations' = IF retried THEN 4 ELSE 1
        BY <1>3 DEF Derive, Counted
    <2>2. derivations' \in 0 .. 4
        BY <2>1
    <2>9. result' \in [kind : FailureKinds \cup {"pending", "recovered"},
                      msg : Messages \cup {NoMessage}]
        BY <2>0 DEF TypeOK, Return, Failure, FailureKinds
    <2>3. TypeOK'
        BY <1>3, <2>0, <2>2, <2>9 DEF Derive, TypeOK, Return
    <2>4. Progress' /\ HonestErrors' /\ Reading'
        BY <1>3, <2>0 DEF Derive, Progress, HonestErrors, Reading, Return, Uncertain
    <2>5. Counted'
        BY <1>3, <2>1 DEF Derive, Counted, Return
    <2>8. result'.kind # "recovered"
        BY <1>3, <2>0 DEF Derive, Progress, Pending, Return, Failure
    <2>6. SearchIsBounded'
        <3>1. derivations' <= 4 /\ (Uncertain = {} => derivations' <= 1)
            BY <2>1 DEF Progress
        <3> QED
            BY <1>3, <2>8, <3>1 DEF Derive, SearchIsBounded, Uncertain
    <2>7. OnlyTheSealedMessage'
        BY <1>3, <2>8 DEF OnlyTheSealedMessage
    <2> QED
        BY <2>3, <2>4, <2>5, <2>6, <2>7
<1>4. CASE DecodeTrellis
    <2> DEFINE k == KeyOf(salt, password)
    <2>1. PICK a \in TrellisReadings(image, k) :
            \/ a.kind = "recovered" /\ Return(Success(a.msg)) /\ UNCHANGED prefix
            \/ a.kind = "broken" /\ Return(Failure("decompression")) /\ UNCHANGED prefix
            \/ /\ a.kind = "rejected"
               /\ prefix' = a.prefix
               /\ pc' = "generated"
               /\ UNCHANGED result
        BY <1>4 DEF DecodeTrellis
    <2>2. image \in PossibleFiles /\ k \in Keys
        BY KeysAreKeys DEF TypeOK
    <2>3. /\ a.kind = "recovered" =>
                /\ a.msg = image.msg /\ a.msg \in Messages \ Oversized
                /\ image.key = k /\ image.damage = {}
          /\ a.kind = "rejected" => a.prefix \subseteq Keys
        BY <2>1, <2>2, Readings
    <2>4. TypeOK'
        BY <1>4, <2>1, <2>3 DEF DecodeTrellis, TypeOK, Return, Failure, Success, FailureKinds
    <2>5. Progress' /\ HonestErrors' /\ Counted' /\ Reading'
        BY <1>4, <2>1 DEF DecodeTrellis, Progress, HonestErrors, Counted, Reading, Return, Uncertain
    <2>6. SearchIsBounded'
        BY <1>4 DEF DecodeTrellis, Counted, SearchIsBounded, Progress, Uncertain
    <2>7. OnlyTheSealedMessage'
        BY <1>4, <2>1, <2>3 DEF DecodeTrellis, Progress, HonestErrors, Reading, OnlyTheSealedMessage, Return,
           Failure, Success, Pending, Hypotheses
    <2> QED
        BY <2>4, <2>5, <2>6, <2>7
<1>5. CASE ReadGenerated
    <2>1. TypeOK'
        BY <1>5, FileFacts DEF ReadGenerated, TypeOK, Return, Failure, Success, FailureKinds, Files
    <2>2. Progress' /\ HonestErrors' /\ Reading'
        BY <1>5 DEF ReadGenerated, Progress, HonestErrors, Reading, Return, Uncertain
    <2>5. Counted'
        <3>1. pc' = "search" => derivations = 1 /\ \A w \in Workers : worker[w] = "idle"
            BY <1>5 DEF ReadGenerated, Progress, Counted, Return
        <3>2. pc' \in {"search", "done"} /\ UNCHANGED <<worker, derivations>>
            BY <1>5 DEF ReadGenerated, Return
        <3> QED
            BY <3>1, <3>2 DEF Counted, Started, Workers
    <2>3. SearchIsBounded'
        BY <1>5 DEF ReadGenerated, Counted, SearchIsBounded, Progress, Uncertain
    <2>4. OnlyTheSealedMessage'
        BY <1>5 DEF ReadGenerated, Progress, HonestErrors, Reading, OnlyTheSealedMessage, Return,
           Failure, Success, Pending, Hypotheses, GeneratedReads
    <2> QED
        BY <2>1, <2>2, <2>3, <2>4, <2>5
<1>6. CASE \E w \in Workers : StartHypothesis(w)
    <2>1. PICK w \in Workers : StartHypothesis(w)
        BY <1>6
    <2>2. w \in {"cleared", "set"}
        BY DEF Workers
    <2>3. derivations \in 1 .. 2 /\ Uncertain # {}
        BY <2>1, <2>2 DEF StartHypothesis, TypeOK, Counted, Progress, Started, Workers
    <2>4. TypeOK'
        BY <2>1, <2>3 DEF StartHypothesis, TypeOK, WorkerStates
    <2>5. Progress' /\ HonestErrors' /\ Reading'
        BY <2>1, <2>3 DEF StartHypothesis, TypeOK, Progress, HonestErrors, Reading, Uncertain
    <2>7. Counted'
        BY <2>1, <2>2 DEF StartHypothesis, TypeOK, Counted, Started, Workers
    <2>6. SearchIsBounded' /\ OnlyTheSealedMessage'
        BY <2>1, <2>3 DEF StartHypothesis, Progress, SearchIsBounded, OnlyTheSealedMessage,
           Uncertain, Pending
    <2> QED
        BY <2>4, <2>5, <2>6, <2>7
<1>7. CASE \E w \in Workers : JudgeHypothesis(w)
    <2>1. PICK w \in Workers : JudgeHypothesis(w)
        BY <1>7
    <2>2. w \in {"cleared", "set"}
        BY DEF Workers
    <2>3. TypeOK'
        BY <2>1 DEF JudgeHypothesis, TypeOK, WorkerStates
    <2>4. Progress' /\ Reading'
        BY <2>1, <2>2 DEF JudgeHypothesis, TypeOK, Progress, Reading, Uncertain
    <2>6. HonestErrors'
        BY <2>1, <2>2 DEF JudgeHypothesis, TypeOK, HonestErrors, KdfMay, Workers
    <2>7. Counted'
        BY <2>1, <2>2 DEF JudgeHypothesis, TypeOK, Counted, Started, Workers
    <2>5. SearchIsBounded' /\ OnlyTheSealedMessage'
        BY <2>1 DEF JudgeHypothesis, Progress, SearchIsBounded, OnlyTheSealedMessage,
           Uncertain, Pending
    <2> QED
        BY <2>3, <2>4, <2>5, <2>6, <2>7
<1>8. CASE Join
    <2>1. derivations = 3
        BY <1>8 DEF Join, Counted, Started, Workers
    <2>2. TypeOK'
        <3>1. salt' \in Salts
            BY <1>8, SaltTypes DEF Join, TypeOK
        <3>2. result' \in [kind : FailureKinds \cup {"pending", "recovered"},
                          msg : Messages \cup {NoMessage}]
            BY <1>8 DEF Join, TypeOK, Return, Failure, FailureKinds
        <3>3. retried' \in BOOLEAN /\ pc' \in {"derive", "done"}
            BY <1>8 DEF Join, TypeOK, Return
        <3> QED
            BY <1>8, <3>1, <3>2, <3>3 DEF Join, TypeOK
    <2>3. Progress' /\ HonestErrors' /\ Counted' /\ Reading'
        BY <1>8, <2>1 DEF Join, Progress, HonestErrors, Counted, Reading, Return, Uncertain
    <2>4. SearchIsBounded' /\ OnlyTheSealedMessage'
        BY <1>8, <2>1 DEF Join, Progress, SearchIsBounded, OnlyTheSealedMessage, Return,
           Failure, Uncertain, Pending
    <2> QED
        BY <2>2, <2>3, <2>4
<1>9. CASE Finished \/ UNCHANGED vars
    <2>1. UNCHANGED vars
        BY <1>9 DEF Finished
    <2>2. TypeOK'
        BY <2>1 DEF vars, TypeOK
    <2>3. Progress' /\ HonestErrors' /\ Counted' /\ Reading'
        BY <2>1 DEF vars, Progress, HonestErrors, Counted, Reading, Uncertain, Started
    <2>4. SearchIsBounded' /\ OnlyTheSealedMessage'
        BY <2>1 DEF vars, SearchIsBounded, OnlyTheSealedMessage, Uncertain
    <2> QED
        BY <2>2, <2>3, <2>4
<1> QED
    BY <1>1, <1>2, <1>3, <1>4, <1>5, <1>6, <1>7, <1>8, <1>9 DEF Next, Steps

LEMMA Invariance == Spec => []IInv
BY InitIInv, NextIInv, PTL DEF Spec

\* Type correctness of extract: in particular no file and password make it
\* start a fifth derivation, and every salt it reads under is a salt.
THEOREM TypeCorrect == Spec => []TypeOK
<1>1. IInv => TypeOK
    BY DEF IInv
<1> QED
    BY Invariance, <1>1, PTL

\* extract returns nothing but the message that was sealed, for every file
\* there can be, even when a random prefix matches the frame magic and when
\* derivations fail.
THEOREM Authentic == Spec => []OnlyTheSealedMessage
<1>1. IInv => OnlyTheSealedMessage
    BY DEF IInv
<1> QED
    BY Invariance, <1>1, PTL

\* The cost of a search: one derivation when no bit is uncertain, one when the
\* salt as measured opens the payload, four when its alternative does, and
\* never more than four.
THEOREM Bounded == Spec => []SearchIsBounded
<1>1. IInv => SearchIsBounded
    BY DEF IInv
<1> QED
    BY Invariance, <1>1, PTL

-----------------------------------------------------------------------------
(***************************************************************************)
(* What is delivered.  A certain hash has one hypothesis, an uncertain one *)
(* two, so a payload that neither reading finds under either of them is    *)
(* one that no key of this image opens.                                    *)
(***************************************************************************)
\* When both hypotheses have been read without success, no key opens the file.
LEMMA NothingLeft ==
    ASSUME IInv, Outstanding, pc = "generated", retried \/ Uncertain = {},
           image.made # "embed" => ~GeneratedReads(image, KeyOf(salt, password))
    PROVE  ~Deliverable
<1> SUFFICES ASSUME Deliverable
             PROVE  FALSE
    OBVIOUS
<1>1. image \in PossibleFiles /\ password \in Passwords /\ salt \in Salts
    BY DEF IInv, TypeOK
<1>2. PICK s \in Hypotheses(image.hash) : image.key = KeyOf(s, password)
    BY DEF Deliverable, Opens
<1>3. s \in Salts
    BY <1>2, SaltTypes DEF Hypotheses
<1>4. image.key \in Keys
    BY <1>1, <1>2, <1>3 DEF KeyOf, Keys
<1>5. image.key # KeyOf(salt, password)
    <2>1. image.made \in {"embed", "generate"}
        BY <1>1, <1>4, FileFacts
    <2>2. CASE image.made = "embed"
        BY <2>2 DEF Outstanding
    <2>3. CASE image.made = "generate"
        BY <2>3 DEF GeneratedReads, Deliverable
    <2> QED
        BY <2>1, <2>2, <2>3
<1>6. CASE ~retried
    <2>1. salt = Primary(image.hash) /\ Alternatives(image.hash) = {}
        BY <1>6 DEF IInv, Reading, Alternatives, Uncertain
    <2> QED
        BY <2>1, <1>2, <1>5 DEF Hypotheses
<1>7. CASE retried
    <2>1. salt \in Alternatives(image.hash)
        BY <1>7 DEF IInv, Reading
    <2>2. s = Primary(image.hash) => FALSE
        BY <1>2, <1>7 DEF Outstanding
    <2>3. s \in Alternatives(image.hash)
        BY <2>2 DEF Hypotheses
    <2>4. s = salt
        BY <2>1, <2>3, OneAlternative DEF IInv, Progress
    <2> QED
        BY <2>4, <1>2, <1>5
<1> QED
    BY <1>6, <1>7

LEMMA InitDInv == Init => Outstanding /\ Answered
BY DEF Init, Outstanding, Answered, Workers

LEMMA NextDInv ==
    ASSUME ~Collisions, DInv, IInv', [Next]_vars
    PROVE  Outstanding' /\ Answered'
<1> USE DEF DInv, inputs
<1> DEFINE k == KeyOf(salt, password)
<1>1. CASE Load
    <2>1. Outstanding'
        BY <1>1 DEF Load, Outstanding, IInv, Progress, Return, Deliverable, Opens
    <2>2. pc' = "done" => ~image.gates /\ result' = Failure("validation")
        BY <1>1 DEF Load, Return
    <2>3. UNCHANGED inputs
        BY <1>1 DEF Load
    <2> QED
        BY <2>1, <2>2, <2>3 DEF Answered, Answers
<1>2. CASE Hash
    <2>1. Outstanding'
        BY <1>2 DEF Hash, Outstanding, IInv, Progress, Return, Deliverable, Opens
    <2>2. pc' = "done" => ~Stable(image.hash) /\ result' = Failure("unstable")
        BY <1>2 DEF Hash, Return
    <2>3. image.gates /\ UNCHANGED inputs
        BY <1>2 DEF Hash, IInv, Progress
    <2> QED
        BY <2>1, <2>2, <2>3 DEF Answered, Answers
<1>3. CASE Derive
    <2>1. Outstanding'
        BY <1>3 DEF Derive, Outstanding, IInv, Progress, Return, Deliverable, Opens
    <2>2. pc' = "done" => /\ result' = Failure("kdf")
                          /\ password = EmptyPassword \/ FALSE \in KdfOutcomes
        BY <1>3 DEF Derive, Return, KdfMay
    <2>3. image.gates /\ Stable(image.hash) /\ UNCHANGED inputs
        BY <1>3 DEF Derive, IInv, Progress
    <2> QED
        BY <2>1, <2>2, <2>3 DEF Answered, Answers, KdfFailures
<1>4. CASE DecodeTrellis
    <2>1. PICK a \in TrellisReadings(image, k) :
            \/ a.kind = "recovered" /\ Return(Success(a.msg)) /\ UNCHANGED prefix
            \/ a.kind = "broken" /\ Return(Failure("decompression")) /\ UNCHANGED prefix
            \/ /\ a.kind = "rejected"
               /\ prefix' = a.prefix
               /\ pc' = "generated"
               /\ UNCHANGED result
        BY <1>4 DEF DecodeTrellis
    <2>2. image \in PossibleFiles /\ k \in Keys
        BY KeysAreKeys DEF IInv, TypeOK
    <2>3. /\ a.kind = "recovered" =>
                /\ a.msg = image.msg /\ a.msg \notin Oversized
                /\ image.key = k /\ image.damage = {}
          /\ a.kind = "broken" =>
                /\ image.msg \in Oversized
                /\ image.made = "embed" /\ image.key = k /\ image.damage = {}
          /\ a.kind = "rejected" =>
                /\ image.made = "embed" /\ image.damage = {} => image.key # k
                /\ image.damage = {} => a.prefix = {}
        BY <2>2, Readings
    <2>4. image.key = k => Opens(image, password)
        BY <1>4, SaltTypes DEF DecodeTrellis, IInv, Reading, Opens, Hypotheses
    <2>5. image.gates /\ Stable(image.hash) /\ password # EmptyPassword
        BY <1>4 DEF DecodeTrellis, IInv, Progress
    <2>6. UNCHANGED <<inputs, salt, retried, worker>>
        BY <1>4 DEF DecodeTrellis
    <2>7. Outstanding'
        <3>1. SUFFICES ASSUME Deliverable'
                       PROVE  /\ prefix' = {}
                              /\ \A w \in Workers : worker'[w] # "match"
                              /\ pc' = "generated" =>
                                     image.made = "generate" \/ image.key # k
                              /\ pc' = "search" \/ retried =>
                                     image.key # KeyOf(Primary(image.hash), password)
            BY <2>6 DEF Outstanding
        <3>2. Deliverable
            BY <3>1, <2>6 DEF Deliverable, Opens
        <3>3. image.made \in {"embed", "generate"}
            <4>1. PICK s \in Hypotheses(image.hash) : image.key = KeyOf(s, password)
                BY <3>2 DEF Deliverable, Opens
            <4>2. image.key \in Keys
                BY <4>1, SaltTypes DEF Hypotheses, KeyOf, Keys, IInv, TypeOK
            <4> QED
                BY <4>2, <2>2, FileFacts
        <3>4. prefix' = {} /\ pc' # "search"
            BY <2>1, <2>3, <3>2 DEF Deliverable, Outstanding, Return
        <3>5. pc' = "generated" => image.made = "generate" \/ image.key # k
            BY <2>1, <2>3, <3>2, <3>3 DEF Deliverable, Return
        <3> QED
            BY <3>2, <3>4, <3>5, <2>6 DEF Outstanding
    <2>8. pc' = "done" => result' = Verdict(image, password)
        BY <2>1, <2>3, <2>4 DEF Return, Verdict
    <2> QED
        BY <2>5, <2>6, <2>7, <2>8 DEF Answered, Answers
<1>5. CASE ReadGenerated
    <2>1. UNCHANGED <<inputs, salt, retried, prefix, worker>> /\ pc = "generated"
        BY <1>5 DEF ReadGenerated
    <2>2. image.gates /\ Stable(image.hash) /\ password # EmptyPassword
        BY <2>1 DEF IInv, Progress
    <2>3. CASE GeneratedReads(image, k) /\ Return(Success(image.msg))
        <3>1. Opens(image, password)
            BY <2>1, <2>3 DEF IInv, Reading, Opens, Hypotheses, GeneratedReads
        <3>2. result' = Verdict(image, password)
            BY <2>3, <3>1 DEF Return, Verdict, GeneratedReads
        <3>3. Outstanding'
            BY <2>1, <2>3 DEF Outstanding, Return, Deliverable, Opens
        <3> QED
            BY <2>1, <2>2, <3>2, <3>3 DEF Answered, Answers
    <2>4. CASE ~GeneratedReads(image, k) /\ (retried \/ Uncertain = {})
               /\ Return(Failure("auth_failed"))
        <3>1. ~Deliverable
            BY <2>1, <2>4, NothingLeft
        <3>2. result' = Verdict(image, password)
            BY <2>4, <3>1 DEF Return, Verdict, Deliverable
        <3>3. Outstanding'
            BY <2>1, <2>4 DEF Outstanding, Return, Deliverable, Opens
        <3> QED
            BY <2>1, <2>2, <3>2, <3>3 DEF Answered, Answers
    <2>5. CASE ~GeneratedReads(image, k) /\ ~retried /\ pc' = "search"
        <3>1. k = KeyOf(Primary(image.hash), password)
            BY <2>1, <2>5 DEF IInv, Reading
        <3>2. Deliverable => image.key # k
            BY <2>1, <2>5 DEF Outstanding, Deliverable, GeneratedReads
        <3>3. Outstanding'
            BY <2>1, <2>5, <3>1, <3>2 DEF Outstanding, Deliverable, Opens
        <3> QED
            BY <2>5, <3>3 DEF Answered
    <2> QED
        BY <1>5, <2>3, <2>4, <2>5 DEF ReadGenerated
<1>6. CASE \E w \in Workers : StartHypothesis(w)
    BY <1>6 DEF StartHypothesis, Outstanding, Answered, IInv, TypeOK, Deliverable, Opens, Workers
<1>7. CASE \E w \in Workers : JudgeHypothesis(w)
    <2>1. PICK w \in Workers : JudgeHypothesis(w)
        BY <1>7
    <2>2. Deliverable => worker'[w] # "match"
        BY <2>1 DEF JudgeHypothesis, Outstanding, IInv, TypeOK
    <2>3. \A v \in Workers : v # w => worker'[v] = worker[v]
        BY <2>1 DEF JudgeHypothesis, IInv, TypeOK
    <2>4. UNCHANGED <<inputs, pc, salt, retried, prefix>> /\ pc = "search"
        BY <2>1 DEF JudgeHypothesis
    <2> QED
        BY <2>2, <2>3, <2>4 DEF Outstanding, Answered, Deliverable, Opens
<1>8. CASE Join
    <2>1. UNCHANGED <<inputs, prefix, worker>> /\ pc = "search"
        BY <1>8 DEF Join
    <2>2. image.gates /\ Stable(image.hash) /\ password # EmptyPassword
        BY <2>1 DEF IInv, Progress
    <2>3. Outstanding'
        BY <1>8 DEF Join, Outstanding, Return, Deliverable, Opens
    <2>4. CASE Return(Failure("phash_kdf")) /\ \E w \in Workers : worker[w] = "error"
        <3>1. Failure("phash_kdf") \in KdfFailures
            BY <2>2, <2>4 DEF IInv, HonestErrors, KdfFailures
        <3> QED
            BY <2>1, <2>2, <2>3, <2>4, <3>1 DEF Return, Answered, Answers
    <2>5. CASE Return(Failure("auth_failed")) /\ \E w \in Workers : worker[w] = "match"
        <3>1. ~Deliverable
            BY <2>5 DEF Outstanding
        <3>2. result' = Verdict(image, password)
            BY <2>5, <3>1 DEF Return, Verdict, Deliverable
        <3> QED
            BY <2>1, <2>2, <2>3, <3>2 DEF Answered, Answers
    <2>6. CASE pc' = "derive"
        BY <2>3, <2>6 DEF Answered
    <2> QED
        BY <1>8, <2>4, <2>5, <2>6 DEF Join
<1>9. CASE Finished \/ UNCHANGED vars
    <2>1. UNCHANGED vars
        BY <1>9 DEF Finished
    <2> QED
        BY <2>1 DEF vars, Outstanding, Answered, Deliverable, Opens
<1> QED
    BY <1>1, <1>2, <1>3, <1>4, <1>5, <1>6, <1>7, <1>8, <1>9 DEF Next, Steps

LEMMA Delivering == ASSUME ~Collisions PROVE Spec => []DInv
<1>1. Init => DInv
    BY InitIInv, InitDInv DEF DInv
<1>2. DInv /\ [Next]_vars => DInv'
    BY NextIInv, NextDInv DEF DInv
<1> QED
    BY <1>1, <1>2, PTL DEF Spec

\* The password a container was made with opens it: embedding moved no
\* coefficient by as much as the margin, so the sender's salt is a hypothesis.
LEMMA PasswordOpens ==
    ASSUME NEW f \in PossibleFiles, NEW p, Readable(f, p)
    PROVE  Opens(f, p) /\ p # EmptyPassword
<1>1. Carries(f) /\ f.key = KeyOf(f.key[1], f.key[2])
    BY FileFacts DEF Readable, PossibleFiles, Carries, Keys, KeyOf
<1>2. f.key[1] \in Hypotheses(f.hash)
    <2>1. CASE f.made = "generate"
        BY <2>1 DEF Readable, PossibleFiles, AsGenerated, Hypotheses
    <2>2. CASE f.made = "embed"
        <3>1. PICK c \in Measurements :
                Stable(c) /\ Near(c, f.hash, Eps) /\ f.key[1] = Primary(c)
            BY <2>2 DEF Readable, PossibleFiles, AsEmbedded
        <3>2. c \in [Bits -> Int] /\ f.hash \in [Bits -> Int]
            BY FileFacts, ContainerAssumption DEF Files, Measurements, ContainerAssumption
        <3> QED
            BY <3>1, <3>2, RecoveryComplete, ContainerAssumption
               DEF Readable, ContainerAssumption
    <2> QED
        BY <2>1, <2>2 DEF Readable
<1> QED
    BY <1>1, <1>2 DEF Opens, Carries, Readable

\* What has been answered about a readable file is its message.
LEMMA GenuineAnswer == DInv => GenuineIsRecovered
<1> SUFFICES ASSUME DInv, pc = "done", Readable(image, password)
             PROVE  result \in {Success(image.msg), Failure("kdf"), Failure("phash_kdf")}
    BY DEF GenuineIsRecovered
<1>1. Opens(image, password) /\ password # EmptyPassword
    BY PasswordOpens DEF DInv, IInv, TypeOK
<1>2. result \in KdfFailures \cup {Success(image.msg)}
    BY <1>1 DEF DInv, Answered, Answers, Verdict, Readable
<1> QED
    BY <1>2 DEF KdfFailures

\* Nothing that was hidden is given up on: whichever hypothesis it is under and
\* whichever construction made the container, extract ends with the message,
\* unless a derivation failed.
THEOREM GenuineRecovered == ASSUME ~Collisions PROVE Spec => []GenuineIsRecovered
<1> QED
    BY Delivering, GenuineAnswer, PTL

\* A failure tells the caller about the file or about the password, or that it
\* holds the key; otherwise it is the one authentication failure.
THEOREM OneFailure == ASSUME ~Collisions PROVE Spec => []FailuresAreOne
<1>1. ASSUME DInv
      PROVE  FailuresAreOne
    <2>1. pc = "done" => result \in Answers(image, password)
        BY <1>1 DEF DInv, Answered
    <2>2. ASSUME result \in KdfFailures
          PROVE  result.kind \in {"kdf", "phash_kdf"} /\ KdfMay(FALSE)
        <3>1. CASE FALSE \in KdfOutcomes
            <4>1. result \in {Failure("kdf"), Failure("phash_kdf")}
                BY <2>2, <3>1 DEF KdfFailures
            <4>2. result.kind \in {"kdf", "phash_kdf"}
                BY <4>1 DEF Failure
            <4> QED
                BY <3>1, <4>2 DEF KdfMay
        <3>2. CASE FALSE \notin KdfOutcomes
            BY <2>2, <3>2 DEF KdfFailures
        <3> QED
            BY <3>1, <3>2
    <2>3. ASSUME result = Verdict(image, password),
                 result.kind \notin {"recovered", "auth_failed"}
          PROVE  /\ result.kind = "decompression" /\ Opens(image, password)
                 /\ image.made = "embed" /\ image.damage = {}
                 /\ image.msg \in Oversized
        BY <2>3 DEF Verdict, Failure, Success
    <2>4. ASSUME password = EmptyPassword, result = Failure("kdf")
          PROVE  result.kind = "kdf" /\ KdfMay(FALSE)
        <3>1. result.kind = "kdf"
            BY <2>4 DEF Failure
        <3> QED
            BY <2>4, <3>1 DEF KdfMay
    <2>5. /\ result = Failure("validation") => result.kind = "validation"
          /\ result = Failure("unstable") => result.kind = "unstable"
        BY DEF Failure
    <2>6. SUFFICES ASSUME pc = "done", result.kind \notin {"recovered", "auth_failed"}
                   PROVE  \/ result.kind = "validation" /\ ~image.gates
                          \/ result.kind = "unstable" /\ ~Stable(image.hash)
                          \/ result.kind \in {"kdf", "phash_kdf"} /\ KdfMay(FALSE)
                          \/ result.kind = "decompression" /\ Opens(image, password)
                             /\ image.made = "embed" /\ image.damage = {}
                             /\ image.msg \in Oversized
        BY DEF FailuresAreOne
    <2>7. \/ ~image.gates /\ result = Failure("validation")
          \/ ~Stable(image.hash) /\ result = Failure("unstable")
          \/ password = EmptyPassword /\ result = Failure("kdf")
          \/ result \in KdfFailures
          \/ result = Verdict(image, password)
        BY <2>1, <2>6 DEF Answers
    <2> QED
        BY <2>2, <2>3, <2>4, <2>5, <2>6, <2>7
<1> QED
    BY Delivering, <1>1, PTL

\* extract implements Delivery: its first state is one Delivery starts in, and
\* every step of it is the answer or no step at all.  That the answer comes is
\* liveness, which the model checker verifies.
THEOREM ImplementsDelivery ==
    ASSUME ~Collisions
    PROVE  Spec => Promise!Init /\ [][Promise!Answer]_pvars
<1>1. Init => Promise!Init
    BY DEF Init, Promise!Init, Pending
<1>2. ASSUME DInv, DInv', [Next]_vars
      PROVE  [Promise!Answer]_pvars
    <2>1. CASE result' = result
        <3>1. UNCHANGED inputs
            BY <1>2 DEF Next, Steps, Load, Hash, Derive, DecodeTrellis, ReadGenerated,
               StartHypothesis, JudgeHypothesis, Join, Finished, vars, inputs
        <3> QED
            BY <2>1, <3>1 DEF pvars, inputs
    <2>2. CASE result' # result
        <3>1. UNCHANGED inputs /\ pc # "done" /\ pc' = "done"
            BY <1>2, <2>2 DEF Next, Steps, Load, Hash, Derive, DecodeTrellis, ReadGenerated,
               StartHypothesis, JudgeHypothesis, Join, Finished, vars, inputs, Return
        <3>2. result.kind = "pending"
            BY <1>2, <3>1 DEF DInv, IInv, Progress, Pending
        <3>3. result' \in Answers(image, password)
            BY <1>2, <3>1 DEF DInv, Answered, inputs
        <3> QED
            BY <3>1, <3>2, <3>3 DEF Promise!Answer, inputs
    <2> QED
        BY <2>1, <2>2
<1> QED
    BY Delivering, <1>1, <1>2, PTL DEF Spec

(***************************************************************************)
(* Part 2: the inductive invariant of the sender.                          *)
(***************************************************************************)
AfterLoad == {"hash", "derive", "seal", "cost", "fit", "code", "apply", "write"}
AfterHash == AfterLoad \ {"hash"}
AfterDerive == AfterHash \ {"derive"}
AfterCost == {"fit", "code", "apply", "write"}
AfterFit == {"code", "apply", "write"}

\* What each step has established for the ones after it.
Passed ==
    /\ stage \in AfterLoad => cover.gates
    /\ stage \in AfterHash => Sender!Stable(cover.hash) /\ measured = Sender!Primary(cover.hash)
    /\ stage \in AfterDerive => chosen # EmptyPassword
    /\ stage \in AfterCost => cover.textured
    /\ stage \in AfterFit => Size(msg) <= cover.room

\* The secrets that can be alive at each step.
Alive ==
    /\ stage \in {"load", "hash"} => held \subseteq {"plaintext", "password"}
    /\ stage = "derive" => held \subseteq {"plaintext", "password", "salt"}
    /\ stage = "seal" => held \subseteq {"plaintext", "derived_keys"}
    /\ stage \in {"cost", "fit"} => held \subseteq {"ciphertext", "derived_keys"}
    /\ stage = "code" => held \subseteq {"ciphertext", "derived_keys", "permutation",
                                      "cover_symbols"}
    /\ stage = "apply" => held \subseteq {"permutation", "cover_symbols"}
    /\ stage \in {"write", "done", "crashed"} => held = {}

\* Every layer said yes.
Accepted ==
    /\ cover.gates /\ Sender!Stable(cover.hash) /\ cover.textured
    /\ chosen # EmptyPassword /\ Size(msg) <= cover.room

\* The image in memory is a stego image of the cover.
Sealed ==
    /\ stego \in Sender!Files
    /\ stego.made = "embed" /\ stego.damage = {} /\ stego.msg = msg
    /\ stego.key = Sender!KeyOf(Sender!Primary(cover.hash), chosen)
    /\ Sender!Near(cover.hash, stego.hash, Eps)

\* The disk waits for the write, and the write for everything else.
Disk ==
    /\ stage \notin {"write", "done", "crashed"} => writer = "idle" /\ disk = before
    /\ stage \notin {"done"} => report = "pending"
    /\ stage = "write" => Accepted /\ Sealed
    /\ disk # before => Accepted /\ Sealed /\ report \notin Sender!Refusals
    /\ writer = "closed" => disk = "container"
    /\ report = "ok" => writer = "closed"

SenderInv == Sender!TypeOK /\ Passed /\ Alive /\ Disk

USE EmbedAssumption, ContainerAssumption, HashAssumption, ChannelAssumption

LEMMA SaltsAreSalts == ASSUME NEW m PROVE Sender!Primary(m) \in Sender!Salts
BY DEF Sender!Primary, Sender!HashBits, Sender!Salts

LEMMA PhotosAreFiles == \A c \in Sender!Covers : Sender!Photo(c) \in Sender!Files
BY DEF Sender!Covers, Sender!Photo, Sender!Files

LEMMA SenderStarts == Sender!Init => SenderInv
<1> SUFFICES ASSUME Sender!Init PROVE SenderInv
    OBVIOUS
<1>1. Sender!TypeOK
    <2>1. stego \in Sender!Files
        BY PhotosAreFiles DEF Sender!Init
    <2>2. measured \in Sender!Salts
        BY DEF Sender!Init, Sender!Salts
    <2> QED BY <2>1, <2>2 DEF Sender!Init, Sender!TypeOK, Sender!OutputInit, Sender!OutputType, Sender!DiskStates,
               Sender!WriterStates, Sender!Secrets
<1>2. Passed
    BY DEF Sender!Init, Passed, AfterLoad, AfterHash, AfterDerive, AfterCost, AfterFit
<1>3. Alive
    BY DEF Sender!Init, Alive
<1>4. Disk
    BY DEF Sender!Init, Disk, Sender!OutputInit, Sender!Refusals
<1> QED BY <1>1, <1>2, <1>3, <1>4 DEF SenderInv

\* The steps that only move on, refuse the job, or change what is in memory.
LEMMA SenderQuiet ==
    ASSUME SenderInv, Sender!Load \/ Sender!Hash \/ Sender!Derive \/ Sender!Seal \/ Sender!ComputeCost \/ Sender!Fit \/ Sender!Code
    PROVE  SenderInv'
<1> USE DEF SenderInv, Sender!outputVars, Sender!callVars, Sender!Step, Sender!Return
<1>1. CASE Sender!Load
    <2>1. Sender!TypeOK'
        BY <1>1 DEF Sender!Load, Sender!TypeOK, Sender!OutputType, Sender!Secrets, Sender!Refusals
    <2>2. Passed'
        BY <1>1 DEF Sender!Load, Passed, AfterLoad, AfterHash, AfterDerive, AfterCost, AfterFit
    <2>3. Alive'
        BY <1>1 DEF Sender!Load, Alive
    <2>4. Disk'
        BY <1>1 DEF Sender!Load, Disk, Accepted, Sealed, Sender!Refusals
    <2> QED BY <2>1, <2>2, <2>3, <2>4
<1>2. CASE Sender!Derive
    <2>1. Sender!TypeOK'
        BY <1>2 DEF Sender!Derive, Sender!KdfMay, Sender!TypeOK, Sender!OutputType, Sender!Secrets, Sender!Refusals
    <2>2. Passed'
        BY <1>2 DEF Sender!Derive, Sender!KdfMay, Passed, AfterLoad, AfterHash, AfterDerive, AfterCost, AfterFit
    <2>3. Alive'
        BY <1>2 DEF Sender!Derive, Sender!KdfMay, Alive
    <2>4. Disk'
        BY <1>2 DEF Sender!Derive, Sender!KdfMay, Disk, Accepted, Sealed, Sender!Refusals
    <2> QED BY <2>1, <2>2, <2>3, <2>4
<1>3. CASE Sender!Seal
    <2>1. Sender!TypeOK'
        BY <1>3 DEF Sender!Seal, Sender!TypeOK, Sender!OutputType, Sender!Secrets, Sender!Refusals
    <2>2. Passed'
        BY <1>3 DEF Sender!Seal, Passed, AfterLoad, AfterHash, AfterDerive, AfterCost, AfterFit
    <2>3. Alive'
        BY <1>3 DEF Sender!Seal, Alive
    <2>4. Disk'
        BY <1>3 DEF Sender!Seal, Disk, Accepted, Sealed, Sender!Refusals
    <2> QED BY <2>1, <2>2, <2>3, <2>4
<1>4. CASE Sender!ComputeCost
    <2>1. Sender!TypeOK'
        BY <1>4 DEF Sender!ComputeCost, Sender!TypeOK, Sender!OutputType, Sender!Secrets, Sender!Refusals
    <2>2. Passed'
        BY <1>4 DEF Sender!ComputeCost, Passed, AfterLoad, AfterHash, AfterDerive, AfterCost, AfterFit
    <2>3. Alive'
        BY <1>4 DEF Sender!ComputeCost, Alive
    <2>4. Disk'
        BY <1>4 DEF Sender!ComputeCost, Disk, Accepted, Sealed, Sender!Refusals
    <2> QED BY <2>1, <2>2, <2>3, <2>4
<1>5. CASE Sender!Fit
    <2>1. Sender!TypeOK'
        BY <1>5 DEF Sender!Fit, Sender!TypeOK, Sender!OutputType, Sender!Secrets, Sender!Refusals
    <2>2. Passed'
        BY <1>5 DEF Sender!Fit, Passed, AfterLoad, AfterHash, AfterDerive, AfterCost, AfterFit
    <2>3. Alive'
        BY <1>5 DEF Sender!Fit, Alive
    <2>4. Disk'
        BY <1>5 DEF Sender!Fit, Disk, Accepted, Sealed, Sender!Refusals
    <2> QED BY <2>1, <2>2, <2>3, <2>4
<1>6. CASE Sender!Code
    <2>1. Sender!TypeOK'
        BY <1>6 DEF Sender!Code, Sender!TypeOK, Sender!OutputType, Sender!Secrets, Sender!Refusals
    <2>2. Passed'
        BY <1>6 DEF Sender!Code, Passed, AfterLoad, AfterHash, AfterDerive, AfterCost, AfterFit
    <2>3. Alive'
        BY <1>6 DEF Sender!Code, Alive
    <2>4. Disk'
        BY <1>6 DEF Sender!Code, Disk, Accepted, Sealed, Sender!Refusals
    <2> QED BY <2>1, <2>2, <2>3, <2>4
<1>7. CASE Sender!Hash
    <2>1. Sender!TypeOK'
        BY <1>7, SaltsAreSalts DEF Sender!Hash, Sender!TypeOK, Sender!OutputType, Sender!Secrets, Sender!Refusals
    <2>2. Passed'
        BY <1>7 DEF Sender!Hash, Passed, AfterLoad, AfterHash, AfterDerive, AfterCost, AfterFit
    <2>3. Alive'
        BY <1>7 DEF Sender!Hash, Alive
    <2>4. Disk'
        BY <1>7 DEF Sender!Hash, Disk, Accepted, Sealed, Sender!Refusals
    <2> QED BY <2>1, <2>2, <2>3, <2>4
<1> QED BY <1>1, <1>2, <1>3, <1>4, <1>5, <1>6, <1>7

\* The image gets its payload: everything that was accepted comes together.
LEMMA SenderApplies == ASSUME SenderInv, Sender!Apply PROVE SenderInv'
<1> USE DEF SenderInv, Sender!Step
<1>1. PICK h \in Sender!Measurements, g \in BOOLEAN :
        /\ Sender!Near(cover.hash, h, Eps)
        /\ stego' = [gates |-> g, hash |-> h, made |-> "embed",
                     key |-> Sender!KeyOf(measured, chosen), msg |-> msg, damage |-> {}]
    BY DEF Sender!Apply
<1>2. Sender!KeyOf(measured, chosen) \in Sender!Keys
    BY DEF Sender!TypeOK, Sender!KeyOf, Sender!Keys
<1>3. stego' \in Sender!Files
    BY <1>1, <1>2 DEF Sender!TypeOK, Sender!Files
<1>4. Accepted /\ measured = Sender!Primary(cover.hash)
    BY DEF Sender!Apply, Passed, Accepted, AfterLoad, AfterHash, AfterDerive, AfterCost, AfterFit
<1>5. Sender!TypeOK'
    BY <1>3 DEF Sender!Apply, Sender!TypeOK, Sender!OutputType, Sender!BeginWrite, Sender!WriterStates, Sender!callVars, Sender!Secrets
<1>6. Passed'
    BY <1>4 DEF Sender!Apply, Passed, Accepted, Sender!callVars, AfterLoad, AfterHash, AfterDerive,
                AfterCost, AfterFit
<1>7. Alive'
    BY DEF Sender!Apply, Alive, Sender!callVars
<1>8. Accepted' /\ Sealed'
    BY <1>1, <1>3, <1>4 DEF Sender!Apply, Accepted, Sealed, Sender!callVars
<1>9. Disk'
    BY <1>8 DEF Sender!Apply, Disk, Sender!BeginWrite, Sender!callVars
<1> QED BY <1>5, <1>6, <1>7, <1>9

\* The write and its end leave everything but the disk alone.
LEMMA SenderWrites == ASSUME SenderInv, Sender!Write \/ Sender!Report \/ Sender!Crash PROVE SenderInv'
<1> USE DEF SenderInv, Sender!outputVars, Sender!callVars, Sender!Return
<1>1. CASE Sender!Write
    <2> USE <1>1
    <2>1. Sender!TypeOK'
        BY DEF Sender!Write, Sender!WriteStep, Sender!CompressSamples, Sender!CreateFile, Sender!WriteChunks, Sender!FinishFile,
               Sender!WriteFails, Sender!TypeOK, Sender!OutputType, Sender!DiskStates, Sender!WriterStates
    <2>2. Passed' /\ Alive'
        BY DEF Sender!Write, Passed, Alive, AfterLoad, AfterHash, AfterDerive, AfterCost, AfterFit
    <2>3. Accepted' /\ Sealed' /\ report' = "pending" /\ stage' = "write"
        BY DEF Sender!Write, Disk, Accepted, Sealed
    <2>4. writer' = "closed" => disk' = "container"
        BY DEF Sender!Write, Sender!WriteStep, Sender!CompressSamples, Sender!CreateFile, Sender!WriteChunks, Sender!FinishFile,
               Sender!WriteFails
    <2>5. Disk'
        BY <2>3, <2>4 DEF Disk, Sender!Refusals
    <2> QED BY <2>1, <2>2, <2>5
<1>2. CASE Sender!Report
    <2> USE <1>2
    <2>1. Sender!TypeOK'
        BY DEF Sender!Report, Sender!TypeOK, Sender!OutputType
    <2>2. Passed' /\ Alive'
        BY DEF Sender!Report, Passed, Alive, AfterLoad, AfterHash, AfterDerive, AfterCost, AfterFit
    <2>3. Disk'
        BY DEF Sender!Report, Disk, Accepted, Sealed, Sender!Refusals
    <2> QED BY <2>1, <2>2, <2>3
<1>3. CASE Sender!Crash
    <2> USE <1>3
    <2>1. Sender!TypeOK'
        BY DEF Sender!Crash, Sender!TypeOK, Sender!OutputType
    <2>2. Passed' /\ Alive'
        BY DEF Sender!Crash, Passed, Alive, AfterLoad, AfterHash, AfterDerive, AfterCost, AfterFit
    <2>3. Disk'
        BY DEF Sender!Crash, Disk, Accepted, Sealed, Sender!Refusals
    <2> QED BY <2>1, <2>2, <2>3
<1> QED BY <1>1, <1>2, <1>3

LEMMA SenderRests == ASSUME SenderInv, UNCHANGED Sender!vars PROVE SenderInv'
BY DEF Sender!vars, Sender!outputVars, Sender!callVars, SenderInv, Sender!TypeOK, Sender!OutputType, Passed, Alive, Disk, Accepted,
       Sealed, AfterLoad, AfterHash, AfterDerive, AfterCost, AfterFit

LEMMA SenderMoves == SenderInv /\ [Sender!Next]_(Sender!vars) => SenderInv'
BY SenderQuiet, SenderApplies, SenderWrites, SenderRests DEF Sender!Next, Sender!Steps, Sender!Finished

\* What is in memory from the write on is a file the receiving side is built for.
LEMMA SealedIsPossible ==
    ASSUME SenderInv, disk # before
    PROVE  stego \in Sender!PossibleFiles
<1>1. Accepted /\ Sealed
    BY DEF SenderInv, Disk
<1>2. cover.hash \in Sender!Measurements
    BY DEF SenderInv, Sender!TypeOK, Sender!Covers
<1>3. stego.key[1] = Sender!Primary(cover.hash) /\ stego.key[2] = chosen
    BY <1>1 DEF Sealed, Sender!KeyOf
<1>4. stego.key \in Sender!Keys
    BY <1>1, SaltsAreSalts DEF Sealed, Sender!KeyOf, Sender!Keys, SenderInv, Sender!TypeOK
<1>5. Sender!Carries(stego)
    BY <1>1, <1>3, <1>4 DEF Sender!Carries, Accepted, Sealed, SenderInv, Sender!TypeOK
<1>6. Sender!AsEmbedded(stego)
    BY <1>1, <1>2, <1>3 DEF Sender!AsEmbedded, Accepted, Sealed
<1> QED
    BY <1>1, <1>5, <1>6 DEF Sender!PossibleFiles, Sealed

LEMMA SenderPromises ==
    SenderInv => Sender!PublishedIsPossible /\ Sender!TouchedLast /\ Sender!ReportedIsWritten
<1> SUFFICES ASSUME SenderInv
             PROVE  Sender!PublishedIsPossible /\ Sender!TouchedLast /\ Sender!ReportedIsWritten
    OBVIOUS
<1>1. Sender!PublishedIsPossible
    <2> SUFFICES ASSUME disk = "container"
                 PROVE  /\ stego \in Sender!PossibleFiles /\ stego.made = "embed"
                        /\ stego.key = Sender!KeyOf(Sender!Primary(cover.hash), chosen)
                        /\ stego.msg = msg
        BY DEF Sender!PublishedIsPossible
    <2>1. disk # before
        BY DEF SenderInv, Sender!TypeOK, Sender!OutputType
    <2> QED
        BY <2>1, SealedIsPossible DEF SenderInv, Disk, Sealed
<1>2. Sender!TouchedLast
    <2> SUFFICES ASSUME disk # before
                 PROVE  held = {} /\ Accepted /\ report \notin Sender!Refusals
        BY DEF Sender!TouchedLast, Accepted
    <2>1. stage \in {"write", "done", "crashed"}
        BY DEF SenderInv, Disk
    <2> QED
        BY <2>1 DEF SenderInv, Disk, Alive
<1>3. Sender!ReportedIsWritten
    BY DEF SenderInv, Disk, Sender!ReportedIsWritten
<1> QED
    BY <1>1, <1>2, <1>3

\* The sender by itself, whoever else there is: every variable keeps its type,
\* what embed publishes is what ExtractPipeline assumes of a stego image, the
\* output path is the last thing touched, and success means a whole container.
THEOREM SenderGuarantees ==
    Sender!Init /\ [][Sender!Next]_(Sender!vars) =>
        [](/\ Sender!TypeOK /\ Sender!PublishedIsPossible
           /\ Sender!TouchedLast /\ Sender!ReportedIsWritten)
<1>1. SenderInv => Sender!TypeOK
    BY DEF SenderInv
<1> QED
    BY <1>1, SenderStarts, SenderMoves, SenderPromises, PTL

-----------------------------------------------------------------------------
(***************************************************************************)
(* The file between the two.  The sender's definitions of a file are those *)
(* of the receiver; they are compared once, here.                          *)
(***************************************************************************)
LEMMA SameMeasure ==
    ASSUME NEW m
    PROVE  /\ Sender!Stable(m) <=> Stable(m)
           /\ Sender!Primary(m) = Primary(m)
<1>1. Sender!UnstableIndices(m) = UnstableIndices(m)
    BY DEF Sender!UnstableIndices, UnstableIndices, Sender!Margin, Margin
<1>2. Sender!Cardinality(UnstableIndices(m)) = Cardinality(UnstableIndices(m))
    BY DEF Sender!Cardinality, Cardinality
<1> QED
    BY <1>1, <1>2 DEF Sender!Stable, Stable, Sender!MAX_UNSTABLE_BITS, MAX_UNSTABLE_BITS,
       Sender!Primary, Primary, Sender!HashBits, HashBits

LEMMA SameFiles == Sender!PossibleFiles = PossibleFiles
<1> USE DEF Sender!Keys, Keys, Sender!Salts, Salts, Sender!NoKey, NoKey,
            Sender!NoMessage, NoMessage, Sender!Measurements, Measurements
<1>1. Sender!Files = Files
    BY DEF Sender!Files, Files, Sender!Regions, Regions
<1>2. \A f : Sender!Carries(f) <=> Carries(f)
    BY DEF Sender!Carries, Carries
<1>3. \A f : Sender!AsEmbedded(f) <=> AsEmbedded(f)
    BY SameMeasure DEF Sender!AsEmbedded, AsEmbedded, Sender!Near, Near
<1>4. \A f : Sender!AsGenerated(f) <=> AsGenerated(f)
    BY SameMeasure DEF Sender!AsGenerated, AsGenerated
<1> QED
    BY <1>1, <1>2, <1>3, <1>4 DEF Sender!PossibleFiles, PossibleFiles

LEMMA UndecodableIsPossible == Undecodable \in PossibleFiles
<1>1. [i \in Bits |-> 0] \in Measurements
    BY DEF Measurements
<1> QED
    BY <1>1 DEF Undecodable, PossibleFiles, Files

\* A copy is the file or a damaged one, and damage leaves a file possible.
LEMMA CopiesArePossible ==
    ASSUME NEW f \in PossibleFiles, NEW c \in Copies(f)
    PROVE  /\ c \in PossibleFiles
           /\ c.damage = {} => c = f
<1>1. f \in Files
    BY DEF PossibleFiles
<1>2. CASE c = f
    BY <1>2
<1>3. CASE f.made # "photo" /\ \E r \in Regions : c = [f EXCEPT !.damage = {r}]
    <2>1. PICK r \in Regions : c = [f EXCEPT !.damage = {r}]
        BY <1>3
    <2>2. c \in Files /\ c.damage = {r} /\ c.made = f.made /\ c.key = f.key /\ c.msg = f.msg
        BY <1>1, <2>1 DEF Files
    <2>3. Carries(c) /\ c.made \in {"embed", "generate"}
        BY <1>3, <2>2 DEF PossibleFiles, Carries
    <2> QED
        BY <2>2, <2>3 DEF PossibleFiles
<1> QED
    BY <1>2, <1>3 DEF Copies
-----------------------------------------------------------------------------
(***************************************************************************)
(* The two together.  Until it is called the receiver is as it starts; the *)
(* file it opened is the older one, nothing, or what the sender was        *)
(* writing, which does not change from the first byte of the write on.     *)
(***************************************************************************)
Waiting ==
    /\ password \in Passwords
    /\ salt = {} /\ retried = FALSE /\ prefix = {} /\ derivations = 0
    /\ worker = [w \in Workers |-> "idle"]
    /\ result = Pending

Arrived ==
    \/ fromDisk = "older" /\ image \in Copies(older)
    \/ fromDisk = "fragment" /\ image = Undecodable
    \/ /\ fromDisk \in {"fragment", "container"} /\ image \in Copies(stego)
       /\ disk \in {"fragment", "container"}

ChannelInv ==
    /\ SenderInv
    /\ older \in OlderFiles
    /\ IF pc = "waiting" THEN Waiting ELSE IInv /\ Arrived

\* What needs that no random prefix looks like a frame.
Convinced == pc # "waiting" => Outstanding /\ Answered

LEMMA ChannelStarts == ChannelInit => ChannelInv /\ Convinced
BY SenderStarts DEF ChannelInit, ChannelInv, Waiting, Convinced

\* A receiver that has just been called is one at its start.
LEMMA CalledIsInit == Init' => IInv' /\ Outstanding' /\ Answered'
BY InitIInv, InitDInv, PTL

LEMMA OpenHolds ==
    ASSUME ChannelInv, Open
    PROVE  ChannelInv' /\ Convinced'
<1>1. pc = "waiting" /\ pc' = "load" /\ Waiting
    BY DEF Open, ChannelInv
<1>2. UNCHANGED <<senderVars, older, password, salt, retried, prefix, worker, derivations, result>>
    BY DEF Open, searchVars
<1>3. SenderInv'
    BY <1>2, SenderRests DEF ChannelInv, senderVars, Sender!vars, Sender!outputVars,
       Sender!callVars
<1>4. PICK f \in OnDisk : image' \in Copies(f)
    BY DEF Open
<1>5. fromDisk' = disk /\ disk \in {"absent", "older", "fragment", "container"}
      /\ before \in {"absent", "older"}
    BY DEF Open, ChannelInv, SenderInv, Sender!TypeOK, Sender!OutputType, Sender!DiskStates
<1>6. /\ disk = "older" => f = older
      /\ disk = "fragment" => f \in {Undecodable, stego}
      /\ disk = "container" => f = stego
      /\ disk # "absent"
    BY <1>4, <1>5 DEF OnDisk
<1>7. f \in PossibleFiles
    <2>1. disk \in {"fragment", "container"} => stego \in PossibleFiles
        BY <1>5, SealedIsPossible, SameFiles DEF ChannelInv
    <2> QED
        BY <1>5, <1>6, <2>1, UndecodableIsPossible DEF ChannelInv
<1>8. Init'
    BY <1>1, <1>2, <1>4, <1>7, CopiesArePossible DEF Init, Waiting
<1>9. Copies(Undecodable) = {Undecodable}
    BY DEF Copies, Undecodable
<1>10. Arrived'
    <2>1. UNCHANGED <<older, stego, disk>>
        BY <1>2 DEF senderVars
    <2> QED
        BY <1>4, <1>5, <1>6, <1>9, <2>1 DEF Arrived
<1> QED
    BY <1>1, <1>2, <1>3, <1>8, <1>10, CalledIsInit DEF ChannelInv, Convinced

LEMMA SenderStepHolds ==
    ASSUME ChannelInv, SenderStep
    PROVE  ChannelInv'
<1>1. UNCHANGED <<older, image, fromDisk, password, pc, salt, retried, prefix, worker, derivations, result>>
    BY DEF SenderStep, receiverVars, searchVars
<1>2. SenderInv'
    BY SenderMoves DEF ChannelInv, SenderStep, Sender!Next
<1>3. Waiting => Waiting'
    BY <1>1 DEF Waiting
<1>4. pc # "waiting" => IInv'
    BY <1>1, NextIInv DEF ChannelInv, vars
<1>5. ASSUME pc # "waiting" PROVE Arrived'
    <2>1. SenderInv /\ Arrived
        BY <1>5 DEF ChannelInv
    <2>2. ASSUME disk \in {"fragment", "container"}
          PROVE  disk' \in {"fragment", "container"} /\ UNCHANGED stego
        <3>1. stage \in {"write", "done", "crashed"}
            BY <2>1, <2>2 DEF SenderInv, Disk, Sender!TypeOK, Sender!OutputType
        <3>2. Sender!Write \/ Sender!Report \/ Sender!Crash
            BY <3>1 DEF SenderStep, Sender!Steps, Sender!Load, Sender!Hash, Sender!Derive,
               Sender!Seal, Sender!ComputeCost, Sender!Fit, Sender!Code, Sender!Apply,
               Sender!Step
        <3> QED
            BY <2>2, <3>2 DEF Sender!Write, Sender!Report, Sender!Crash, Sender!WriteStep,
               Sender!CompressSamples, Sender!CreateFile, Sender!WriteChunks,
               Sender!FinishFile, Sender!WriteFails, Sender!outputVars
    <2> QED
        BY <1>1, <2>1, <2>2 DEF Arrived
<1> QED
    BY <1>1, <1>2, <1>3, <1>4, <1>5 DEF ChannelInv

LEMMA ReceiverStepHolds ==
    ASSUME ChannelInv, ReceiverStep
    PROVE  ChannelInv'
<1>1. UNCHANGED <<before, disk, writer, cover, chosen, msg, stage, measured, held, stego,
                  report, older, fromDisk>>
    BY DEF ReceiverStep, senderVars
<1>2. SenderInv'
    BY <1>1, SenderRests DEF ChannelInv, Sender!vars, Sender!outputVars, Sender!callVars
<1>3. IInv' /\ UNCHANGED image
    <2>1. IInv /\ Next
        BY DEF ChannelInv, ReceiverStep, Next
    <2>2. UNCHANGED image
        BY DEF ReceiverStep, Steps, Load, Hash, Derive, DecodeTrellis, ReadGenerated,
           StartHypothesis, JudgeHypothesis, Join, inputs
    <2> QED
        BY <2>1, <2>2, NextIInv
<1>4. pc' # "waiting"
    BY <1>3 DEF IInv, TypeOK
<1>5. Arrived'
    BY <1>1, <1>3 DEF ChannelInv, ReceiverStep, Arrived
<1> QED
    BY <1>1, <1>2, <1>3, <1>4, <1>5 DEF ChannelInv

LEMMA ChannelRests ==
    ASSUME ChannelInv, UNCHANGED channelVars
    PROVE  ChannelInv'
<1>1. UNCHANGED <<older, image, fromDisk, password, pc, salt, retried, prefix, worker,
                  derivations, result, stego, disk>>
    BY DEF channelVars, senderVars, receiverVars, searchVars
<1>2. SenderInv'
    BY SenderRests DEF ChannelInv, channelVars, senderVars, Sender!vars, Sender!outputVars,
       Sender!callVars
<1>3. pc # "waiting" => IInv'
    BY <1>1, NextIInv DEF ChannelInv, vars
<1> QED
    BY <1>1, <1>2, <1>3 DEF ChannelInv, Waiting, Arrived

LEMMA ChannelMoves == ChannelInv /\ [ChannelNext]_channelVars => ChannelInv'
BY SenderStepHolds, OpenHolds, ReceiverStepHolds, ChannelRests DEF ChannelNext, ChannelFinished

\* The search of the receiver goes on as if it were alone.
LEMMA ConvincedMoves ==
    ASSUME ~Collisions, ChannelInv, ChannelInv', Convinced, [ChannelNext]_channelVars
    PROVE  Convinced'
<1>1. CASE Open
    BY <1>1, OpenHolds
<1>2. CASE ~Open
    <2>1. CASE pc = "waiting"
        <3>1. UNCHANGED pc
            BY <1>2, <2>1 DEF ChannelNext, SenderStep, ReceiverStep, ChannelFinished,
               channelVars, receiverVars
        <3> QED
            BY <2>1, <3>1 DEF Convinced
    <2>2. CASE pc # "waiting"
        <3>1. DInv
            BY <2>2 DEF ChannelInv, Convinced, DInv
        <3>2. [Next]_vars
            BY <1>2 DEF ChannelNext, SenderStep, ReceiverStep, ChannelFinished, channelVars,
               receiverVars, searchVars, vars, Next
        <3>3. IInv'
            BY <3>1, <3>2, NextIInv DEF DInv
        <3> QED
            BY <3>1, <3>2, <3>3, NextDInv DEF Convinced
    <2> QED
        BY <2>1, <2>2
<1> QED
    BY <1>1, <1>2

LEMMA ChannelInvariance == ChannelSpec => []ChannelInv
BY ChannelStarts, ChannelMoves, PTL DEF ChannelSpec

LEMMA Convincing == ASSUME ~Collisions PROVE ChannelSpec => [](ChannelInv /\ Convinced)
<1>1. ChannelInv /\ Convinced /\ [ChannelNext]_channelVars => (ChannelInv /\ Convinced)'
    BY ChannelMoves, ConvincedMoves
<1> QED
    BY <1>1, ChannelStarts, PTL DEF ChannelSpec
-----------------------------------------------------------------------------
\* Neither side notices the other: what the sender does in the channel is what
\* it does alone, and what the receiver does, from the call on, is extract.
THEOREM SenderUndisturbed ==
    ChannelSpec => Sender!Init /\ [][Sender!Next]_(Sender!vars)
<1>1. ChannelInit => Sender!Init
    BY DEF ChannelInit
<1>2. [ChannelNext]_channelVars => [Sender!Next]_(Sender!vars)
    BY DEF ChannelNext, SenderStep, Open, ReceiverStep, ChannelFinished, channelVars, senderVars,
       Sender!Next, Sender!vars, Sender!outputVars, Sender!callVars
<1> QED
    BY <1>1, <1>2, PTL DEF ChannelSpec

\* A whole container on disk is one the receiving side was built for, whenever
\* it is looked at and whatever became of the sender.
THEOREM ChannelPublishes == ChannelSpec => []PublishedIsPossible
<1> QED
    BY SenderUndisturbed, SenderGuarantees, PTL DEF PublishedIsPossible

\* The path is touched after the last check and after the last secret is gone.
THEOREM ChannelTouchesLast == ChannelSpec => []TouchedLast
<1> QED
    BY SenderUndisturbed, SenderGuarantees, PTL DEF TouchedLast

\* Whoever is told that it worked has a whole container, and whoever opens that
\* container with the same password gets the message: the salt is measured twice,
\* on two different images, and the search covers the difference.
THEOREM MessageDelivered == ASSUME ~Collisions PROVE ChannelSpec => []Delivered
<1>1. ASSUME ChannelInv, Convinced
      PROVE  Delivered
    <2>1. SenderInv /\ Sender!ReportedIsWritten
        BY <1>1, SenderPromises DEF ChannelInv
    <2> SUFFICES ASSUME pc = "done", fromDisk = "container", password = chosen,
                        image.damage = {}, image.gates, Stable(image.hash), msg \notin Oversized
                 PROVE  result \in {Success(msg), Failure("kdf"), Failure("phash_kdf")}
        BY <2>1 DEF Delivered
    <2>2. DInv /\ Arrived
        BY <1>1 DEF ChannelInv, Convinced, DInv
    <2>3. image \in Copies(stego) /\ disk # before
        BY <2>1, <2>2 DEF Arrived, SenderInv, Sender!TypeOK, Sender!OutputType
    <2>4. image = stego
        BY <2>1, <2>3, SealedIsPossible, SameFiles, CopiesArePossible
    <2>5. /\ image.made = "embed" /\ image.msg = msg
          /\ image.key = Sender!KeyOf(Sender!Primary(cover.hash), chosen)
        BY <2>1, <2>3, <2>4 DEF SenderInv, Disk, Sealed
    <2>6. Readable(image, password)
        BY <2>5 DEF Readable, Sender!KeyOf
    <2> QED
        BY <2>2, <2>5, <2>6, GenuineAnswer DEF GenuineIsRecovered
<1> QED
    BY <1>1, Convincing, PTL

\* What comes out of the path, whenever it is read, is the older message or the
\* new one, whole, to somebody with its password; and the new one not before the
\* sender is past refusing.
THEOREM OldOrNewOnly == ChannelSpec => []OldOrNew
<1>1. ASSUME ChannelInv
      PROVE  OldOrNew
    <2> SUFFICES ASSUME result.kind = "recovered"
                 PROVE  /\ image.damage = {}
                        /\ \/ /\ fromDisk = "older" /\ result.msg = older.msg
                              /\ password = older.key[2]
                           \/ /\ fromDisk \in {"fragment", "container"}
                              /\ result.msg = msg /\ password = chosen
                              /\ report \in {"pending", "ok", "output"}
        BY DEF OldOrNew
    <2>1. pc # "waiting"
        BY <1>1 DEF ChannelInv, Waiting, Pending
    <2>2. IInv /\ Arrived /\ SenderInv /\ older \in PossibleFiles
        BY <1>1, <2>1 DEF ChannelInv
    <2>3. /\ result.msg = image.msg /\ image.damage = {}
          /\ image.key = KeyOf(salt, password) /\ KeyOf(salt, password) \in Keys
        BY <2>2, KeysAreKeys DEF IInv, OnlyTheSealedMessage
    <2>4. image.key[2] = password
        BY <2>3 DEF KeyOf
    <2>5. CASE fromDisk = "older" /\ image \in Copies(older)
        BY <2>2, <2>3, <2>4, <2>5, CopiesArePossible
    <2>6. image # Undecodable
        BY <2>3, NoKeyIsNoKey DEF Undecodable
    <2>7. CASE /\ fromDisk \in {"fragment", "container"} /\ image \in Copies(stego)
               /\ disk \in {"fragment", "container"}
        <3>1. disk # before
            BY <2>2, <2>7 DEF SenderInv, Sender!TypeOK, Sender!OutputType
        <3>2. image = stego
            BY <2>2, <2>3, <2>7, <3>1, SealedIsPossible, SameFiles, CopiesArePossible
        <3>3. /\ stego.msg = msg /\ stego.key[2] = chosen
              /\ report \notin Sender!Refusals
            BY <2>2, <3>1 DEF SenderInv, Disk, Sealed, Sender!KeyOf
        <3>4. report \in {"pending", "ok", "output"}
            BY <2>2, <3>3 DEF SenderInv, Sender!TypeOK
        <3> QED
            BY <2>3, <2>4, <2>7, <3>2, <3>3, <3>4
    <2> QED
        BY <2>2, <2>5, <2>6, <2>7 DEF Arrived
<1> QED
    BY <1>1, ChannelInvariance, PTL
=============================================================================
