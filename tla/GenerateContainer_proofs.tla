---------------------- MODULE GenerateContainer_proofs ----------------------
(***************************************************************************)
(* What GenerateContainer guarantees for every number of candidates, every *)
(* set of hash bits and every margin: the container it publishes is opened *)
(* by the first hypothesis of the receiver, and the search costs at most   *)
(* one derivation per texture.                                             *)
(***************************************************************************)
EXTENDS GenerateContainer, TLAPS

AfterFit == {"next", "draft", "derive", "seal", "judge", "write"}
AfterDerive == {"seal", "judge", "write"}

Passed ==
    /\ pc \in AfterFit => Size(msg) <= room
    /\ pc \in AfterDerive => password # EmptyPassword

\* Derivations against textures: a draft owes its derivation until it is sealed.
Counted ==
    /\ derivations <= candidate
    /\ pc \in {"draft", "derive"} => derivations < candidate
    /\ pc \in AfterDerive => derivations > 0
    /\ result = "ok" => derivations > 0

\* The container drawn from the draft, and what its judgement adds.
Sealed ==
    /\ image.made = "generate" /\ image.damage = {} /\ image.msg = msg
    /\ image.key = KeyOf(draftSalt, password)

Kept == image.gates /\ Stable(image.hash) /\ Primary(image.hash) = draftSalt

Accepted == Size(msg) <= room /\ password # EmptyPassword

Disk ==
    /\ pc \notin {"write", "done", "crashed"} => writer = "idle" /\ disk = before
    /\ pc # "done" => result = "pending"
    /\ pc = "judge" => Sealed
    /\ pc = "write" => Accepted /\ Sealed /\ Kept
    /\ disk # before => Accepted /\ Sealed /\ Kept /\ result \notin Failures

IInv == TypeOK /\ Passed /\ Counted /\ Disk

USE GenerateAssumption, ContainerAssumption, HashAssumption

LEMMA SaltsAreSalts == ASSUME NEW m PROVE Primary(m) \in Salts
BY DEF Primary, HashBits, Salts

LEMMA InitIInv == Init => IInv
<1> SUFFICES ASSUME Init PROVE IInv
    OBVIOUS
<1>2. TypeOK
    BY DEF Init, TypeOK, OutputInit, OutputType, DiskStates, WriterStates, Salts
<1>3. Passed
    BY DEF Init, Passed, AfterFit, AfterDerive
<1>4. Counted
    BY DEF Init, Counted, AfterDerive
<1>5. Disk
    BY DEF Init, Disk, OutputInit, Failures
<1> QED BY <1>2, <1>3, <1>4, <1>5 DEF IInv

LEMMA SearchSteps ==
    ASSUME IInv, Compress \/ Fit \/ NextCandidate \/ Draft \/ Derive
    PROVE  IInv'
<1> USE DEF IInv, outputVars, callVars, Step, Return
<1>1. CASE Compress
    <2>1. TypeOK'
        BY <1>1 DEF Compress, TypeOK, OutputType, Failures
    <2>2. Passed' /\ Counted' /\ Disk'
        BY <1>1 DEF Compress, Passed, Counted, Disk, Accepted, Sealed, Kept, AfterFit,
                    AfterDerive
    <2> QED BY <2>1, <2>2
<1>2. CASE Fit
    <2>1. TypeOK'
        BY <1>2 DEF Fit, TypeOK, OutputType, Failures
    <2>2. Passed' /\ Counted' /\ Disk'
        BY <1>2 DEF Fit, Passed, Counted, Disk, Accepted, Sealed, Kept, AfterFit,
                    AfterDerive
    <2> QED BY <2>1, <2>2
<1>3. CASE NextCandidate
    <2>1. TypeOK'
        BY <1>3 DEF NextCandidate, TypeOK, OutputType, Failures
    <2>2. Passed' /\ Disk'
        BY <1>3 DEF NextCandidate, Passed, Disk, Accepted, Sealed, Kept, AfterFit, AfterDerive
    <2>3. Counted'
        BY <1>3 DEF NextCandidate, Counted, TypeOK, AfterDerive
    <2> QED BY <2>1, <2>2, <2>3
<1>4. CASE Draft
    <2>1. TypeOK'
        BY <1>4, SaltsAreSalts DEF Draft, TypeOK, OutputType, Failures
    <2>2. Passed' /\ Counted'
        BY <1>4 DEF Draft, Passed, Counted, TypeOK, AfterFit, AfterDerive
    <2>3. Disk'
        BY <1>4 DEF Draft, Disk
    <2> QED BY <2>1, <2>2, <2>3
<1>5. CASE Derive
    <2>1. derivations' <= candidate' /\ derivations' \in 0 .. MAX_CANDIDATES /\ derivations' > 0
        BY <1>5 DEF Derive, Counted, TypeOK
    <2>2. TypeOK'
        BY <1>5, <2>1 DEF Derive, TypeOK, OutputType, Failures
    <2>3. Passed'
        BY <1>5 DEF Derive, KdfMay, Passed, AfterFit, AfterDerive
    <2>4. Counted'
        BY <1>5, <2>1 DEF Derive, Counted, AfterDerive
    <2>5. Disk'
        BY <1>5 DEF Derive, Disk
    <2> QED BY <2>2, <2>3, <2>4, <2>5
<1> QED BY <1>1, <1>2, <1>3, <1>4, <1>5

LEMMA CandidateSteps == ASSUME IInv, SealAndRender \/ Judge PROVE IInv'
<1> USE DEF IInv, outputVars, callVars, Step, Return
<1>1. CASE SealAndRender
    <2>1. image' \in Files \cup {Nothing} /\ (pc' = "judge" => Sealed')
        <3>1. KeyOf(draftSalt, password) \in Keys
            BY DEF TypeOK, KeyOf, Keys
        <3>2. CASE /\ pc = "seal" /\ (Return("crypto") \/ Return("exhausted"))
                     /\ UNCHANGED image
            BY <3>2 DEF TypeOK
        <3>3. CASE \E h \in Measurements, clean \in BOOLEAN :
                    image' = [gates |-> clean, hash |-> h, made |-> "generate",
                              key |-> KeyOf(draftSalt, password), msg |-> msg, damage |-> {}]
            BY <1>1, <3>1, <3>3 DEF SealAndRender, TypeOK, Files, Sealed
        <3> QED BY <1>1, <3>2, <3>3 DEF SealAndRender
    <2>2. TypeOK'
        BY <1>1, <2>1 DEF SealAndRender, TypeOK, OutputType, Failures
    <2>3. Passed' /\ Counted'
        BY <1>1 DEF SealAndRender, Passed, Counted, AfterFit, AfterDerive
    <2>4. Disk'
        BY <1>1, <2>1 DEF SealAndRender, Disk
    <2> QED BY <2>2, <2>3, <2>4
<1>2. CASE Judge
    <2>1. TypeOK'
        BY <1>2 DEF Judge, TypeOK, OutputType, BeginWrite, WriterStates
    <2>2. Passed' /\ Counted'
        BY <1>2 DEF Judge, Passed, Counted, AfterFit, AfterDerive
    <2>3. pc' = "write" => Accepted' /\ Sealed' /\ Kept'
        BY <1>2 DEF Judge, Disk, Passed, AfterFit, AfterDerive, Accepted, Sealed, Kept
    <2>4. Disk'
        BY <1>2, <2>3 DEF Judge, BeginWrite, Disk
    <2> QED BY <2>1, <2>2, <2>4
<1> QED BY <1>1, <1>2

LEMMA WritingSteps == ASSUME IInv, Write \/ Report \/ Crash PROVE IInv'
<1> USE DEF IInv, outputVars, callVars, Return
<1>1. CASE Write
    <2>1. TypeOK'
        BY <1>1 DEF Write, WriteStep, CompressSamples, CreateFile, WriteChunks, FinishFile,
               WriteFails, TypeOK, OutputType, DiskStates, WriterStates
    <2>2. Passed' /\ Counted'
        BY <1>1 DEF Write, Passed, Counted, AfterFit, AfterDerive
    <2>3. Disk'
        BY <1>1 DEF Write, Disk, Accepted, Sealed, Kept, Failures
    <2> QED BY <2>1, <2>2, <2>3
<1>2. CASE Report
    <2>1. TypeOK'
        BY <1>2 DEF Report, TypeOK, OutputType
    <2>2. Passed' /\ Counted'
        BY <1>2 DEF Report, Passed, Counted, AfterFit, AfterDerive
    <2>3. Disk'
        BY <1>2 DEF Report, Disk, Accepted, Sealed, Kept, Failures
    <2> QED BY <2>1, <2>2, <2>3
<1>3. CASE Crash
    <2>1. TypeOK'
        BY <1>3 DEF Crash, TypeOK, OutputType
    <2>2. Passed' /\ Counted'
        BY <1>3 DEF Crash, Passed, Counted, AfterFit, AfterDerive
    <2>3. Disk'
        BY <1>3 DEF Crash, Disk, Accepted, Sealed, Kept, Failures
    <2> QED BY <2>1, <2>2, <2>3
<1> QED BY <1>1, <1>2, <1>3

LEMMA Stutter == ASSUME IInv, UNCHANGED vars PROVE IInv'
BY DEF vars, outputVars, callVars, IInv, TypeOK, OutputType, Passed, Counted, Disk, Accepted,
       Sealed, Kept, AfterFit, AfterDerive

LEMMA NextIInv == IInv /\ [Next]_vars => IInv'
BY SearchSteps, CandidateSteps, WritingSteps, Stutter DEF Next, Steps, Finished

LEMMA Invariance == Spec => []IInv
BY InitIInv, NextIInv, PTL DEF Spec

\* Every variable keeps its type; in particular no more textures are tried, and
\* no more derivations made, than MAX_CANDIDATES.
THEOREM TypeCorrect == Spec => []TypeOK
<1>1. IInv => TypeOK
    BY DEF IInv
<1> QED BY <1>1, Invariance, PTL

\* What generate publishes opens under the first hypothesis of the receiver:
\* the assumption ExtractPipeline makes of every undamaged generated container.
THEOREM Publishes == Spec => []PublishedOpensFirst
<1>1. IInv => PublishedOpensFirst
    <2> SUFFICES ASSUME IInv, disk = "container"
                 PROVE  /\ image \in PossibleFiles /\ image.made = "generate"
                        /\ image.gates /\ Stable(image.hash)
                        /\ image.key = KeyOf(Primary(image.hash), password)
                        /\ image.msg = msg
        BY DEF PublishedOpensFirst
    <2>1. disk # before
        BY DEF IInv, TypeOK, OutputType
    <2>2. Accepted /\ Sealed /\ Kept
        BY <2>1 DEF IInv, Disk
    <2>3. image \in Files
        BY <2>2 DEF IInv, TypeOK, Sealed, Nothing
    <2>4. image.key \in Keys /\ image.key[1] = draftSalt /\ image.key[2] = password
        BY <2>2 DEF Sealed, KeyOf, Keys, IInv, TypeOK
    <2>5. Carries(image) /\ AsGenerated(image)
        BY <2>2, <2>4 DEF Carries, AsGenerated, Accepted, Sealed, Kept, IInv, TypeOK
    <2> QED BY <2>2, <2>3, <2>5 DEF PossibleFiles, Sealed, Kept
<1> QED BY <1>1, Invariance, PTL

\* A search that failed, and every refusal before it, leave the path alone.
THEOREM TouchesLast == Spec => []TouchedLast
<1>1. IInv => TouchedLast
    BY DEF IInv, Disk, Accepted, TouchedLast
<1> QED BY <1>1, Invariance, PTL

\* A container costs one derivation per draft that was worth sealing.
THEOREM Bounded == Spec => []DerivationsAreBounded
<1>1. IInv => DerivationsAreBounded
    BY DEF IInv, Counted, DerivationsAreBounded
<1> QED BY <1>1, Invariance, PTL
=============================================================================
