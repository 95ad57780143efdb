------------------------- MODULE GenerateContainer --------------------------
(***************************************************************************)
(* generate: a container drawn around its payload.                         *)
(*                                                                         *)
(* The key comes from the perceptual hash of the container, and drawing    *)
(* the payload into the container redraws the samples the hash is measured *)
(* on.  The code breaks the circle by drawing a draft, sealing under its   *)
(* hash, drawing the container from the same texture and throwing the      *)
(* candidate away unless both hash alike.  At most MAX_CANDIDATES textures *)
(* are tried.                                                              *)
(***************************************************************************)
EXTENDS Container, OutputFile

CONSTANTS
    Rooms,          \* payload capacities of the dimensions asked for
    Size(_),        \* bytes a message needs once compressed
    MAX_CANDIDATES  \* textures tried (64 in the code)

ASSUME GenerateAssumption ==
    /\ Rooms \subseteq Nat
    /\ \A m \in Messages : Size(m) \in Nat
    /\ MAX_CANDIDATES \in Nat \ {0}

VARIABLES
    room,           \* capacity of the dimensions
    password,       \* the password of the sender
    msg,            \* the plaintext
    pc,             \* where generate is
    candidate,      \* textures tried, the current one included
    draftSalt,      \* the salt of the current draft
    derivations,    \* Argon2id passes
    image,          \* the container in memory, as the file it would be
    result          \* what generate returned

callVars == <<room, password, msg>>
vars == <<outputVars, callVars, pc, candidate, draftSalt, derivations, image, result>>

Nothing == [made |-> "nothing"]

Init ==
    /\ OutputInit
    /\ room \in Rooms /\ password \in Passwords /\ msg \in Messages
    /\ pc = "compress"
    /\ candidate = 0
    /\ draftSalt = {}
    /\ derivations = 0
    /\ image = Nothing
    /\ result = "pending"

Return(r) == result' = r /\ pc' = "done"
Step(from, to) == pc = from /\ pc' = to /\ UNCHANGED result

\* The message is compressed once, ahead of the search.
Compress ==
    /\ Step("compress", "fit") \/ (pc = "compress" /\ Return("crypto"))
    /\ UNCHANGED <<outputVars, callVars, candidate, draftSalt, derivations, image>>

\* fits, and the seed of the generator.
Fit ==
    /\ \/ Size(msg) <= room /\ Step("fit", "next")
       \/ pc = "fit" /\ Size(msg) > room /\ Return("too_large")
       \/ pc = "fit" /\ Size(msg) <= room /\ Return("entropy")
    /\ UNCHANGED <<outputVars, callVars, candidate, draftSalt, derivations, image>>

\* The head of the candidate loop.
NextCandidate ==
    /\ \/ candidate < MAX_CANDIDATES /\ Step("next", "draft") /\ candidate' = candidate + 1
       \/ /\ pc = "next" /\ candidate = MAX_CANDIDATES /\ Return("no_usable_texture")
          /\ UNCHANGED candidate
    /\ UNCHANGED <<outputVars, callVars, draftSalt, derivations, image>>

\* Mutant of Draft: a texture that is skipped does not count.
DraftUncounted ==
    /\ pc = "draft"
    /\ \E d \in Measurements, clean, textured \in BOOLEAN :
        \/ /\ Stable(d) /\ clean /\ textured
           /\ Step("draft", "derive") /\ draftSalt' = Primary(d)
           /\ UNCHANGED candidate
        \/ /\ ~(Stable(d) /\ clean /\ textured)
           /\ Step("draft", "next") /\ candidate' = candidate - 1
           /\ UNCHANGED draftSalt
    /\ UNCHANGED <<outputVars, callVars, derivations, image>>

\* Steps 2 and 3: a draft is drawn and judged.  It is skipped when its hash is
\* not stable, when it shows a JPEG grid, and when the HILL model refuses it.
Draft ==
    /\ pc = "draft"
    /\ \E d \in Measurements, clean, textured \in BOOLEAN :
        \/ /\ Stable(d) /\ clean /\ textured
           /\ Step("draft", "derive") /\ draftSalt' = Primary(d)
        \/ /\ ~(Stable(d) /\ clean /\ textured)
           /\ Step("draft", "next") /\ UNCHANGED draftSalt
    /\ UNCHANGED <<outputVars, callVars, candidate, derivations, image>>

KdfMay(ok) == ok \in (IF password = EmptyPassword THEN {FALSE} ELSE KdfOutcomes)

\* Step 4: Argon2id over the salt of the draft.
Derive ==
    /\ pc = "derive"
    /\ derivations' = derivations + 1
    /\ \/ KdfMay(TRUE) /\ Step("derive", "seal")
       \/ KdfMay(FALSE) /\ Return("kdf")
    /\ UNCHANGED <<outputVars, callVars, candidate, draftSalt, image>>

\* Step 5 (the cipher may refuse the buffer) and the drawing of the container,
\* whose samples are new but whose texture is that of the draft.  A sample whose
\* carrier bit cannot be drawn ends the search.
SealAndRender ==
    /\ \/ /\ Step("seal", "judge")
          /\ \E h \in Measurements, clean \in BOOLEAN :
                image' = [gates |-> clean, hash |-> h, made |-> "generate",
                          key |-> KeyOf(draftSalt, password), msg |-> msg,
                          damage |-> {}]
       \/ /\ pc = "seal" /\ (Return("crypto") \/ Return("exhausted"))
          /\ UNCHANGED image
    /\ UNCHANGED <<outputVars, callVars, candidate, draftSalt, derivations>>

\* Mutant of Judge: the container is not compared with its draft.
JudgeStableOnly ==
    LET kept == Stable(image.hash) /\ image.gates
    IN  /\ pc = "judge"
        /\ \/ kept /\ Step("judge", "write") /\ BeginWrite
           \/ ~kept /\ Step("judge", "next") /\ UNCHANGED outputVars
        /\ UNCHANGED <<callVars, candidate, draftSalt, derivations, image>>

\* Step 7: the container must hash stably, hash like its draft, and show no
\* JPEG grid; otherwise the next texture is tried.
Judge ==
    LET kept == /\ Stable(image.hash) /\ Primary(image.hash) = draftSalt
                /\ image.gates
    IN  /\ pc = "judge"
        /\ \/ kept /\ Step("judge", "write") /\ BeginWrite
           \/ ~kept /\ Step("judge", "next") /\ UNCHANGED outputVars
        /\ UNCHANGED <<callVars, candidate, draftSalt, derivations, image>>

Write ==
    /\ pc = "write" /\ WriteStep
    /\ UNCHANGED <<callVars, pc, candidate, draftSalt, derivations, image, result>>

Report ==
    /\ pc = "write"
    /\ (writer = "closed" /\ Return("ok")) \/ (writer = "failed" /\ Return("output"))
    /\ UNCHANGED <<outputVars, callVars, candidate, draftSalt, derivations, image>>

\* The process is killed.
Crash ==
    /\ pc \notin {"done", "crashed"} /\ pc' = "crashed"
    /\ UNCHANGED <<outputVars, callVars, candidate, draftSalt, derivations, image, result>>

Finished == pc \in {"done", "crashed"} /\ UNCHANGED vars

Steps == \/ Compress \/ Fit \/ NextCandidate \/ Draft \/ Derive \/ SealAndRender
         \/ Judge \/ Write \/ Report

Next == Steps \/ Crash \/ Finished

\* The call runs to its end unless the process is killed.
Spec == Init /\ [][Next]_vars /\ WF_vars(Steps)
-----------------------------------------------------------------------------
Failures == {"crypto", "too_large", "entropy", "no_usable_texture", "kdf",
             "exhausted"}

TypeOK ==
    /\ OutputType
    /\ room \in Rooms /\ password \in Passwords /\ msg \in Messages
    /\ pc \in {"compress", "fit", "next", "draft", "derive", "seal", "judge",
               "write", "done", "crashed"}
    /\ candidate \in 0 .. MAX_CANDIDATES
    /\ draftSalt \in Salts
    /\ derivations \in 0 .. MAX_CANDIDATES
    /\ image \in Files \cup {Nothing}
    /\ result \in Failures \cup {"pending", "ok", "output"}

\* The container on disk is one the receiver accepts, and the first hypothesis
\* of the receiver is its key: however many candidates were thrown away, none
\* of their salts, keys or pixels is in the one that was written.
PublishedOpensFirst ==
    disk = "container" =>
        /\ image \in PossibleFiles /\ image.made = "generate"
        /\ image.gates /\ Stable(image.hash)
        /\ image.key = KeyOf(Primary(image.hash), password) /\ image.msg = msg

\* A search that found no container, and every refusal before it, leave the
\* output path alone, and a container is only written for a message that fits.
TouchedLast ==
    disk # before => /\ Size(msg) <= room /\ password # EmptyPassword
                     /\ result \notin Failures

\* The price of a container: one derivation per draft that was worth sealing.
DerivationsAreBounded == derivations <= candidate /\ (result = "ok" => derivations > 0)

\* The search ends, whatever the textures look like.
SearchEnds == <>(pc \in {"done", "crashed"})
=============================================================================
