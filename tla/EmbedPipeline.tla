--------------------------- MODULE EmbedPipeline ----------------------------
(***************************************************************************)
(* EmbedPipeline::embed: a photograph becomes a stego image.               *)
(*                                                                         *)
(* The salt is measured on the cover, and the receiver measures the stego  *)
(* image, which differs from it by the changes the coder made.  What embed *)
(* writes is therefore only readable because of what it refused earlier.   *)
(* The process can be killed between any two steps.                        *)
(***************************************************************************)
EXTENDS EmbedInputs, OutputFile

VARIABLES
    cover,      \* the photograph: gates, hash, HILL verdict and capacity
    password,   \* the password of the sender
    msg,        \* the plaintext
    pc,         \* where embed is
    salt,       \* the salt of the cover
    held,       \* the secrets in memory
    image,      \* the samples the pipeline owns, as the file they would be
    result      \* what embed returned

callVars == <<cover, password, msg>>
vars == <<outputVars, callVars, pc, salt, held, image, result>>

Covers == [gates : BOOLEAN, hash : Measurements, textured : BOOLEAN, room : Rooms]

Secrets == {"plaintext", "password", "salt", "derived_keys", "ciphertext",
            "permutation", "cover_symbols"}

Photo(c) == [gates |-> c.gates, hash |-> c.hash, made |-> "photo",
             key |-> NoKey, msg |-> NoMessage, damage |-> {}]

Refusals == {"validation", "unstable", "kdf", "crypto", "smooth", "too_large",
             "coder"}

Init ==
    /\ OutputInit
    /\ cover \in Covers
    /\ password \in Passwords
    /\ msg \in Messages
    /\ pc = "load"
    /\ salt = {}
    /\ held = {"plaintext", "password"}
    /\ image = Photo(cover)
    /\ result = "pending"

\* Returning drops every local, and every secret wipes itself when dropped.
Return(r) == result' = r /\ held' = {} /\ pc' = "done"

Step(from, to) == pc = from /\ pc' = to /\ UNCHANGED result

\* Step 1: the gates.
Load ==
    /\ \/ cover.gates /\ Step("load", "hash") /\ UNCHANGED held
       \/ pc = "load" /\ ~cover.gates /\ Return("validation")
    /\ UNCHANGED <<outputVars, callVars, salt, image>>

\* Mutant of Hash: the cover is not screened for unstable bits.
HashUnfiltered ==
    /\ Step("hash", "derive")
    /\ salt' = Primary(cover.hash)
    /\ held' = held \cup {"salt"}
    /\ UNCHANGED <<outputVars, callVars, image>>

\* Step 2: compute_stable_phash.
Hash ==
    /\ \/ /\ Stable(cover.hash) /\ Step("hash", "derive")
          /\ salt' = Primary(cover.hash)
          /\ held' = held \cup {"salt"}
       \/ /\ pc = "hash" /\ ~Stable(cover.hash) /\ Return("unstable")
          /\ UNCHANGED salt
    /\ UNCHANGED <<outputVars, callVars, image>>

KdfMay(ok) == ok \in (IF password = EmptyPassword THEN {FALSE} ELSE KdfOutcomes)

\* Steps 3 and 4: Argon2id, then the expansion.
Derive ==
    /\ \/ /\ KdfMay(TRUE) /\ Step("derive", "seal")
          /\ held' = (held \ {"password", "salt"}) \cup {"derived_keys"}
       \/ pc = "derive" /\ KdfMay(FALSE) /\ Return("kdf")
    /\ UNCHANGED <<outputVars, callVars, salt, image>>

\* Step 5: compress_and_encrypt.
Seal ==
    /\ \/ /\ Step("seal", "cost")
          /\ held' = (held \ {"plaintext"}) \cup {"ciphertext"}
       \/ pc = "seal" /\ Return("crypto")
    /\ UNCHANGED <<outputVars, callVars, salt, image>>

\* Step 6: the HILL map, refused on a smooth image.
ComputeCost ==
    /\ \/ cover.textured /\ Step("cost", "fit") /\ UNCHANGED held
       \/ pc = "cost" /\ ~cover.textured /\ Return("smooth")
    /\ UNCHANGED <<outputVars, callVars, salt, image>>

\* Steps 7 to 9: the payload and its frame against the capacity, then the
\* visiting order and the copy of the samples.
Fit ==
    /\ \/ /\ Size(msg) <= cover.room /\ Step("fit", "code")
          /\ held' = held \cup {"permutation", "cover_symbols"}
       \/ pc = "fit" /\ Size(msg) > cover.room /\ Return("too_large")
    /\ UNCHANGED <<outputVars, callVars, salt, image>>

\* Mutant of Code: the derived keys outlive the coder.
CodeKeepsKeys ==
    /\ Step("code", "apply")
    /\ held' = held \ {"ciphertext"}
    /\ UNCHANGED <<outputVars, callVars, salt, image>>

\* Step 10: the header and the ciphertext are coded into the copy, and the
\* ciphertext and the keys are dropped.  Either pass of the coder may refuse.
Code ==
    /\ \/ /\ Step("code", "apply")
          /\ held' = held \ {"ciphertext", "derived_keys"}
       \/ pc = "code" /\ Return("coder")
    /\ UNCHANGED <<outputVars, callVars, salt, image>>

\* Step 11: the symbols go back into the samples.  Every coefficient of the
\* transform moves a little, and the detector of JPEG grids, which chooses its
\* blocks from a hash of the samples, may choose others.
Apply ==
    /\ Step("apply", "write")
    /\ \E h \in Measurements, g \in BOOLEAN :
        /\ Near(cover.hash, h, Eps)
        /\ image' = [gates |-> g, hash |-> h, made |-> "embed",
                     key |-> KeyOf(salt, password), msg |-> msg, damage |-> {}]
    /\ held' = held \ {"permutation", "cover_symbols"}
    /\ BeginWrite
    /\ UNCHANGED <<callVars, salt>>

\* write_png ...
Write ==
    /\ pc = "write"
    /\ WriteStep
    /\ UNCHANGED <<callVars, pc, salt, held, image, result>>

\* ... and its verdict.
Report ==
    /\ pc = "write"
    /\ \/ writer = "closed" /\ Return("ok")
       \/ writer = "failed" /\ Return("output")
    /\ UNCHANGED <<outputVars, callVars, salt, image>>

\* The process is killed: its memory is gone, the disk stays as it is.
Crash ==
    /\ pc \notin {"done", "crashed"}
    /\ pc' = "crashed" /\ held' = {}
    /\ UNCHANGED <<outputVars, callVars, salt, image, result>>

Finished == pc \in {"done", "crashed"} /\ UNCHANGED vars

Steps == \/ Load \/ Hash \/ Derive \/ Seal \/ ComputeCost \/ Fit \/ Code \/ Apply
         \/ Write \/ Report

Next == Steps \/ Crash \/ Finished

\* The call runs to its end unless the process is killed.
Spec == Init /\ [][Next]_vars /\ WF_vars(Steps)
-----------------------------------------------------------------------------
TypeOK ==
    /\ OutputType
    /\ cover \in Covers /\ password \in Passwords /\ msg \in Messages
    /\ pc \in {"load", "hash", "derive", "seal", "cost", "fit", "code", "apply",
               "write", "done", "crashed"}
    /\ salt \in Salts
    /\ held \subseteq Secrets
    /\ image \in Files
    /\ result \in Refusals \cup {"pending", "ok", "output"}

\* Whatever is on disk under the output name as a whole container is a file the
\* receiving side was built for: sealed under the password and the salt of a
\* stable cover, and measuring within Eps of that cover.
PublishedIsPossible ==
    disk = "container" =>
        /\ image \in PossibleFiles /\ image.made = "embed"
        /\ image.key = KeyOf(Primary(cover.hash), password) /\ image.msg = msg

\* The output path is only touched for a payload that every layer has accepted,
\* and once it has been no secret is left in memory: neither a full disk nor a
\* crash during the write strands key material, and no refusal costs the user an
\* existing file.
TouchedLast ==
    disk # before =>
        /\ cover.gates /\ Stable(cover.hash) /\ cover.textured
        /\ password # EmptyPassword /\ Size(msg) <= cover.room
        /\ held = {}
        /\ result \notin Refusals

\* Success is reported for a whole container and for nothing less.
ReportedIsWritten == result = "ok" => disk = "container"
=============================================================================
