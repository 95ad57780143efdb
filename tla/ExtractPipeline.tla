-------------------------- MODULE ExtractPipeline ---------------------------
(***************************************************************************)
(* EmbedPipeline::extract: the search for the salt of a stego image and    *)
(* the two readings tried under each key.                                  *)
(*                                                                         *)
(* The salt is needed to read the payload and the payload is what tells    *)
(* two salts apart.  The code breaks the circle by reading under the salt  *)
(* as measured, asking recover_phash_salt about the prefix that came out   *)
(* (two Argon2id derivations on two rayon workers), and reading once more  *)
(* under the other salt if that search recognised nothing.                 *)
(***************************************************************************)
EXTENDS Container

VARIABLES
    image,          \* the file handed to extract
    password,       \* the password typed by the receiver
    pc,             \* where extract is
    salt,           \* the hypothesis being read
    retried,        \* whether that hypothesis is the alternative
    prefix,         \* the provisional prefix of the rejected reading
    worker,         \* the two halves of the rayon::join
    derivations,    \* Argon2id passes started
    result          \* what extract returned

vars == <<image, password, pc, salt, retried, prefix, worker, derivations, result>>
inputs == <<image, password>>

Workers == {"cleared", "set"}
WorkerStates == {"idle", "deriving", "match", "miss", "error"}

Pending == [kind |-> "pending", msg |-> NoMessage]
Success(msg) == [kind |-> "recovered", msg |-> msg]
Failure(kind) == [kind |-> kind, msg |-> NoMessage]

FailureKinds == {"validation", "unstable", "kdf", "phash_kdf", "decompression",
                 "auth_failed"}

Uncertain == UnstableIndices(image.hash)

Init ==
    /\ image \in PossibleFiles
    /\ password \in Passwords
    /\ pc = "load"
    /\ salt = {}
    /\ retried = FALSE
    /\ prefix = {}
    /\ worker = [w \in Workers |-> "idle"]
    /\ derivations = 0
    /\ result = Pending

Return(r) == result' = r /\ pc' = "done"

\* Mutant of Load: the receiver skips the validation gates.
LoadUnvalidated ==
    /\ pc = "load" /\ pc' = "hash"
    /\ UNCHANGED <<inputs, salt, retried, prefix, worker, derivations, result>>

\* Step 1: the gates every cover goes through.
Load ==
    /\ pc = "load"
    /\ \/ image.gates /\ pc' = "hash" /\ UNCHANGED result
       \/ ~image.gates /\ Return(Failure("validation"))
    /\ UNCHANGED <<inputs, salt, retried, prefix, worker, derivations>>

\* Step 2: the hypotheses, refused when two or more bits are uncertain.
Hash ==
    /\ pc = "hash"
    /\ \/ /\ Stable(image.hash)
          /\ salt' = Primary(image.hash)
          /\ pc' = "derive"
          /\ UNCHANGED result
       \/ /\ ~Stable(image.hash)
          /\ Return(Failure("unstable"))
          /\ UNCHANGED salt
    /\ UNCHANGED <<inputs, retried, prefix, worker, derivations>>

\* Whether one call of KeyDeriver::derive succeeds.
KdfMay(ok) == ok \in (IF password = EmptyPassword THEN {FALSE} ELSE KdfOutcomes)

\* Steps 3 and 4 of an attempt.
Derive ==
    /\ pc = "derive"
    /\ derivations' = derivations + 1
    /\ \/ KdfMay(TRUE) /\ pc' = "trellis" /\ UNCHANGED result
       \/ KdfMay(FALSE) /\ Return(Failure("kdf"))
    /\ UNCHANGED <<inputs, salt, retried, prefix, worker>>

\* Steps 5 to 10 of an attempt: the Syndrome-Trellis reading.
DecodeTrellis ==
    /\ pc = "trellis"
    /\ \E a \in TrellisReadings(image, KeyOf(salt, password)) :
        \/ a.kind = "recovered" /\ Return(Success(a.msg)) /\ UNCHANGED prefix
        \/ a.kind = "broken" /\ Return(Failure("decompression")) /\ UNCHANGED prefix
        \/ /\ a.kind = "rejected"
           /\ prefix' = a.prefix
           /\ pc' = "generated"
           /\ UNCHANGED result
    /\ UNCHANGED <<inputs, salt, retried, worker, derivations>>

\* The second reading under the same keys, and what its failure leads to.
ReadGenerated ==
    /\ pc = "generated"
    /\ LET reads == GeneratedReads(image, KeyOf(salt, password))
       IN  \/ reads /\ Return(Success(image.msg))
           \/ /\ ~reads
              /\ retried \/ Uncertain = {}
              /\ Return(Failure("auth_failed"))
           \/ /\ ~reads
              /\ ~retried /\ Uncertain # {}
              /\ pc' = "search"
              /\ UNCHANGED result
    /\ UNCHANGED <<inputs, salt, retried, prefix, worker, derivations>>

\* The two hypotheses of recover_phash_salt, by the value of the uncertain bit.
HypothesisOf(w) ==
    IF w = "set" THEN HashBits(image.hash) \cup Uncertain
                 ELSE HashBits(image.hash) \ Uncertain

\* try_hypothesis on one of the workers: Argon2id starts ...
StartHypothesis(w) ==
    /\ pc = "search"
    /\ worker[w] = "idle"
    /\ worker' = [worker EXCEPT ![w] = "deriving"]
    /\ derivations' = derivations + 1
    /\ UNCHANGED <<inputs, pc, salt, retried, prefix, result>>

\* ... and ends, and the prefix is judged under the derived keys.
JudgeHypothesis(w) ==
    /\ pc = "search"
    /\ worker[w] = "deriving"
    /\ LET matches == KeyOf(HypothesisOf(w), password) \in prefix
       IN  \/ KdfMay(FALSE) /\ worker' = [worker EXCEPT ![w] = "error"]
           \/ KdfMay(TRUE) /\ matches /\ worker' = [worker EXCEPT ![w] = "match"]
           \/ KdfMay(TRUE) /\ ~matches /\ worker' = [worker EXCEPT ![w] = "miss"]
    /\ UNCHANGED <<inputs, pc, salt, retried, prefix, derivations, result>>

JoinRetriesPrimary ==
    /\ pc = "search"
    /\ \A w \in Workers : worker[w] = "miss"
    /\ salt' = Primary(image.hash)
    /\ retried' = TRUE
    /\ pc' = "derive"
    /\ UNCHANGED <<inputs, prefix, worker, derivations, result>>

\* The join: an error of either worker is an error, a match of either ends the
\* extraction, and two misses send the alternative through a full attempt.
Join ==
    /\ pc = "search"
    /\ \A w \in Workers : worker[w] \in {"match", "miss", "error"}
    /\ LET Ended(v) == \E w \in Workers : worker[w] = v
       IN  \/ /\ Ended("error")
              /\ Return(Failure("phash_kdf"))
              /\ UNCHANGED <<salt, retried>>
           \/ /\ ~Ended("error") /\ Ended("match")
              /\ Return(Failure("auth_failed"))
              /\ UNCHANGED <<salt, retried>>
           \/ /\ ~Ended("error") /\ ~Ended("match")
              /\ \E alternative \in Alternatives(image.hash) : salt' = alternative
              /\ retried' = TRUE
              /\ pc' = "derive"
              /\ UNCHANGED result
    /\ UNCHANGED <<inputs, prefix, worker, derivations>>

\* extract has returned.
Finished == pc = "done" /\ UNCHANGED vars

Steps ==
    \/ Load \/ Hash \/ Derive \/ DecodeTrellis \/ ReadGenerated
    \/ \E w \in Workers : StartHypothesis(w) \/ JudgeHypothesis(w)
    \/ Join

Next == Steps \/ Finished

\* extract is a call: once started, every statement of it is executed, and
\* rayon runs both halves of a join before the join returns.
Spec == Init /\ [][Next]_vars /\ WF_vars(Steps)
-----------------------------------------------------------------------------
TypeOK ==
    /\ image \in PossibleFiles
    /\ password \in Passwords
    /\ pc \in {"load", "hash", "derive", "trellis", "generated", "search", "done"}
    /\ salt \in Salts
    /\ retried \in BOOLEAN
    /\ prefix \subseteq Keys
    /\ worker \in [Workers -> WorkerStates]
    /\ derivations \in 0 .. 4
    /\ result \in [kind : FailureKinds \cup {"pending", "recovered"},
                   msg : Messages \cup {NoMessage}]

\* Some hypothesis about this image, with this password, is the key its payload
\* was sealed under.
Opens(f, p) == \E s \in Hypotheses(f.hash) : f.key = KeyOf(s, p)

\* A container as embed or generate left it, still accepted by the gates and by
\* the margin filter, in the hands of somebody with the password.
Readable(f, p) ==
    /\ f.made \in {"embed", "generate"} /\ f.damage = {} /\ f.msg \notin Oversized
    /\ p = f.key[2]
    /\ f.gates /\ Stable(f.hash)

\* An extraction in which every derivation succeeds returns the message of every
\* readable file: although embedding may have flipped the uncertain bit, so that
\* the salt as measured is not the sender's, the search of pipeline/mod.rs never
\* gives up on a payload that is there.
GenuineIsRecovered ==
    (pc = "done" /\ Readable(image, password)) =>
        result \in {Success(image.msg), Failure("kdf"), Failure("phash_kdf")}

\* Nothing is returned as a message unless it is what the sender sealed, under
\* the receiver's password and a salt of this image, and not a bit of it
\* changed on the way, whichever of the two readings and hypotheses found it.
OnlyTheSealedMessage ==
    result.kind = "recovered" =>
        /\ result.msg = image.msg
        /\ image.damage = {} /\ image.msg \notin Oversized
        /\ image.key = KeyOf(salt, password)
        /\ salt \in Hypotheses(image.hash)

\* The documentation of extract: a wrong password, a wrong image and a damaged
\* payload are one answer.  What is left to tell apart is decided by the file
\* alone (the gates), by the password alone (an empty one), or by holding the
\* key (an authenticated payload past the ceiling).
FailuresAreOne ==
    (pc = "done" /\ result.kind \notin {"recovered", "auth_failed"}) =>
        \/ result.kind = "validation" /\ ~image.gates
        \/ result.kind = "unstable" /\ ~Stable(image.hash)
        \/ result.kind \in {"kdf", "phash_kdf"} /\ KdfMay(FALSE)
        \/ result.kind = "decompression" /\ Opens(image, password)
           /\ image.made = "embed" /\ image.damage = {} /\ image.msg \in Oversized

\* Argon2id is started once when no bit is uncertain, once when the salt as
\* measured is the right one, and never a fifth time.
SearchIsBounded ==
    /\ derivations <= 4
    /\ Uncertain = {} => derivations <= 1
    /\ result.kind = "recovered" => derivations = IF retried THEN 4 ELSE 1

(***************************************************************************)
(* The answers extract may give to a file and a password: the message when *)
(* one of the hypotheses and the password make the sealing key and the     *)
(* payload is intact, and otherwise one failure that does not say why.     *)
(***************************************************************************)
KdfFailures ==
    IF FALSE \in KdfOutcomes THEN {Failure("kdf"), Failure("phash_kdf")} ELSE {}

Verdict(f, p) ==
    IF ~(Opens(f, p) /\ f.damage = {}) THEN Failure("auth_failed")
    ELSE IF f.msg \notin Oversized THEN Success(f.msg)
    ELSE IF f.made = "embed" THEN Failure("decompression")
    ELSE Failure("auth_failed")

Answers(f, p) ==
    IF ~f.gates THEN {Failure("validation")}
    ELSE IF ~Stable(f.hash) THEN {Failure("unstable")}
    ELSE IF p = EmptyPassword THEN {Failure("kdf")}
    ELSE KdfFailures \cup {Verdict(f, p)}

\* extract implements Delivery: the search, its two workers and its second
\* attempt amount to one step from the call to an answer that depends on
\* nothing but the file and the password, and that step is taken.
Promise == INSTANCE Delivery
KeepsPromise == Promise!Spec
=============================================================================
