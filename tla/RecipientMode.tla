--------------------------- MODULE RecipientMode ----------------------------
(***************************************************************************)
(* The mode without a shared password: a sender draws a container for a    *)
(* public key and the holder of the private key file reads it.             *)
(*                                                                         *)
(* generate_container_for_recipient runs against a path that a receiver,   *)
(* Identity::open and then extract_with_identity, opens at any moment.     *)
(*                                                                         *)
(* ML-KEM is a fresh shared secret that only the addressee's decapsulation *)
(* of the unchanged encapsulation yields; every other decapsulation yields *)
(* a secret of its own.  A key file unlocks under the passphrase it was    *)
(* sealed with, if no bit of its material changed.                         *)
(***************************************************************************)
EXTENDS Armor, OutputFile

CONSTANTS
    People,             \* owners of key pairs
    Passphrases,        \* what key files are locked with and what is typed
    EmptyPassphrase,
    Messages,
    Oversized,          \* messages that expand past MAX_DECOMPRESSED_BYTES
    Rooms,              \* payload capacities of the dimensions asked for
    Size(_),            \* bytes a message needs once compressed
    MAX_CANDIDATES,     \* textures tried
    PublicKey(_),       \* the bytes of the public key of a person
    SealedSeed(_),      \* salt, sealed seed and tag of the private one
    KeyFiles            \* the files the two sides can be given

Nobody == "nobody"
Refused == [to |-> "refused", fresh |-> FALSE]  \* what a failed derivation leaves

SenderFailures == {"wrong_label", "damaged", "malformed", "too_large", "entropy", "crypto", "kem",
                   "no_usable_texture", "exhausted"}
ReceiverFailures == {"wrong_label", "damaged", "malformed", "kdf", "wrong_passphrase", "validation",
                     "rejected"}

\* A person and a message are neither an answer nor the lack of one.
ASSUME RecipientAssumption ==
    /\ (People \cup Messages)
         \cap ({Nobody, Refused.to, "pending"} \cup SenderFailures \cup ReceiverFailures) = {}
    /\ EmptyPassphrase \in Passphrases
    /\ Oversized \subseteq Messages
    /\ Rooms \subseteq Nat
    /\ \A m \in Messages : Size(m) \in Nat
    /\ MAX_CANDIDATES \in Nat \ {0}
    /\ \A f \in KeyFiles : /\ f.locked \in Passphrases \ {EmptyPassphrase}
                           /\ f.line.body \in Seq(0 .. Foreign)
    /\ \A p \in People : /\ PublicKey(p) \in Seq(0 .. 255) \ {<<>>}
                         /\ SealedSeed(p) \in Seq(0 .. 255) \ {<<>>}
    /\ \A p, q \in People : /\ Len(PublicKey(p)) = Len(PublicKey(q))
                            /\ Len(SealedSeed(p)) = Len(SealedSeed(q))
                            /\ p # q => PublicKey(p) # PublicKey(q) /\ SealedSeed(p) # SealedSeed(q)

VARIABLES
    public,     \* the file given to --recipient
    msg, room,  \* the job of the sender
    pc,         \* where generate_container_for_recipient is
    key,        \* the message key and whom it was encapsulated to
    sealings,   \* buffers encrypted under it
    candidate,  \* textures tried
    image,      \* the container in memory, as the file it would be
    result,     \* what the sender was told
    private,    \* the file given to --identity
    typed,      \* the passphrase of the receiver
    step,       \* where the receiver is
    identity,   \* whose private key was unlocked
    secret,     \* what decapsulation made of the head of the container
    file,       \* the container as the receiver got it
    verdict     \* what the receiver was told

senderVars == <<outputVars, public, msg, room, pc, key, sealings, candidate, image, result>>
receiverVars == <<private, typed, step, identity, secret, file, verdict>>
vars == <<senderVars, receiverVars>>

\* A key file: its line, and the passphrase it was sealed with if it is one
\* that is.  What is in the line may be another's, of the other kind, cut
\* short or changed.
Owners(material, Key(_)) == {p \in People : Key(p) = material}
Bytes(Key(_)) == Len(Key(CHOOSE p \in People : TRUE))

\* RecipientKey::from_public_file: whose key it reads, or why it refuses.  A
\* changed key is refused by ML-KEM or is the key of nobody.
PublicReadings(f) ==
    LET read == decode_labelled("recipient", f.line)
    IN  IF read.kind # "read" THEN {read.kind}
        ELSE IF Len(read.material) # Bytes(PublicKey) THEN {"malformed"}
        ELSE IF Owners(read.material, PublicKey) = {} THEN {"malformed", Nobody}
        ELSE Owners(read.material, PublicKey)

\* Mutant of PrivateReading: the tag of the key file is not verified.
PrivateReadingUnverified(f, passphrase) ==
    LET read == decode_labelled("identity", f.line)
    IN  IF read.kind # "read" THEN read.kind
        ELSE IF Len(read.material) # Bytes(SealedSeed) THEN "malformed"
        ELSE IF passphrase = EmptyPassphrase THEN "kdf"
        ELSE IF Owners(read.material, SealedSeed) = {} THEN Nobody
        ELSE CHOOSE p \in Owners(read.material, SealedSeed) : TRUE

\* Identity::open.
PrivateReading(f, passphrase) ==
    LET read == decode_labelled("identity", f.line)
    IN  IF read.kind # "read" THEN read.kind
        ELSE IF Len(read.material) # Bytes(SealedSeed) THEN "malformed"
        ELSE IF passphrase = EmptyPassphrase THEN "kdf"
        ELSE IF passphrase # f.locked \/ Owners(read.material, SealedSeed) = {} THEN "wrong_passphrase"
        ELSE CHOOSE p \in Owners(read.material, SealedSeed) : TRUE

NoKey == [to |-> Nobody, fresh |-> FALSE]
MessageKey(to) == [to |-> to, fresh |-> TRUE]

\* A container: its gates, the encapsulation at the head of its carrier, and
\* what was sealed behind it.  NoKey stands for the bits of any other image.
Damages == {"transport", "body"}
Images == [gates : BOOLEAN, transport : {NoKey, MessageKey(Nobody)} \cup {MessageKey(p) : p \in People},
           msg : Messages \cup {"none"}, damage : SUBSET Damages]

Bare(gates) == [gates |-> gates, transport |-> NoKey, msg |-> "none", damage |-> {}]
Photo == Bare(TRUE)
Undecodable == Bare(FALSE)

Init ==
    /\ OutputInit
    /\ public \in KeyFiles
    /\ msg \in Messages /\ room \in Rooms
    /\ pc = "recipient"
    /\ key = NoKey /\ sealings = 0 /\ candidate = 0
    /\ image = Undecodable
    /\ result = "pending"
    /\ private \in KeyFiles /\ typed \in Passphrases
    /\ step = "open" /\ identity = Nobody /\ secret = NoKey
    /\ file = Undecodable /\ verdict = "pending"

Return(r) == result' = r /\ pc' = "done"
Step(from, to) == pc = from /\ pc' = to /\ UNCHANGED result

\* read_recipient_key, with the key it reads held for the encapsulation.
ReadRecipient ==
    /\ pc = "recipient"
    /\ \E reading \in PublicReadings(public) :
        IF reading \in People \cup {Nobody}
        THEN Step("recipient", "fit") /\ key' = [NoKey EXCEPT !.to = reading]
        ELSE Return(reading) /\ UNCHANGED key
    /\ UNCHANGED <<outputVars, public, msg, room, sealings, candidate, image, receiverVars>>

\* compress, fits and the seed of the generator.
Fit ==
    /\ \/ Size(msg) <= room /\ Step("fit", "encapsulate")
       \/ pc = "fit" /\ Return(IF Size(msg) > room THEN "too_large" ELSE "entropy")
       \/ pc = "fit" /\ Return("crypto")
    /\ UNCHANGED <<outputVars, public, msg, room, key, sealings, candidate, image, receiverVars>>

\* RecipientKey::encapsulate and seal, once, above the candidate search.
EncapsulateAndSeal ==
    /\ \/ /\ Step("encapsulate", "next")
          /\ key' = MessageKey(key.to) /\ sealings' = sealings + 1
       \/ /\ pc = "encapsulate" /\ (Return("kem") \/ Return("crypto"))
          /\ UNCHANGED <<key, sealings>>
    /\ UNCHANGED <<outputVars, public, msg, room, candidate, image, receiverVars>>

\* The head of the candidate loop.
NextCandidate ==
    /\ \/ candidate < MAX_CANDIDATES /\ Step("next", "draw") /\ candidate' = candidate + 1
       \/ /\ pc = "next" /\ candidate = MAX_CANDIDATES /\ Return("no_usable_texture")
          /\ UNCHANGED candidate
    /\ UNCHANGED <<outputVars, public, msg, room, key, sealings, image, receiverVars>>

Drawn(gates) == [gates |-> gates, transport |-> key, msg |-> msg, damage |-> {}]

\* Mutants of Draw: a container goes out unjudged; and, as in the password
\* mode, the payload is sealed again for every candidate.
DrawUnjudged ==
    /\ \/ /\ Step("draw", "write") /\ BeginWrite
          /\ \E gates \in BOOLEAN : image' = Drawn(gates)
       \/ pc = "draw" /\ Return("exhausted") /\ UNCHANGED <<outputVars, image>>
    /\ UNCHANGED <<public, msg, room, key, sealings, candidate, receiverVars>>

DrawResealed ==
    /\ sealings' = sealings + 1
    /\ \/ Step("draw", "write") /\ BeginWrite /\ image' = Drawn(TRUE)
       \/ Step("draw", "next") /\ UNCHANGED outputVars /\ image' = Drawn(FALSE)
       \/ pc = "draw" /\ Return("exhausted") /\ UNCHANGED <<outputVars, image>>
    /\ UNCHANGED <<public, msg, room, key, candidate, receiverVars>>

\* render: there is no draft, and what is drawn is judged as it is.  It is
\* thrown away when its hash is unstable or it does not pass the gates.
Draw ==
    /\ \/ Step("draw", "write") /\ BeginWrite /\ image' = Drawn(TRUE)
       \/ /\ Step("draw", "next") /\ UNCHANGED outputVars
          /\ \E gates \in BOOLEAN : image' = Drawn(gates)
       \/ pc = "draw" /\ Return("exhausted") /\ UNCHANGED <<outputVars, image>>
    /\ UNCHANGED <<public, msg, room, key, sealings, candidate, receiverVars>>

Write ==
    /\ pc = "write" /\ WriteStep
    /\ UNCHANGED <<public, msg, room, pc, key, sealings, candidate, image, result, receiverVars>>

Report ==
    /\ pc = "write"
    /\ (writer = "closed" /\ Return("ok")) \/ (writer = "failed" /\ Return("output"))
    /\ UNCHANGED <<outputVars, public, msg, room, key, sealings, candidate, image, receiverVars>>

Crash ==
    /\ pc \notin {"done", "crashed"} /\ pc' = "crashed"
    /\ UNCHANGED <<outputVars, public, msg, room, key, sealings, candidate, image, result,
                   receiverVars>>

Sender == \/ ReadRecipient \/ Fit \/ EncapsulateAndSeal \/ NextCandidate \/ Draw
          \/ Write \/ Report \/ Crash

(* The receiver. *)

Answer(v) == verdict' = v /\ step' = "done"
Goes(from, to) == step = from /\ step' = to /\ UNCHANGED verdict

\* The container is on its way to the receiver, and either region of it may be
\* damaged there.  The path may hold a photograph from before.
OnDisk ==
    CASE disk = "absent" -> {}
      [] disk = "older" -> {Photo}
      [] disk = "fragment" -> {Undecodable, image}
      [] disk = "container" -> {image}

Open ==
    /\ Goes("open", "unlock")
    /\ \E f \in OnDisk, d \in SUBSET Damages : file' = [f EXCEPT !.damage = d]
    /\ UNCHANGED <<senderVars, private, typed, identity, secret>>

\* read_identity.
Unlock ==
    LET reading == PrivateReading(private, typed)
    IN  /\ IF reading \in People \cup {Nobody}
           THEN Goes("unlock", "load") /\ identity' = reading
           ELSE step = "unlock" /\ Answer(reading) /\ UNCHANGED identity
        /\ UNCHANGED <<senderVars, private, typed, secret, file>>

\* load_and_validate.
Load ==
    /\ \/ file.gates /\ Goes("load", "decapsulate")
       \/ step = "load" /\ ~file.gates /\ Answer("validation")
    /\ UNCHANGED <<senderVars, private, typed, identity, secret, file>>

\* decapsulate is total: without the right identity or the right encapsulation
\* the key is one nothing was sealed under.
Decapsulated ==
    IF file.transport = MessageKey(identity) /\ "transport" \notin file.damage
    THEN file.transport ELSE NoKey

\* read_key_transport and Identity::decapsulate.  An image past the gates has
\* MIN_DIMENSION on either side and so room for an encapsulation; what can fail
\* is the expansion of the secret.
Decapsulate ==
    /\ \/ Goes("decapsulate", "payload") /\ secret' = Decapsulated
       \/ step = "decapsulate" /\ Answer("rejected") /\ secret' = Refused
    /\ UNCHANGED <<senderVars, private, typed, identity, file>>

\* The payload behind the encapsulation opens under a key.
Opens(k) == k.fresh /\ k = file.transport /\ "body" \notin file.damage

\* Mutant of ReadPayload: a payload that decrypts but does not decompress is told
\* apart.
ReadPayloadTellsBroken ==
    /\ step = "payload"
    /\ \/ ~Opens(secret) /\ Answer("rejected")
       \/ Opens(secret) /\ file.msg \in Oversized /\ Answer("broken")
       \/ Opens(secret) /\ file.msg \notin Oversized /\ Answer(file.msg)
    /\ UNCHANGED <<senderVars, private, typed, identity, secret, file>>

\* read_generated_for_recipient: the tag, the decompression, and what the caller
\* makes of the failure of either.
ReadPayload ==
    /\ step = "payload"
    /\ \/ ~Opens(secret) /\ Answer("rejected")
       \/ Opens(secret) /\ file.msg \in Oversized /\ Answer("rejected")
       \/ Opens(secret) /\ file.msg \notin Oversized /\ Answer(file.msg)
    /\ UNCHANGED <<senderVars, private, typed, identity, secret, file>>

Receiver == Open \/ Unlock \/ Load \/ Decapsulate \/ ReadPayload

Finished ==
    /\ pc \in {"done", "crashed"}
    /\ step = "done" \/ (step = "open" /\ disk = "absent")
    /\ UNCHANGED vars

Next == Sender \/ Receiver \/ Finished

Spec == Init /\ [][Next]_vars
-----------------------------------------------------------------------------
TypeOK ==
    /\ OutputType
    /\ public \in KeyFiles /\ private \in KeyFiles
    /\ msg \in Messages /\ room \in Rooms /\ typed \in Passphrases
    /\ pc \in {"recipient", "fit", "encapsulate", "next", "draw", "write", "done", "crashed"}
    /\ key \in [to : People \cup {Nobody}, fresh : BOOLEAN]
    /\ sealings \in 0 .. MAX_CANDIDATES + 1 /\ candidate \in 0 .. MAX_CANDIDATES
    /\ image \in Images /\ file \in Images
    /\ result \in SenderFailures \cup {"pending", "ok", "output"}
    /\ step \in {"open", "unlock", "load", "decapsulate", "payload", "done"}
    /\ identity \in People \cup {Nobody}
    /\ secret \in {NoKey, Refused} \cup {MessageKey(p) : p \in People}
    /\ verdict \in ReceiverFailures \cup {"pending"} \cup Messages

\* A line as encode_labelled writes it, but for the bits of its last symbol that
\* belong to no byte.
Holds(line, label, material) ==
    LET whole == encode(material)
        last == Len(whole) - Padding(whole)
        unused == IF Padding(whole) = 2 THEN 16 ELSE IF Padding(whole) = 1 THEN 4 ELSE 1
    IN  /\ line.label = label /\ Len(line.body) = Len(whole)
        /\ \A i \in DOMAIN whole : i # last => line.body[i] = whole[i]
        /\ line.body[last] \in 0 .. 63 /\ line.body[last] \div unused = whole[last] \div unused

\* Nobody's key is read from a line that was cut, at whatever place, has its
\* padding or a symbol somewhere else, or was written as the other half.
OnlyWholeKeys ==
    /\ pc = "fit" /\ key.to \in People => Holds(public.line, "recipient", PublicKey(key.to))
    /\ step = "load" /\ identity \in People => Holds(private.line, "identity", SealedSeed(identity))

\* Whatever the path holds when it is opened and whatever key files the two
\* sides were handed, a message only comes out for the holder of the private
\* key it was encapsulated to, who has typed the right passphrase, and it is
\* the message of the sender.
OnlyTheRecipient ==
    verdict \in Messages =>
        /\ verdict = msg
        /\ typed = private.locked /\ identity \in People
        /\ Holds(private.line, "identity", SealedSeed(identity))
        /\ Holds(public.line, "recipient", PublicKey(identity))

\* A finished container always opens for its recipient: no candidate that was
\* thrown away, and nothing in the order of encapsulation, sealing and drawing,
\* can leave the key at the head of the carrier out of step with the payload.
Delivered ==
    (/\ step = "done" /\ result = "ok" /\ file = image /\ msg \notin Oversized
     /\ typed = private.locked /\ secret # Refused
     /\ \E p \in People : /\ public.line = encode_labelled("recipient", PublicKey(p))
                         /\ private.line = encode_labelled("identity", SealedSeed(p))) =>
        verdict = msg

\* The nonce is a function of the key, so a key that sealed two buffers would
\* seal them under one nonce.
SealedOnce == sealings <= 1

\* What the sender would have to have done, and the way to have left alone, for
\* a receiver past the gates to be told the message.
Readable ==
    /\ key = MessageKey(identity) /\ file.transport # NoKey /\ file.damage = {}
    /\ msg \notin Oversized

\* Past the gates there are two ends: the message where everything fits, and one
\* answer where anything does not.  A container for somebody else, an image that
\* carries nothing, damage of either region, a derivation that fails and a payload
\* that does not decompress leave from different statements and say the same.
OneAnswer ==
    [][(step \in {"decapsulate", "payload"} /\ step' = "done") =>
          verdict' = IF Readable /\ secret' # Refused THEN msg ELSE "rejected"]_vars
=============================================================================
