---------------------------- MODULE StegoChannel ----------------------------
(***************************************************************************)
(* embed and extract together: a sender that hides a message in a          *)
(* photograph and writes it to a path, and a receiver that opens the path  *)
(* at any moment, before, during or after the write and whether or not the *)
(* sender survives it.  The path may hold an earlier container already,    *)
(* and the copy that reaches the receiver may have been damaged.           *)
(*                                                                         *)
(* The two pipelines share nothing but that file and their definitions of  *)
(* the salt; neither knows where the other is.  The receiver is            *)
(* ExtractPipeline under its own names, on the file as it got it.          *)
(***************************************************************************)
EXTENDS ExtractPipeline, EmbedInputs

CONSTANT OlderFiles      \* what the path can hold before the sender writes to it

ASSUME ChannelAssumption == OlderFiles \subseteq PossibleFiles

VARIABLES
    before, disk, writer, cover, msg, held,
    chosen,     \* the password of the sender
    stage,      \* where embed is
    measured,   \* the salt of its cover
    stego,      \* the samples it owns, as the file they would be
    report,     \* what it returned
    older,      \* the file that was at the path
    fromDisk    \* what the path held when the receiver opened it

senderVars == <<before, disk, writer, cover, chosen, msg, stage, measured, held, stego,
                report>>
searchVars == <<salt, retried, prefix, worker, derivations>>
receiverVars == <<image, fromDisk, password, pc, searchVars, result>>
channelVars == <<senderVars, older, receiverVars>>

Sender == INSTANCE EmbedPipeline WITH
    password <- chosen, pc <- stage, salt <- measured, image <- stego, result <- report

Undecodable == [gates |-> FALSE, hash |-> [i \in Bits |-> 0], made |-> "photo",
                key |-> NoKey, msg |-> NoMessage, damage |-> {}]

ChannelInit ==
    /\ Sender!Init
    /\ older \in OlderFiles
    /\ image = Undecodable /\ fromDisk = "absent"
    /\ password \in Passwords
    /\ pc = "waiting"
    /\ salt = {} /\ retried = FALSE /\ prefix = {} /\ derivations = 0
    /\ worker = [w \in Workers |-> "idle"]
    /\ result = Pending

\* What std::fs::read and the decoder make of the path.  A fragment does not
\* decode, unless all it lacks is the end of the file.
OnDisk ==
    CASE disk = "absent" -> {}
      [] disk = "older" -> {older}
      [] disk = "fragment" -> {Undecodable, stego}
      [] disk = "container" -> {stego}

\* The copy may lose a region of its payload on the way.
Copies(f) ==
    {f} \cup (IF f.made = "photo" THEN {} ELSE {[f EXCEPT !.damage = {r}] : r \in Regions})

\* The receiver is called on the file.
Open ==
    /\ pc = "waiting"
    /\ \E f \in OnDisk : image' \in Copies(f)
    /\ fromDisk' = disk
    /\ pc' = "load"
    /\ UNCHANGED <<senderVars, older, password, searchVars, result>>

SenderStep == (Sender!Steps \/ Sender!Crash) /\ UNCHANGED <<older, receiverVars>>

ReceiverStep ==
    /\ pc # "waiting"
    /\ Steps
    /\ UNCHANGED <<senderVars, older, fromDisk>>

\* Both are done, or the sender is and left nothing to open.
ChannelFinished ==
    /\ stage \in {"done", "crashed"}
    /\ pc = "done" \/ (pc = "waiting" /\ disk = "absent")
    /\ UNCHANGED channelVars

ChannelNext == SenderStep \/ Open \/ ReceiverStep \/ ChannelFinished

ChannelSpec == ChannelInit /\ [][ChannelNext]_channelVars
-----------------------------------------------------------------------------
\* Whatever is on disk under the output name as a whole container is a file the
\* receiving side was built for: sealed under the password and the salt of a
\* stable cover, and measuring within Eps of that cover.
PublishedIsPossible == Sender!PublishedIsPossible

\* The path is only touched for a payload that every layer has accepted, and
\* once it has been no secret is left in memory, whether the write succeeds,
\* fails or is cut short.
TouchedLast == Sender!TouchedLast

\* A sender who is told that it worked has left a whole container, and a
\* receiver with the sender's password who opens the finished container gets
\* the message, if the image still passes the gates and the margin filter and
\* the derivations succeed: the photograph the sender measured and the image the
\* receiver measures never disagree beyond what the search covers.
Delivered ==
    /\ Sender!ReportedIsWritten
    /\ (/\ pc = "done" /\ fromDisk = "container" /\ password = chosen
        /\ image.damage = {} /\ image.gates /\ Stable(image.hash)
        /\ msg \notin Oversized) =>
            result \in {Success(msg), Failure("kdf"), Failure("phash_kdf")}

\* Whenever the path is read, a message that comes out is one that was sealed
\* under the receiver's password and arrived whole: that of the file that was
\* there before or that of the sender, never a mixture and never anything while
\* the sender can still refuse the job.
OldOrNew ==
    result.kind = "recovered" =>
        /\ image.damage = {}
        /\ \/ fromDisk = "older" /\ result.msg = older.msg /\ password = older.key[2]
           \/ /\ fromDisk \in {"fragment", "container"}
              /\ result.msg = msg /\ password = chosen
              /\ report \in {"pending", "ok", "output"}
=============================================================================
