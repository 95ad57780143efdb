------------------------------ MODULE Commands ------------------------------
(***************************************************************************)
(* stenoxide at work: one command, which the user chooses, in a folder     *)
(* that other programs use at the same time, and which can be killed       *)
(* between any two of its calls.                                           *)
(***************************************************************************)
EXTENDS ExtractCommand, KeyGeneration, ImageCommand

vars == <<commandVars, payload, held, imageVars>>

Places == [extract  |-> {"load", "check", "key", "extract", "deliver", "write"},
           keygen   |-> {"judge", "passphrase", "generate", "seal", "public", "private"},
           embed    |-> {"image", "destination", "open", "password", "read",
                         "pipeline", "create", "fill"},
           generate |-> {"image", "destination", "open", "password", "read",
                         "pipeline", "create", "fill"}]

Arguments == ExtractArguments \cup KeygenArguments \cup ImageArguments

\* The statement each handler begins with.
First == [extract |-> "load", keygen |-> "judge", embed |-> "image", generate |-> "image"]

Init ==
    /\ FolderInit
    /\ writing = Idle
    /\ command \in Arguments
    /\ pc = First[command.name]
    /\ result = "pending"
    /\ payload = "none"
    /\ held = {}
    /\ handle = 0 /\ source = 0 /\ plaintext = "none" /\ image = 0

Extracting == command.name = "extract" /\ ExtractStep /\ UNCHANGED <<held, imageVars>>

Keygen == command.name = "keygen" /\ KeygenStep /\ UNCHANGED <<payload, imageVars>>

Imaging ==
    /\ command.name \in {"embed", "generate"}
    /\ ImageStep /\ UNCHANGED <<payload, held>>

\* Nothing runs on the way out of a killed process, and its memory is gone.
Crash ==
    /\ pc \notin {"done", "crashed"} /\ pc' = "crashed" /\ held' = {}
    /\ UNCHANGED <<folderVars, writing, command, result, payload, imageVars>>

Elsewhere == Others /\ UNCHANGED <<writing, command, pc, result, payload, held, imageVars>>

Finished == pc \in {"done", "crashed"} /\ UNCHANGED vars

Next == Extracting \/ Keygen \/ Imaging \/ Crash \/ Elsewhere \/ Finished

Spec == Init /\ [][Next]_vars
-----------------------------------------------------------------------------
Results == {"pending", "nothing", "ok", "container", "exists", "no_password",
            "no_identity", "EXTRACTION_FAILED", "binary_notice", "destination",
            "passphrase", "generator", "seal", "public", "private", "image",
            "payload", "password", "empty", "pipeline", "output"}

HandlerType ==
    /\ pc \in Places[command.name] \cup {"done", "crashed"}
    /\ result \in Results
    /\ (result = "pending") = (pc # "done")
    /\ payload \in {"none", "text", "binary"}
    /\ held \subseteq {"passphrase", "identity", "public", "private"}
    /\ handle \in 0 .. Len(files) /\ source \in 0 .. Len(files)
    /\ plaintext \in Foreign \cup {"none"}
    /\ image \in 0 .. Len(files)

\* The folder, the call in progress and the handler have the shapes they are
\* given, a handler is at a statement of its own, and it has a result exactly
\* when it has returned.
TypeOK == FolderType /\ WritingType /\ command \in Arguments /\ HandlerType

\* The two commands that write through write_payload_file.
WritesPayload == command.name \in {"extract", "keygen"}

\* A step of the command, and not of another program.
Ours == pc' # pc \/ writing' # writing

\* The one loss there is: the removal after a failed write goes by name, and
\* somebody else has since put a file of theirs under the name in the place of
\* the one this program made there.
PutInPlaceOfOurs(f, p) ==
    At("remove") /\ p = writing.path /\ files[writing.file].by = "us" /\ f > writing.file

\* Without --force no step of extract or keygen takes the content of a file that
\* somebody else made, nor its name, however late it appears at the destination,
\* but for a file that was put in the place of the command's own while it wrote.
NothingReplacedUnasked ==
    [][WritesPayload /\ ~command.force /\ Ours =>
          \A f \in DOMAIN files : files[f].by = "others" =>
              /\ files'[f] = files[f]
              /\ \A p \in Paths :
                    names[p] = f /\ names'[p] # f => PutInPlaceOfOurs(f, p)]_vars

\* A fragment of a plaintext or of a key never survives these two commands under
\* any name, except where the file system refused the removal as well.
NoFragmentLeft ==
    WritesPayload /\ pc = "done" /\ ~writing.stuck =>
        \A p \in Paths : IsFile(p) => files[names[p]].data # "fragment"

Written(data) == \E f \in DOMAIN files : files[f].data = data

SilenceIsDelivered ==
    command.name = "extract" /\ result = "nothing" =>
        (command.to = "file" => Written("plaintext"))

PairIsWritten ==
    command.name = "keygen" /\ result = "ok" => Written("public") /\ Written("private")

ImageIsWritten ==
    command.name \in {"embed", "generate"} /\ result = "ok" => Written("image")

\* A command that reports success, by its silence or by its words, has put
\* everything it was asked for into files, whole.
SuccessMeansFiles == SilenceIsDelivered /\ PairIsWritten /\ ImageIsWritten

\* Once extract has read a key there is one sentence for every failure: a wrong
\* password, a container that carries nothing, a full disk and a destination
\* that appeared in between cannot be told apart by what is printed.
OneSentence ==
    [][(pc \in {"extract", "deliver", "write"} /\ pc' = "done") =>
          \/ result' = "EXTRACTION_FAILED"
          \/ payload' # "none" /\ result' \in {"nothing", "binary_notice"}]_vars

\* The unsealed identity is out of memory before keygen touches the file
\* system, so that no fault or crash of the writes meets it.
IdentityIsBrief == (\E f \in DOMAIN files : files[f].data \notin Foreign) => "identity" \notin held

\* The payload file that embed and generate judged and the one they read are the
\* same, even if its name has gone to another file while a passphrase was typed.
CheckedIsRead == source \in {0, handle}

Refusals == {"container", "exists", "no_password", "no_identity", "destination",
             "passphrase", "generator", "seal", "image", "payload", "password",
             "empty", "pipeline"}

\* No refusal, of the checks, of a passphrase or of a pipeline, has taken the
\* content of anybody's file, whatever --force says.
RefusalsCostNothing == result \in Refusals => Intact
=============================================================================
