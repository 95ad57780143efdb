--------------------------- MODULE ExtractCommand ---------------------------
(***************************************************************************)
(* stenoxide extract, from the command line to the exit code: run_extract  *)
(* around EmbedPipeline::extract, whose verdict is a free choice here (see *)
(* ExtractPipeline), with other programs at work in the destination.       *)
(***************************************************************************)
EXTENDS Command

CONSTANTS
    Requested,  \* the path of --payload-out
    Named,      \* the same with the detected extension appended
    Inside      \* payload.<extension> inside it, were it a directory

ASSUME PathAssumption ==
    /\ {Requested, Named, Inside} \subseteq Paths
    /\ Folder[Inside] = Requested /\ DOMAIN Folder = {Inside}
    /\ "plaintext" \in Contents

VARIABLE
    payload     \* what was recovered: nothing yet, text or something binary

ExtractArguments ==
    [name : {"extract"}, to : {"file", "stdout"}, force : BOOLEAN, suffix : BOOLEAN,
     key : {"password", "identity"}, terminal : BOOLEAN]

\* The container is loaded and dropped, before anything is asked.
Load ==
    /\ \/ Step("load", "check")
       \/ pc = "load" /\ Return("container")
    /\ UNCHANGED <<folderVars, writing, command, payload>>

\* refuse_existing_destination.  A directory is a destination.
Check ==
    /\ LET refused == command.to = "file" /\ ~command.force /\ IsFile(Requested)
       IN  \/ ~refused /\ Step("check", "key")
           \/ pc = "check" /\ refused /\ Return("exists")
    /\ UNCHANGED <<folderVars, writing, command, payload>>

\* The password is read, or the identity unlocked with its passphrase.
ReadKey ==
    /\ \/ Step("key", "extract")
       \/ /\ pc = "key"
          /\ Return(IF command.key = "password" THEN "no_password" ELSE "no_identity")
    /\ UNCHANGED <<folderVars, writing, command, payload>>

\* EmbedPipeline::extract or extract_with_identity, its error dropped.
Extract ==
    /\ \/ Step("extract", "deliver") /\ payload' \in {"text", "binary"}
       \/ pc = "extract" /\ Return("EXTRACTION_FAILED") /\ UNCHANGED payload
    /\ UNCHANGED <<folderVars, writing, command>>

\* resolve_output_path, asked again of the file system after the extraction.
Destination ==
    IF IsDirectory(Requested) THEN Inside
    ELSE IF command.suffix THEN Requested
    ELSE Named

\* write_recovered_file ...
Deliver ==
    /\ command.to = "file" /\ Step("deliver", "write")
    /\ WritePayloadFile(Destination, "plaintext", command.force)
    /\ UNCHANGED <<folderVars, command, payload>>

Write == pc = "write" /\ WriteSteps /\ UNCHANGED <<command, payload, pc, result>>

\* Mutant of Report: what the writer refused is named.
ReportCause ==
    /\ pc = "write"
    /\ \/ At("written") /\ Return("nothing")
       \/ writing.at \in {"exists", "io"} /\ Return(writing.at)
    /\ UNCHANGED <<folderVars, writing, command, payload>>

\* ... which says nothing of what went wrong.
Report ==
    /\ pc = "write"
    /\ \/ At("written") /\ Return("nothing")
       \/ writing.at \in {"exists", "io"} /\ Return("EXTRACTION_FAILED")
    /\ UNCHANGED <<folderVars, writing, command, payload>>

\* write_recovered_to_stdout: bytes go out raw except binary to a terminal.
Show ==
    /\ pc = "deliver" /\ command.to = "stdout"
    /\ \/ command.terminal /\ payload = "binary" /\ Return("binary_notice")
       \/ ~(command.terminal /\ payload = "binary")
          /\ (Return("nothing") \/ Return("EXTRACTION_FAILED"))
    /\ UNCHANGED <<folderVars, writing, command, payload>>

ExtractStep == \/ Load \/ Check \/ ReadKey \/ Extract \/ Deliver \/ Write \/ Report \/ Show
=============================================================================
