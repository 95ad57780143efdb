---------------------------- MODULE ImageCommand ----------------------------
(***************************************************************************)
(* stenoxide embed and stenoxide generate around their pipelines.          *)
(*                                                                         *)
(* Everything that can be refused is to be refused before the passphrase   *)
(* is asked for.  The destination is judged by its name, at the start; the *)
(* payload file is opened then and read later from the same handle; the    *)
(* image is created minutes later, by File::create, which truncates.  The  *)
(* verdict of the pipeline is a free choice (see EmbedPipeline and         *)
(* GenerateContainer).  Other programs share the directory.                *)
(***************************************************************************)
EXTENDS Command

CONSTANTS
    Output,     \* the path of --output
    Input       \* the path of --payload or --input

ASSUME ImageAssumption ==
    /\ {Output, Input} \subseteq Paths
    /\ "image" \in Contents
    /\ {"message", "empty", "huge"} \subseteq Foreign   \* what a payload file may hold

VARIABLES
    handle,     \* the open payload file, 0 when there is none
    source,     \* the file the payload was read from, 0 for none
    plaintext,  \* what was read
    image       \* the open output file, 0 until it is created

imageVars == <<handle, source, plaintext, image>>

ImageArguments == [name : {"embed", "generate"}, force : BOOLEAN, from : {"file", "stdin"}]

\* load_container_for_embed, or ContainerDimensions::new.
JudgeImage ==
    /\ \/ Step("image", "destination")
       \/ pc = "image" /\ Return("image")
    /\ UNCHANGED <<folderVars, writing, command, imageVars>>

\* Mutant of JudgeDestination: the file is opened to see whether it can be.
JudgeDestinationProbes ==
    /\ \/ Step("destination", "open") /\ CreateTruncated(Output)
       \/ pc = "destination" /\ Return("destination") /\ UNCHANGED folderVars
    /\ UNCHANGED <<writing, command, imageVars>>

JudgeDestination ==
    /\ \/ ~Unwritable(Output) /\ Step("destination", "open")
       \/ pc = "destination" /\ Unwritable(Output) /\ Return("destination")
    /\ UNCHANGED <<folderVars, writing, command, imageVars>>

\* embed asks for the password before it reads the payload, generate after.
AfterOpen == IF command.name = "embed" THEN "password" ELSE "read"
AfterRead == IF command.name = "embed" THEN "pipeline" ELSE "password"
AfterPassword == IF command.name = "embed" THEN "read" ELSE "pipeline"

\* open_payload_file, judged on the metadata of the handle.
OpenInput ==
    /\ \/ command.from = "stdin" /\ Step("open", AfterOpen) /\ UNCHANGED handle
       \/ /\ IsFile(Input) /\ files[names[Input]].data \notin {"empty", "huge"}
          /\ Step("open", AfterOpen)
          /\ command.from = "file" /\ handle' = names[Input]
       \/ /\ pc = "open" /\ command.from = "file" /\ Return("payload")
          /\ UNCHANGED handle
    /\ UNCHANGED <<folderVars, writing, command, source, plaintext, image>>

ReadPassword ==
    /\ \/ Step("password", AfterPassword)
       \/ pc = "password" /\ Return("password")
    /\ UNCHANGED <<folderVars, writing, command, imageVars>>

Readable(file) == IF command.from = "file" THEN {files[file].data}
                                           ELSE {"message", "empty"}

ReadFrom(file) ==
    /\ pc = "read"
    /\ \E text \in Readable(file) :
        \/ /\ text # "empty" /\ Step("read", AfterRead)
           /\ plaintext' = text /\ source' = file
        \/ text = "empty" /\ Return("empty") /\ UNCHANGED <<source, plaintext>>

ReadFails == pc = "read" /\ Return("payload") /\ UNCHANGED <<source, plaintext>>

\* Mutant of ReadPayload: the path is opened again.
ReadPayloadByName ==
    /\ ReadFrom(IF IsFile(Input) THEN names[Input] ELSE handle) \/ ReadFails
    /\ UNCHANGED <<folderVars, writing, command, handle, image>>

\* read_payload_file or read_plaintext: either may fail, neither may be empty.
ReadPayload ==
    /\ ReadFrom(handle) \/ ReadFails
    /\ UNCHANGED <<folderVars, writing, command, handle, image>>

\* The pipeline, up to the call of write_png.
RunPipeline ==
    /\ \/ Step("pipeline", "create")
       \/ pc = "pipeline" /\ Return("pipeline")
    /\ UNCHANGED <<folderVars, writing, command, imageVars>>

\* File::create ...
CreateImage ==
    /\ \/ Step("create", "fill") /\ CreateTruncated(Output) /\ image' = names'[Output]
       \/ pc = "create" /\ Return("output") /\ UNCHANGED <<folderVars, image>>
    /\ UNCHANGED <<writing, command, handle, source, plaintext>>

\* ... and the chunks after it.  What a failure leaves stays where it is.
WriteImage ==
    /\ pc = "fill"
    /\ \/ Fill(image, "image") /\ Return("ok")
       \/ UNCHANGED folderVars /\ Return("output")
    /\ UNCHANGED <<writing, command, imageVars>>

ImageStep == \/ JudgeImage \/ JudgeDestination \/ OpenInput \/ ReadPassword
             \/ ReadPayload \/ RunPipeline \/ CreateImage \/ WriteImage
=============================================================================
