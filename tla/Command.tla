------------------------------ MODULE Command -------------------------------
(***************************************************************************)
(* What the four commands of the tool share: arguments, a place in the     *)
(* handler, one exit, with the sentence that is printed there, and         *)
(* write_payload_file, by which a recovered payload and each half of a key *)
(* pair reach the disk.                                                    *)
(*                                                                         *)
(* Without force the file is opened with create_new, with it the file is   *)
(* truncated.  A write or a sync that fails closes the file and removes    *)
(* it, by name; a removal that fails too is ignored.                       *)
(***************************************************************************)
EXTENDS SharedFolder

VARIABLES
    command,    \* the arguments
    pc,         \* the statement of the handler that comes next
    result,     \* what it ends with, "pending" until it does
    writing     \* the call of write_payload_file in progress, or the last one

commandVars == <<folderVars, writing, command, pc, result>>

Return(r) == result' = r /\ pc' = "done"
Step(from, to) == pc = from /\ pc' = to /\ UNCHANGED result

\* refuse_unwritable_output.
Unwritable(p) == IsDirectory(p) \/ ~Reachable(p) \/ (~command.force /\ Exists(p))

(* write_payload_file. *)

Idle == [at |-> "idle", path |-> CHOOSE p \in Paths : TRUE, file |-> 0,
         data |-> "fragment", force |-> FALSE, stuck |-> FALSE]

WritingType ==
    writing \in [at : {"idle", "open", "write", "sync", "remove", "written", "exists", "io"},
                 path : Paths, file : 0 .. Len(files),
                 data : Contents \cup {"fragment"}, force : BOOLEAN, stuck : BOOLEAN]

At(step) == writing.at = step
Move(to) == writing' = [writing EXCEPT !.at = to]

\* The call.
WritePayloadFile(p, data, force) ==
    writing' = [Idle EXCEPT !.at = "open", !.path = p, !.data = data, !.force = force]

Opened == writing' = [writing EXCEPT !.at = "write", !.file = names'[writing.path]]

\* Mutant of OpenPayload: the file is truncated whether force is set or not.
OpenPayloadAnyway ==
    /\ At("open")
    /\ \/ CreateTruncated(writing.path) /\ Opened
       \/ UNCHANGED folderVars /\ Move("io")

OpenPayload ==
    /\ At("open")
    /\ \/ writing.force /\ CreateTruncated(writing.path) /\ Opened
       \/ ~writing.force /\ CreateNew(writing.path) /\ Opened
       \/ ~writing.force /\ Exists(writing.path) /\ Move("exists") /\ UNCHANGED folderVars
       \/ Move("io") /\ UNCHANGED folderVars

\* Mutant of FillPayload: the result of write_all is dropped.
FillPayloadUnchecked ==
    /\ At("write")
    /\ \/ Fill(writing.file, writing.data) /\ Move("sync")
       \/ UNCHANGED folderVars /\ Move("sync")

FillPayload ==
    /\ At("write")
    /\ \/ Fill(writing.file, writing.data) /\ Move("sync")
       \/ Move("remove") /\ UNCHANGED folderVars

SyncPayload ==
    /\ At("sync")
    /\ Move("written") \/ Move("remove")
    /\ UNCHANGED folderVars

\* Mutant of RemovePartial: a failed write leaves the file.
RemovePartialForgotten == At("remove") /\ Move("io") /\ UNCHANGED folderVars

RemovePartial ==
    /\ At("remove")
    /\ \/ RemoveFile(writing.path) /\ Move("io")
       \/ ~IsFile(writing.path) /\ Move("io") /\ UNCHANGED folderVars
       \/ /\ IsFile(writing.path) /\ UNCHANGED folderVars
          /\ writing' = [writing EXCEPT !.at = "io", !.stuck = TRUE]

WriteSteps == OpenPayload \/ FillPayload \/ SyncPayload \/ RemovePartial
=============================================================================
