----------------------------- MODULE OutputFile -----------------------------
(***************************************************************************)
(* write_png: how a finished container reaches the disk.                   *)
(*                                                                         *)
(* The samples are compressed in memory, the file is created (which        *)
(* truncates whatever had that name), chunks follow, and the encoder is    *)
(* finished.  There is no temporary file and no rename, so between the     *)
(* creation and the finish the name holds a fragment, and a failure or a   *)
(* crash there leaves it.  A buffered writer that failed flushes again     *)
(* when it is dropped, so a failed write may leave a whole file as well.   *)
(***************************************************************************)

VARIABLES
    before,     \* what the output path held when the program started
    disk,       \* what it holds: nothing, an older file, a fragment, the container
    writer      \* progress of write_png

outputVars == <<before, disk, writer>>

DiskStates == {"absent", "older", "fragment", "container"}
WriterStates == {"idle", "compressing", "creating", "chunks", "finishing",
                 "closed", "failed"}

OutputInit ==
    /\ before \in {"absent", "older"}
    /\ disk = before
    /\ writer = "idle"

OutputType ==
    /\ before \in {"absent", "older"}
    /\ disk \in DiskStates
    /\ writer \in WriterStates

\* write_png is called.
BeginWrite == writer = "idle" /\ writer' = "compressing" /\ UNCHANGED <<before, disk>>

\* A buffer that cannot be encoded is refused before anything is created.
CompressSamples ==
    /\ writer = "compressing"
    /\ writer' \in {"creating", "failed"}
    /\ UNCHANGED <<before, disk>>

CreateFile ==
    /\ writer = "creating"
    /\ \/ writer' = "failed" /\ UNCHANGED disk
       \/ writer' = "chunks" /\ disk' = "fragment"
    /\ UNCHANGED before

WriteFails == writer' = "failed" /\ disk' \in {"fragment", "container"}

WriteChunks ==
    /\ writer = "chunks"
    /\ WriteFails \/ (writer' = "finishing" /\ UNCHANGED disk)
    /\ UNCHANGED before

\* Mutant of FinishFile: the writer is dropped instead of finished, which
\* swallows the failure of the last flush.
FinishFileDropped ==
    /\ writer = "finishing"
    /\ writer' = "closed" /\ disk' \in {"fragment", "container"}
    /\ UNCHANGED before

FinishFile ==
    /\ writer = "finishing"
    /\ WriteFails \/ (writer' = "closed" /\ disk' = "container")
    /\ UNCHANGED before

WriteStep == CompressSamples \/ CreateFile \/ WriteChunks \/ FinishFile
=============================================================================
