---------------------------- MODULE SharedFolder ----------------------------
(***************************************************************************)
(* The directory the commands read from and write to, which other programs *)
(* use at the same time: a synchronised folder, a second run of the tool,  *)
(* the user.                                                               *)
(*                                                                         *)
(* A name is bound to nothing, to a directory or to a file.  A file keeps  *)
(* its identity when its name goes: what a handle reads or writes is the   *)
(* file that was opened, whatever the name means by now.                   *)
(***************************************************************************)
EXTENDS Integers, Sequences

CONSTANTS
    Paths,      \* the names in play
    Folder,     \* the directory a name lies in, for those not in the working one
    Foreign,    \* what other programs put in their files
    Contents,   \* what this program puts in its own
    MaxFiles    \* bound: files that ever exist

ASSUME FolderAssumption ==
    /\ DOMAIN Folder \subseteq Paths
    /\ \A p \in DOMAIN Folder : Folder[p] \in Paths \ DOMAIN Folder
    /\ Foreign # {} /\ Foreign \cap Contents = {} /\ "fragment" \notin Foreign \cup Contents
    /\ MaxFiles \in Nat

VARIABLES
    names,      \* what each name is bound to
    files       \* every file there has been: who made it and what it holds

folderVars == <<names, files>>

Absent == 0
Directory == -1

Exists(p) == names[p] # Absent
IsDirectory(p) == names[p] = Directory
IsFile(p) == names[p] > 0
Reachable(p) == p \in DOMAIN Folder => IsDirectory(Folder[p])

NewFile(by, data) == [by |-> by, data |-> data]
Bind(p, by, data) ==
    /\ files' = Append(files, NewFile(by, data))
    /\ names' = [names EXCEPT ![p] = Len(files) + 1]

FolderType ==
    /\ files \in Seq([by : {"us", "others"}, data : Foreign \cup Contents \cup {"fragment"}])
    /\ names \in [Paths -> Directory .. Len(files)]
    /\ \A p, q \in Paths : names[p] = names[q] /\ IsFile(p) => p = q

\* Any of the names may be taken already, by a file or by a directory.
FolderInit ==
    /\ files = [p \in 1 .. 1 |-> NewFile("others", CHOOSE d \in Foreign : TRUE)]
    /\ names \in [Paths -> {Directory, Absent, 1}]
    /\ \A p, q \in Paths : IsFile(p) /\ IsFile(q) => p = q
    /\ \A p \in Paths : Exists(p) => Reachable(p)
    /\ \A p \in DOMAIN Folder : ~IsDirectory(p)

(* What this program asks of the file system. *)

\* open with create_new: the name must be free, and the test is the creation.
CreateNew(p) == ~Exists(p) /\ Reachable(p) /\ Bind(p, "us", "fragment")

\* open with create and truncate: the file that has the name loses its content.
CreateTruncated(p) ==
    \/ CreateNew(p)
    \/ /\ IsFile(p)
       /\ files' = [files EXCEPT ![names[p]].data = "fragment"]
       /\ UNCHANGED names

Fill(file, data) == files' = [files EXCEPT ![file].data = data] /\ UNCHANGED names

\* remove_file: whatever file has the name by now.
RemoveFile(p) == IsFile(p) /\ names' = [names EXCEPT ![p] = Absent] /\ UNCHANGED files

(* What other programs do.  They do not write into files this one made. *)

OthersCreate ==
    \E p \in Paths, d \in Foreign :
        /\ ~IsDirectory(p) /\ Reachable(p)   \* a rename replaces a file
        /\ Len(files) < MaxFiles
        /\ Bind(p, "others", d)

OthersRewrite ==
    \E f \in DOMAIN files, d \in Foreign :
        /\ files[f].by = "others" /\ files[f].data \in Foreign
        /\ Fill(f, d)

OthersRemove ==
    \E p \in Paths :
        /\ Exists(p)
        /\ \A q \in DOMAIN Folder : Folder[q] = p => ~Exists(q)
        /\ names' = [names EXCEPT ![p] = Absent]
        /\ UNCHANGED files

OthersMakeDirectory ==
    \E p \in Paths \ DOMAIN Folder :
        /\ ~Exists(p)
        /\ names' = [names EXCEPT ![p] = Directory]
        /\ UNCHANGED files

Others == OthersCreate \/ OthersRewrite \/ OthersRemove \/ OthersMakeDirectory

\* No file of somebody else has lost its content to this program.
Intact == \A f \in DOMAIN files : files[f].by = "others" => files[f].data \in Foreign
=============================================================================
