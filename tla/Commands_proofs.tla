-------------------------- MODULE Commands_proofs ---------------------------
(***************************************************************************)
(* What the commands leave in a folder they share, for any number of names *)
(* and files and whatever other programs do between two of their calls.    *)
(*                                                                         *)
(* The argument follows the one file a command has a handle to.  Others    *)
(* may take its name away but cannot give it another one, and they leave   *)
(* alone what the command has put into it.                                 *)
(***************************************************************************)
EXTENDS Commands, TLAPS

USE FolderAssumption, PathAssumption, PairAssumption, ImageAssumption

\* Where the call stands when a handler is at each of its statements.
Stage ==
    /\ pc \notin {"write", "public", "private", "done", "crashed"} => At("idle")
    /\ ~WritesPayload => At("idle")
    /\ pc \in {"write", "public", "private"} =>
          ~At("idle") /\ writing.data \in Contents /\ writing.force = command.force
    /\ pc = "write" => writing.data = "plaintext"
    /\ pc \in {"deliver", "write"} => payload # "none"
    /\ pc = "done" => writing.at \in {"idle", "written", "exists", "io"}
    /\ pc = "done" /\ command.name = "extract" /\ result = "nothing" /\ command.to = "file" =>
          At("written") /\ writing.data = "plaintext"
    /\ pc \in {"password", "read"} /\ command.from = "file" => handle # 0
    /\ pc = "fill" => image # 0

\* The file behind the handle.
Handle ==
    /\ At("idle") \/ At("open") => writing.file = 0
    /\ writing.at \in {"write", "sync", "written"} => writing.file \in 1 .. Len(files)
    /\ writing.at \in {"sync", "written"} => files[writing.file].data = writing.data
    /\ writing.at \in {"write", "sync"} /\ ~writing.force => files[writing.file].by = "us"

\* Its names, and where a fragment can be.
Fragments ==
    WritesPayload =>
        /\ \A f \in 1 .. Len(files) : files[f].data = "fragment" =>
              f = writing.file /\ writing.at \in {"write", "remove", "io"}
        /\ \A p \in Paths : writing.file > 0 /\ names[p] = writing.file =>
              p = writing.path /\ (At("io") => writing.stuck)

\* Before the first file is opened for writing every file is somebody else's.
AllForeign == \A f \in 1 .. Len(files) : files[f].data \in Foreign
Refused == pc = "done" /\ result \in Refusals
Untouched == pc \notin {"write", "public", "private", "fill", "done", "crashed"} \/ Refused => AllForeign

\* Without --force no file of others has lost its content to the call.
Spared == WritesPayload /\ ~command.force => Intact

IInv == /\ TypeOK /\ Stage /\ Handle /\ Fragments /\ Untouched
        /\ Spared

\* What a step of others leaves: the files there were, their makers and what
\* is not their own in them; a name that changes names no file there was.
Apart ==
    /\ FolderType'
    /\ Len(files) \in Nat /\ Len(files') \in Nat /\ Len(files) <= Len(files')
    /\ \A f \in 1 .. Len(files) :
          /\ files'[f].by = files[f].by
          /\ files'[f] = files[f] \/ (files[f].data \in Foreign /\ files'[f].data \in Foreign)
    /\ \A f \in 1 .. Len(files') : f > Len(files) => files'[f].data \in Foreign
    /\ \A p \in Paths : names'[p] = names[p] \/ names'[p] > Len(files) \/ names'[p] <= 0

\* A name bound to a new file is the only one that file has.
LEMMA BindKeeps ==
    ASSUME FolderType, NEW p \in Paths, NEW by \in {"us", "others"},
           NEW data \in Foreign \cup Contents \cup {"fragment"}, Bind(p, by, data)
    PROVE  /\ FolderType'
           /\ Len(files) \in Nat /\ Len(files') = Len(files) + 1
           /\ \A f \in 1 .. Len(files) : files'[f] = files[f]
           /\ files'[Len(files) + 1] = [by |-> by, data |-> data]
           /\ names' = [names EXCEPT ![p] = Len(files) + 1]
<1> DEFINE File == [by : {"us", "others"}, data : Foreign \cup Contents \cup {"fragment"}]
<1>1. files \in Seq(File) /\ names \in [Paths -> -1 .. Len(files)] /\ Len(files) \in Nat
  BY DEF FolderType, Directory
<1>2. [by |-> by, data |-> data] \in File
  OBVIOUS
<1> HIDE DEF File
<1>3. files' = Append(files, [by |-> by, data |-> data])
  BY DEF Bind, NewFile
<1>4. /\ files' \in Seq(File) /\ Len(files') = Len(files) + 1
      /\ \A f \in 1 .. Len(files) : files'[f] = files[f]
      /\ files'[Len(files) + 1] = [by |-> by, data |-> data]
  BY <1>1, <1>2, <1>3
<1>5. names' = [names EXCEPT ![p] = Len(files) + 1]
  BY DEF Bind
<1>6. names' \in [Paths -> -1 .. Len(files')]
  <2>1. \A q \in Paths : names'[q] = IF q = p THEN Len(files) + 1 ELSE names[q]
    BY <1>1, <1>5
  <2>2. \A q \in Paths : names[q] \in -1 .. Len(files)
    BY <1>1
  <2>3. \A q \in Paths : names'[q] \in -1 .. Len(files')
    BY <1>1, <1>4, <2>1, <2>2, SMT
  <2> QED
    BY <1>1, <1>5, <2>3
<1>7. ASSUME NEW q \in Paths, NEW r \in Paths, names'[q] = names'[r], names'[q] > 0
      PROVE  q = r
  <2>1. \A x \in Paths : names'[x] = IF x = p THEN Len(files) + 1 ELSE names[x]
    BY <1>1, <1>5
  <2>2. names[q] <= Len(files) /\ names[r] <= Len(files)
    BY <1>1
  <2>3. names[q] = names[r] /\ names[q] > 0 => q = r
    BY DEF FolderType, IsFile
  <2> QED
    BY <1>1, <1>7, <2>1, <2>2, <2>3, SMT
<1>8. FolderType'
  BY <1>4, <1>6, <1>7 DEF FolderType, IsFile, Directory, File
<1> QED
  BY <1>1, <1>4, <1>5, <1>8

\* A name that goes, or becomes a directory, takes no other with it.
LEMMA UnbindKeeps ==
    ASSUME FolderType, NEW p \in Paths, NEW to \in {-1, 0},
           names' = [names EXCEPT ![p] = to], UNCHANGED files
    PROVE  /\ FolderType' /\ Len(files) \in Nat
           /\ \A q \in Paths : names'[q] = IF q = p THEN to ELSE names[q]
<1>1. names \in [Paths -> -1 .. Len(files)] /\ Len(files) \in Nat
  BY DEF FolderType, Directory
<1>2. \A q \in Paths : names'[q] = IF q = p THEN to ELSE names[q]
  BY <1>1
<1>3. \A q \in Paths : names'[q] \in -1 .. Len(files')
  BY <1>1, <1>2
<1>4. names' \in [Paths -> -1 .. Len(files')]
  BY <1>1, <1>3
<1>5. ASSUME NEW q \in Paths, NEW r \in Paths, names'[q] = names'[r], names'[q] > 0
      PROVE  q = r
  <2>1. names[q] = names[r] /\ names[q] > 0 => q = r
    BY DEF FolderType, IsFile
  <2> QED
    BY <1>2, <1>5, <2>1
<1> QED
  BY <1>1, <1>2, <1>4, <1>5 DEF FolderType, IsFile, Directory

\* What is written into a file changes its content and nothing else.
LEMMA FillKeeps ==
    ASSUME FolderType, NEW g \in 1 .. Len(files),
           NEW data \in Foreign \cup Contents \cup {"fragment"},
           files' = [files EXCEPT ![g].data = data], UNCHANGED names
    PROVE  /\ FolderType' /\ Len(files) \in Nat /\ Len(files') = Len(files)
           /\ files'[g] = [by |-> files[g].by, data |-> data]
           /\ \A f \in 1 .. Len(files) : f # g => files'[f] = files[f]
<1> DEFINE File == [by : {"us", "others"}, data : Foreign \cup Contents \cup {"fragment"}]
<1>1. files \in Seq(File) /\ Len(files) \in Nat /\ files[g] \in File
  <2>1. files \in Seq(File)
    BY DEF FolderType
  <2> HIDE DEF File
  <2> QED
    BY <2>1
<1>2. [files[g] EXCEPT !.data = data] = [by |-> files[g].by, data |-> data]
  BY <1>1
<1>3. [by |-> files[g].by, data |-> data] \in File
  BY <1>1
<1> HIDE DEF File
<1>4. files' = [files EXCEPT ![g] = [by |-> files[g].by, data |-> data]]
  BY <1>1, <1>2
<1>5. /\ files' \in Seq(File) /\ Len(files') = Len(files)
      /\ files'[g] = [by |-> files[g].by, data |-> data]
      /\ \A f \in 1 .. Len(files) : f # g => files'[f] = files[f]
  BY <1>1, <1>3, <1>4
<1>6. FolderType'
  BY <1>5 DEF FolderType, IsFile, File
<1> QED
  BY <1>1, <1>5, <1>6

LEMMA OthersApart ==
    ASSUME FolderType, Others
    PROVE  Apart
<1>1. ASSUME NEW p \in Paths, NEW d \in Foreign, Bind(p, "others", d) PROVE Apart
  <2>1. /\ FolderType' /\ Len(files) \in Nat /\ Len(files') = Len(files) + 1
        /\ \A f \in 1 .. Len(files) : files'[f] = files[f]
        /\ files'[Len(files) + 1] = [by |-> "others", data |-> d]
        /\ names' = [names EXCEPT ![p] = Len(files) + 1]
    BY <1>1, BindKeeps
  <2>2. \A q \in Paths : names'[q] = names[q] \/ names'[q] > Len(files)
    <3>1. names \in [Paths -> -1 .. Len(files)]
      BY DEF FolderType, Directory
    <3> QED
      BY <2>1, <3>1
  <2>3. \A f \in 1 .. Len(files') : f > Len(files) => files'[f].data \in Foreign
    <3>1. files'[Len(files) + 1].data \in Foreign
      BY <2>1
    <3>2. \A f \in 1 .. Len(files') : f > Len(files) => f = Len(files) + 1
      BY <2>1, SMT
    <3> QED
      BY <3>1, <3>2
  <2>4. Len(files') \in Nat /\ Len(files) <= Len(files')
    BY <2>1, SMT
  <2>5. \A f \in 1 .. Len(files) : files'[f].by = files[f].by
    BY <2>1
  <2> QED
    BY <2>1, <2>2, <2>3, <2>4, <2>5, Zenon DEF Apart
<1>2. ASSUME NEW g \in DOMAIN files, NEW d \in Foreign, files[g].data \in Foreign, Fill(g, d)
      PROVE  Apart
  <2>1. files \in Seq([by : {"us", "others"}, data : Foreign \cup Contents \cup {"fragment"}])
    BY DEF FolderType
  <2>2. g \in 1 .. Len(files)
    BY <2>1
  <2>3. files' = [files EXCEPT ![g].data = d] /\ UNCHANGED names
    BY <1>2 DEF Fill
  <2>4. /\ FolderType' /\ Len(files) \in Nat /\ Len(files') = Len(files)
        /\ files'[g] = [by |-> files[g].by, data |-> d]
        /\ \A f \in 1 .. Len(files) : f # g => files'[f] = files[f]
    BY <2>2, <2>3, FillKeeps
  <2>5. \A f \in 1 .. Len(files) :
          /\ files'[f].by = files[f].by
          /\ files'[f] = files[f] \/ (files[f].data \in Foreign /\ files'[f].data \in Foreign)
    BY <1>2, <2>4
  <2>6. /\ Len(files) <= Len(files')
        /\ \A f \in 1 .. Len(files') : ~ (f > Len(files))
    BY <2>4, SMT
  <2> QED
    BY <2>3, <2>4, <2>5, <2>6, Zenon DEF Apart
<1>3. ASSUME NEW p \in Paths, NEW to \in {-1, 0}, names' = [names EXCEPT ![p] = to],
             UNCHANGED files
      PROVE  Apart
  <2>1. /\ FolderType' /\ Len(files) \in Nat
        /\ \A q \in Paths : names'[q] = IF q = p THEN to ELSE names[q]
    BY <1>3, UnbindKeeps
  <2>2. \A q \in Paths : names'[q] = names[q] \/ names'[q] <= 0
    BY <2>1, SMT
  <2>3. /\ Len(files') \in Nat /\ Len(files) <= Len(files')
        /\ \A f \in 1 .. Len(files') : ~ (f > Len(files))
    BY <1>3, <2>1, SMT
  <2> QED
    BY <1>3, <2>1, <2>2, <2>3, Zenon DEF Apart
<1>4. CASE OthersCreate
  BY <1>1, <1>4 DEF OthersCreate
<1>5. CASE OthersRewrite
  BY <1>2, <1>5 DEF OthersRewrite
<1>6. CASE OthersRemove
  BY <1>3, <1>6 DEF OthersRemove, Absent
<1>7. CASE OthersMakeDirectory
  BY <1>3, <1>7 DEF OthersMakeDirectory, Directory
<1> QED
  BY <1>4, <1>5, <1>6, <1>7 DEF Others

\* Whatever others do, the command's file holds what it held.
LEMMA ElsewhereHolds ==
    ASSUME IInv, Elsewhere
    PROVE  IInv'
<1>1. /\ TypeOK /\ Stage /\ Handle /\ Fragments /\ Untouched /\ Spared
      /\ UNCHANGED <<writing, command, pc, result, payload, held, handle, source, plaintext, image>>
  BY DEF IInv, Elsewhere, imageVars
<1>2. Apart
  BY <1>1, OthersApart DEF Elsewhere, TypeOK
<1>3. /\ Len(files) \in Nat /\ Len(files') \in Nat /\ Len(files) <= Len(files')
      /\ \A f \in 1 .. Len(files) :
            /\ files'[f].by = files[f].by
            /\ files'[f] = files[f] \/ (files[f].data \in Foreign /\ files'[f].data \in Foreign)
      /\ \A f \in 1 .. Len(files') : f > Len(files) => files'[f].data \in Foreign
      /\ \A p \in Paths : names'[p] = names[p] \/ names'[p] > Len(files) \/ names'[p] <= 0
  BY <1>2 DEF Apart
<1>4. writing.file \in 0 .. Len(files)
  BY <1>1 DEF TypeOK, WritingType
<1>5. TypeOK'
  <2>1. \A x \in 0 .. Len(files) : x \in 0 .. Len(files')
    BY <1>3
  <2>2. WritingType'
    <3>1. writing \in [at : {"idle", "open", "write", "sync", "remove", "written", "exists", "io"},
                 path : Paths, file : 0 .. Len(files'),
                 data : Contents \cup {"fragment"}, force : BOOLEAN, stuck : BOOLEAN]
      BY <1>1, <2>1 DEF TypeOK, WritingType
    <3> QED
      BY <1>1, <3>1 DEF WritingType
  <2>3. HandlerType'
    <3>1. HandlerType
      BY <1>1 DEF TypeOK
    <3> QED
      BY <1>1, <2>1, <3>1 DEF HandlerType
  <2> QED
    BY <1>1, <1>2, <2>2, <2>3 DEF TypeOK, Apart
<1>6. Stage'
  BY <1>1 DEF Stage, At, WritesPayload
<1>7. Handle'
  <2>2. At("sync") \/ At("written") => files[writing.file].data \notin Foreign
    <3>1. writing.data \in Contents \cup {"fragment"}
      BY <1>1 DEF TypeOK, WritingType
    <3> QED
      BY <1>1, <3>1 DEF Handle, At
  <2>3. writing.at \in {"write", "sync", "written"} =>
            writing.file \in 1 .. Len(files) /\ writing.file \in 1 .. Len(files')
    BY <1>1, <1>3 DEF Handle
  <2> QED
    BY <1>1, <1>3, <2>2, <2>3 DEF Handle, At
<1>8. Fragments'
  <2>1. ASSUME WritesPayload, NEW f \in 1 .. Len(files'), files'[f].data = "fragment"
        PROVE  f = writing.file /\ writing.at \in {"write", "remove", "io"}
    <3>1. f \in 1 .. Len(files)
      BY <1>3, <2>1
    <3>2. files'[f] = files[f]
      BY <1>3, <2>1, <3>1
    <3> QED
      BY <1>1, <2>1, <3>1, <3>2 DEF Fragments
  <2>2. ASSUME WritesPayload, NEW p \in Paths, writing.file > 0, names'[p] = writing.file
        PROVE  p = writing.path /\ (At("io") => writing.stuck)
    <3>1. names'[p] = names[p]
      BY <1>3, <1>4, <2>2
    <3> QED
      BY <1>1, <2>2, <3>1 DEF Fragments
  <2> QED
    BY <1>1, <2>1, <2>2 DEF Fragments, At, WritesPayload
<1>9. Intact => Intact'
  <2>1. ASSUME Intact, NEW f \in 1 .. Len(files'), files'[f].by = "others"
        PROVE  files'[f].data \in Foreign
    <3>1. CASE f > Len(files)
      BY <1>3, <3>1
    <3>2. CASE ~ (f > Len(files))
      <4>1. f \in 1 .. Len(files) /\ files[f].by = "others"
        BY <1>3, <2>1, <3>2
      <4>2. files[f].data \in Foreign
        BY <1>1, <2>1, <4>1 DEF Intact, TypeOK, FolderType
      <4> QED
        BY <1>3, <4>1, <4>2
    <3> QED
      BY <3>1, <3>2
  <2>2. DOMAIN files' = 1 .. Len(files')
    BY <1>2 DEF Apart, FolderType
  <2> QED
    BY <2>1, <2>2 DEF Intact
<1>10. AllForeign => AllForeign'
  <2>1. ASSUME AllForeign, NEW f \in 1 .. Len(files') PROVE files'[f].data \in Foreign
    <3>1. f \in 1 .. Len(files) \/ f > Len(files)
      BY <1>3
    <3> QED
      BY <1>3, <2>1, <3>1 DEF AllForeign
  <2> QED
    BY <2>1 DEF AllForeign
<1>11. Untouched' /\ Spared'
  BY <1>1, <1>9, <1>10 DEF Untouched, Refused, Spared, WritesPayload
<1> QED
  BY <1>1, <1>5, <1>6, <1>7, <1>8, <1>11 DEF IInv

\* The statements that touch no file: what remains to be shown of each is the
\* shape of the handler and the stage it is in.
LEMMA QuietHolds ==
    ASSUME IInv, UNCHANGED <<folderVars, writing, command>>, HandlerType', Stage',
           pc \in {"write", "public", "private", "fill", "done", "crashed"} =>
               pc' \in {"write", "public", "private", "fill", "done", "crashed"} /\ ~Refused'
    PROVE  IInv'
<1>1. /\ TypeOK /\ Handle /\ Fragments /\ Untouched /\ Spared
      /\ UNCHANGED <<names, files, writing, command>>
  BY DEF IInv, folderVars
<1>2. Handle' /\ Fragments' /\ Spared'
  BY <1>1 DEF Handle, Fragments, Spared, Intact, At, WritesPayload
<1>3. FolderType' /\ WritingType'
  BY <1>1 DEF TypeOK, FolderType, WritingType, IsFile
<1>4. Untouched'
  BY <1>1 DEF Untouched, AllForeign
<1> QED
  BY <1>1, <1>2, <1>3, <1>4 DEF IInv, TypeOK

\* The statements that call write_payload_file.
LEMMA CallHolds ==
    ASSUME IInv, UNCHANGED <<folderVars, command>>, WritesPayload, HandlerType',
           NEW path \in Paths, NEW data \in Contents,
           WritePayloadFile(path, data, command.force), At("idle") \/ At("written"),
           pc' \in {"write", "public", "private"},
           pc' = "write" => data = "plaintext" /\ payload' # "none"
    PROVE  IInv'
<1>1. /\ TypeOK /\ Stage /\ Handle /\ Fragments /\ Untouched /\ Spared
      /\ UNCHANGED <<names, files, command>>
  BY DEF IInv, folderVars
<1>2. writing' = [at |-> "open", path |-> path, file |-> 0, data |-> data,
                  force |-> command.force, stuck |-> FALSE]
  BY DEF WritePayloadFile, Idle
<1>3. command.force \in BOOLEAN /\ Len(files) \in Nat
  BY <1>1 DEF TypeOK, Arguments, ExtractArguments, KeygenArguments, ImageArguments, FolderType
<1>4. WritingType'
  <2>1. 0 \in 0 .. Len(files)
    BY <1>3
  <2> QED
    BY <1>1, <1>2, <1>3, <2>1 DEF WritingType
<1>5. TypeOK'
  BY <1>1, <1>4 DEF TypeOK, FolderType, IsFile
<1>6. Stage'
  BY <1>1, <1>2 DEF Stage, At, WritesPayload
<1>7. Handle'
  BY <1>2 DEF Handle, At
<1>8. Fragments'
  BY <1>1, <1>2 DEF Fragments, At, WritesPayload
<1>9. Untouched' /\ Spared'
  BY <1>1 DEF Untouched, Refused, Spared, Intact, WritesPayload
<1> QED
  BY <1>5, <1>6, <1>7, <1>8, <1>9 DEF IInv

\* The record of the call after a step that moves it on.
Calls == [at : {"idle", "open", "write", "sync", "remove", "written", "exists", "io"},
          path : Paths, file : Nat, data : Contents \cup {"fragment"},
          force : BOOLEAN, stuck : BOOLEAN]

LEMMA CallType == ASSUME FolderType PROVE WritingType <=> writing \in Calls /\ writing.file <= Len(files)
<1>1. Len(files) \in Nat
  BY DEF FolderType
<1>2. \A x : x \in 0 .. Len(files) <=> x \in Nat /\ x <= Len(files)
  BY <1>1
<1> QED
  BY <1>2 DEF WritingType, Calls

\* While a handler waits for the call nothing of it changes.
Writes == pc \in {"write", "public", "private"}

LEMMA WaitingHolds ==
    ASSUME IInv, Writes, UNCHANGED <<command, pc, result, payload, held, imageVars>>,
           FolderType', WritingType', Len(files) <= Len(files'),
           ~At("idle")', writing'.data = writing.data, writing'.force = writing.force
    PROVE  /\ TypeOK' /\ Stage' /\ Untouched' /\ WritesPayload
           /\ writing.data \in Contents /\ writing.force = command.force
<1>1. /\ TypeOK /\ Stage /\ HandlerType
      /\ UNCHANGED <<command, pc, result, payload, held, handle, source, plaintext, image>>
  BY DEF IInv, TypeOK, imageVars
<1>2. \A x \in 0 .. Len(files) : x \in 0 .. Len(files')
  <2>1. Len(files) \in Nat /\ Len(files') \in Nat
    BY <1>1 DEF TypeOK, FolderType
  <2> QED
    BY <2>1
<1>3. HandlerType'
  BY <1>1, <1>2 DEF HandlerType
<1>4. TypeOK' /\ Untouched'
  BY <1>1, <1>3 DEF TypeOK, Untouched, Refused, Writes
<1>5. WritesPayload /\ writing.data \in Contents /\ writing.force = command.force
  BY <1>1 DEF Stage, Writes
<1>6. Stage'
  BY <1>1, <1>5 DEF Stage, At, Writes, WritesPayload
<1> QED
  BY <1>4, <1>5, <1>6

LEMMA WritesHere ==
    ASSUME IInv, Writes
    PROVE  WritesPayload /\ writing.data \in Contents /\ writing.force = command.force
  BY DEF IInv, Stage, Writes

LEMMA OpenHolds ==
    ASSUME IInv, Writes, OpenPayload, UNCHANGED <<command, pc, result, payload, held, imageVars>>
    PROVE  IInv'
<1>1. /\ TypeOK /\ Stage /\ Handle /\ Fragments /\ Spared /\ WritesPayload
      /\ FolderType /\ WritingType /\ writing.at = "open"
  BY WritesHere DEF IInv, TypeOK, OpenPayload, At
<1>2. writing \in Calls /\ writing.file = 0 /\ Len(files) \in Nat
  BY <1>1, CallType DEF Handle, At, FolderType
<1>3. /\ writing.data \in Contents /\ writing.force = command.force
      /\ \A f \in 1 .. Len(files) : files[f].data # "fragment"
  BY <1>1, WritesHere DEF Fragments, At
<1>4. CASE UNCHANGED folderVars /\ writing'.at \in {"exists", "io"} /\ Move(writing'.at)
  <2>1. /\ writing'.at \in {"exists", "io"} /\ writing'.file = 0
        /\ writing'.data = writing.data /\ writing'.force = command.force
        /\ writing' \in Calls /\ UNCHANGED <<names, files>>
    BY <1>2, <1>3, <1>4 DEF Move, Calls, folderVars
  <2>2. FolderType'
    BY <1>1, <2>1 DEF FolderType, IsFile
  <2>3. writing'.file <= Len(files')
    BY <1>2, <2>1
  <2>4. WritingType'
    <3>1. Len(files') \in Nat
      BY <1>2, <2>1
    <3>2. \A x : x \in Nat /\ x <= Len(files') => x \in 0 .. Len(files')
      BY <3>1
    <3> QED
      BY <2>1, <2>3, <3>2 DEF WritingType, Calls
  <2>5. TypeOK' /\ Stage' /\ Untouched'
    <3>1. ~At("idle")' /\ Len(files) <= Len(files') /\ writing'.force = writing.force
      BY <1>2, <1>3, <2>1 DEF At
    <3> QED
      BY <2>1, <2>2, <2>4, <3>1, WaitingHolds
  <2>6. Fragments' /\ Spared' /\ Handle'
    BY <1>1, <1>3, <2>1 DEF Fragments, Spared, Intact, Handle, At, WritesPayload
  <2> QED
    BY <2>5, <2>6 DEF IInv
<1>5. ASSUME FolderType', Opened, NEW g \in 1 .. Len(files'), names'[writing.path] = g,
             Len(files) <= Len(files'), Len(files') \in Nat,
             \A f \in 1 .. Len(files') : f # g => f \in 1 .. Len(files) /\ files'[f] = files[f],
             ~writing.force => files'[g].by = "us"
      PROVE  IInv'
  <2>1. writing' = [writing EXCEPT !.at = "write", !.file = g]
    BY <1>5 DEF Opened
  <2>2. /\ writing'.at = "write" /\ writing'.file = g /\ writing' \in Calls
        /\ writing'.data = writing.data /\ writing'.force = command.force
        /\ writing'.path = writing.path
    <3>1. g \in Nat
      BY <1>5
    <3>2. writing' = [at |-> "write", path |-> writing.path, file |-> g, data |-> writing.data,
                      force |-> writing.force, stuck |-> writing.stuck]
      BY <1>2, <2>1 DEF Calls
    <3> QED
      BY <1>2, <1>3, <3>1, <3>2 DEF Calls
  <2>3. WritingType'
    <3>1. g \in 0 .. Len(files')
      BY <1>5
    <3> QED
      BY <2>2, <3>1 DEF WritingType, Calls
  <2>4. TypeOK' /\ Stage' /\ Untouched'
    <3>1. ~At("idle")' /\ writing'.force = writing.force
      BY <1>3, <2>2 DEF At
    <3> QED
      BY <1>5, <2>2, <2>3, <3>1, WaitingHolds
  <2>5. Handle'
    BY <1>3, <1>5, <2>2 DEF Handle, At
  <2>6. Fragments'
    <3>1. \A f \in 1 .. Len(files') : files'[f].data = "fragment" => f = g
      BY <1>3, <1>5
    <3>2. writing.path \in Paths /\ g > 0
      BY <1>2, <1>5 DEF Calls
    <3>3. \A p \in Paths : names'[p] = g => p = writing.path
      BY <1>5, <3>2 DEF FolderType, IsFile
    <3> QED
      BY <2>2, <3>1, <3>3 DEF Fragments, At
  <2>7. Spared'
    <3>1. ASSUME ~command.force, NEW f \in 1 .. Len(files'), files'[f].by = "others"
          PROVE  files'[f].data \in Foreign
      <4>1. f # g
        BY <1>3, <1>5, <3>1
      <4>2. f \in 1 .. Len(files) /\ files'[f] = files[f]
        BY <1>5, <4>1
      <4> QED
        BY <1>1, <3>1, <4>2 DEF Spared, Intact, FolderType
    <3>2. DOMAIN files' = 1 .. Len(files')
      BY <1>5 DEF FolderType
    <3> QED
      BY <3>1, <3>2 DEF Spared, Intact
  <2> QED
    BY <2>4, <2>5, <2>6, <2>7 DEF IInv
<1>6. CASE CreateNew(writing.path) /\ Opened
  <2>1. writing.path \in Paths /\ Bind(writing.path, "us", "fragment")
    BY <1>2, <1>6 DEF CreateNew, Calls
  <2>2. /\ FolderType' /\ Len(files') = Len(files) + 1
        /\ \A f \in 1 .. Len(files) : files'[f] = files[f]
        /\ files'[Len(files) + 1] = [by |-> "us", data |-> "fragment"]
        /\ names' = [names EXCEPT ![writing.path] = Len(files) + 1]
    BY <1>1, <2>1, BindKeeps
  <2>3. names'[writing.path] = Len(files) + 1 /\ Len(files) + 1 \in 1 .. Len(files')
    BY <1>1, <1>2, <2>1, <2>2 DEF FolderType
  <2>4. /\ Len(files) <= Len(files') /\ Len(files') \in Nat
        /\ \A f \in 1 .. Len(files') : f # Len(files) + 1 => f \in 1 .. Len(files)
    BY <1>2, <2>2
  <2> QED
    BY <1>5, <1>6, <2>2, <2>3, <2>4
<1>7. CASE /\ writing.force /\ IsFile(writing.path)
           /\ files' = [files EXCEPT ![names[writing.path]].data = "fragment"]
           /\ UNCHANGED names /\ Opened
  <2> DEFINE g == names[writing.path]
  <2>1. writing.path \in Paths /\ g \in 1 .. Len(files)
    <3>1. names \in [Paths -> -1 .. Len(files)]
      BY <1>1 DEF FolderType, Directory
    <3> QED
      BY <1>2, <1>7, <3>1 DEF Calls, IsFile
  <2>2. /\ FolderType' /\ Len(files') = Len(files)
        /\ \A f \in 1 .. Len(files) : f # g => files'[f] = files[f]
    BY <1>1, <1>7, <2>1, FillKeeps
  <2>3. names'[writing.path] = g /\ g \in 1 .. Len(files') /\ Len(files) <= Len(files')
    BY <1>2, <1>7, <2>1, <2>2
  <2> HIDE DEF g
  <2> QED
    BY <1>2, <1>5, <1>7, <2>2, <2>3
<1> QED
  <2>1. \/ CreateNew(writing.path) /\ Opened
        \/ writing.force /\ CreateTruncated(writing.path) /\ Opened
        \/ UNCHANGED folderVars /\ (Move("exists") \/ Move("io"))
    BY DEF OpenPayload
  <2>2. ASSUME NEW to, Move(to) PROVE writing'.at = to
    BY <1>2, <2>2 DEF Move, Calls
  <2> QED
    BY <1>4, <1>6, <1>7, <2>1, <2>2 DEF CreateTruncated

\* Each of the later statements moves the call on and leaves its other fields,
\* but for the note that a removal was refused.
LEMMA MoveKeeps ==
    ASSUME WritingType, FolderType,
           NEW to \in {"idle", "open", "write", "sync", "remove", "written", "exists", "io"},
           NEW stuck \in BOOLEAN, writing' = [writing EXCEPT !.at = to, !.stuck = stuck],
           Len(files') = Len(files)
    PROVE  /\ WritingType' /\ writing'.at = to /\ writing'.stuck = stuck
           /\ writing'.path = writing.path /\ writing'.file = writing.file
           /\ writing'.data = writing.data /\ writing'.force = writing.force
<1>1. writing' = [at |-> to, path |-> writing.path, file |-> writing.file,
                  data |-> writing.data, force |-> writing.force, stuck |-> stuck]
  BY DEF WritingType
<1> QED
  BY <1>1 DEF WritingType

LEMMA FillHolds ==
    ASSUME IInv, Writes, FillPayload, UNCHANGED <<command, pc, result, payload, held, imageVars>>
    PROVE  IInv'
<1>1. /\ TypeOK /\ Stage /\ Handle /\ Fragments /\ Spared /\ WritesPayload
      /\ FolderType /\ WritingType /\ writing.at = "write"
  BY WritesHere DEF IInv, TypeOK, FillPayload, At
<1>2. /\ writing.file \in 1 .. Len(files) /\ Len(files) \in Nat
      /\ writing.data \in Contents /\ writing.force = command.force
      /\ ~writing.force => files[writing.file].by = "us"
      /\ writing.stuck \in BOOLEAN
  BY <1>1, WritesHere DEF Handle, At, FolderType, WritingType
<1>3. ASSUME NEW to, Move(to) PROVE writing' = [writing EXCEPT !.at = to, !.stuck = writing.stuck]
  BY <1>1, <1>3 DEF Move, WritingType
<1>4. CASE Move("remove") /\ UNCHANGED folderVars
  <2>1. UNCHANGED <<names, files>>
    BY <1>4 DEF folderVars
  <2>2. writing' = [writing EXCEPT !.at = "remove", !.stuck = writing.stuck]
    BY <1>3, <1>4
  <2>3. /\ WritingType' /\ writing'.at = "remove" /\ writing'.file = writing.file
        /\ writing'.path = writing.path /\ writing'.data = writing.data
        /\ writing'.force = writing.force
    BY <1>1, <1>2, <2>1, <2>2, MoveKeeps
  <2>4. TypeOK' /\ Stage' /\ Untouched'
    <3>1. ~At("idle")' /\ FolderType' /\ Len(files) <= Len(files')
      BY <1>1, <1>2, <2>1, <2>3 DEF At, FolderType, IsFile
    <3> QED
      BY <2>3, <3>1, WaitingHolds
  <2>5. Handle' /\ Fragments' /\ Spared'
    BY <1>1, <2>1, <2>3 DEF Handle, Fragments, Spared, Intact, At
  <2> QED
    BY <2>4, <2>5 DEF IInv
<1>5. CASE Fill(writing.file, writing.data) /\ Move("sync")
  <2>1. files' = [files EXCEPT ![writing.file].data = writing.data] /\ UNCHANGED names
    BY <1>2, <1>5 DEF Fill
  <2>2. /\ FolderType' /\ Len(files') = Len(files)
        /\ files'[writing.file] = [by |-> files[writing.file].by, data |-> writing.data]
        /\ \A f \in 1 .. Len(files) : f # writing.file => files'[f] = files[f]
    BY <1>1, <1>2, <2>1, FillKeeps
  <2>3. writing' = [writing EXCEPT !.at = "sync", !.stuck = writing.stuck]
    BY <1>3, <1>5
  <2>4. /\ WritingType' /\ writing'.at = "sync" /\ writing'.file = writing.file
        /\ writing'.path = writing.path /\ writing'.data = writing.data
        /\ writing'.force = writing.force
    BY <1>1, <1>2, <2>2, <2>3, MoveKeeps
  <2>5. TypeOK' /\ Stage' /\ Untouched'
    <3>1. ~At("idle")' /\ Len(files) <= Len(files')
      BY <1>2, <2>2, <2>4 DEF At
    <3> QED
      BY <2>2, <2>4, <3>1, WaitingHolds
  <2>8. Handle'
    BY <1>1, <1>2, <2>2, <2>4 DEF Handle, At
  <2>6. Fragments'
    <3>1. \A f \in 1 .. Len(files') : files'[f].data # "fragment"
      BY <1>1, <1>2, <2>2 DEF Fragments
    <3> QED
      BY <1>1, <2>1, <2>4, <3>1 DEF Fragments, At
  <2>7. Spared'
    <3>1. DOMAIN files = 1 .. Len(files) /\ DOMAIN files' = 1 .. Len(files)
      BY <1>1, <2>2 DEF FolderType
    <3> QED
      BY <1>1, <1>2, <2>2, <3>1 DEF Spared, Intact
  <2> QED
    BY <2>5, <2>6, <2>7, <2>8 DEF IInv
<1> QED
  BY <1>4, <1>5 DEF FillPayload

LEMMA SyncHolds ==
    ASSUME IInv, Writes, SyncPayload, UNCHANGED <<command, pc, result, payload, held, imageVars>>
    PROVE  IInv'
<1>1. /\ TypeOK /\ Stage /\ Handle /\ Fragments /\ Spared /\ WritesPayload
      /\ FolderType /\ WritingType /\ writing.at = "sync" /\ UNCHANGED <<names, files>>
  BY WritesHere DEF IInv, TypeOK, SyncPayload, At, folderVars
<1>2. /\ writing.data \in Contents /\ writing.force = command.force
      /\ writing.stuck \in BOOLEAN
  BY <1>1, WritesHere DEF WritingType
<1>3. PICK to \in {"written", "remove"} :
        writing' = [writing EXCEPT !.at = to, !.stuck = writing.stuck]
  BY <1>1 DEF SyncPayload, Move, WritingType
<1>4. /\ WritingType' /\ writing'.at = to /\ writing'.file = writing.file
      /\ writing'.path = writing.path /\ writing'.data = writing.data
      /\ writing'.force = writing.force
  BY <1>1, <1>2, <1>3, MoveKeeps
<1>5. TypeOK' /\ Stage' /\ Untouched'
  <2>1. ~At("idle")' /\ FolderType' /\ Len(files) <= Len(files')
    BY <1>1, <1>4 DEF At, FolderType, IsFile
  <2> QED
    BY <1>4, <2>1, WaitingHolds
<1>6. Handle' /\ Fragments' /\ Spared'
  BY <1>1, <1>4 DEF Handle, Fragments, Spared, Intact, At
<1> QED
  BY <1>5, <1>6 DEF IInv

\* The removal goes by name, and the name can only be that of another file
\* when the command's own file has none.
LEMMA RemoveHolds ==
    ASSUME IInv, Writes, RemovePartial, UNCHANGED <<command, pc, result, payload, held, imageVars>>
    PROVE  IInv'
<1>1. /\ TypeOK /\ Stage /\ Handle /\ Fragments /\ Spared /\ WritesPayload
      /\ FolderType /\ WritingType /\ writing.at = "remove"
  BY WritesHere DEF IInv, TypeOK, RemovePartial, At
<1>2. /\ writing.data \in Contents /\ writing.force = command.force
      /\ writing.stuck \in BOOLEAN
      /\ writing.path \in Paths
  BY <1>1, WritesHere DEF WritingType
<1>3. /\ UNCHANGED files /\ FolderType'
      /\ \A p \in Paths : names'[p] = names[p] \/ names'[p] = 0
  <2>1. CASE RemoveFile(writing.path)
    <3>1. names' = [names EXCEPT ![writing.path] = 0] /\ UNCHANGED files
      BY <2>1 DEF RemoveFile, Absent
    <3>2. /\ FolderType' /\ \A q \in Paths : names'[q] = IF q = writing.path THEN 0 ELSE names[q]
      BY <1>1, <1>2, <3>1, UnbindKeeps
    <3> QED
      BY <3>1, <3>2
  <2>2. CASE UNCHANGED folderVars
    BY <1>1, <2>2 DEF folderVars, FolderType, IsFile
  <2> QED
    BY <2>1, <2>2 DEF RemovePartial
<1>4. PICK stuck \in BOOLEAN :
        /\ writing' = [writing EXCEPT !.at = "io", !.stuck = stuck]
        /\ \/ stuck \/ names'[writing.path] = 0
           \/ ~IsFile(writing.path) /\ UNCHANGED names
  <2>1. CASE RemoveFile(writing.path) /\ Move("io")
    <3>1. names'[writing.path] = 0
      BY <1>1, <1>2, <2>1 DEF RemoveFile, Absent, FolderType
    <3>2. writing' = [writing EXCEPT !.at = "io", !.stuck = writing.stuck]
      BY <1>1, <2>1 DEF Move, WritingType
    <3> QED
      BY <1>2, <3>1, <3>2
  <2>2. CASE ~IsFile(writing.path) /\ Move("io") /\ UNCHANGED folderVars
    <3>1. writing' = [writing EXCEPT !.at = "io", !.stuck = writing.stuck]
      BY <1>1, <2>2 DEF Move, WritingType
    <3> QED
      BY <1>2, <2>2, <3>1 DEF folderVars
  <2>3. CASE writing' = [writing EXCEPT !.at = "io", !.stuck = TRUE]
    BY <2>3
  <2> QED
    BY <2>1, <2>2, <2>3 DEF RemovePartial
<1>5. /\ WritingType' /\ writing'.at = "io" /\ writing'.stuck = stuck
      /\ writing'.file = writing.file /\ writing'.path = writing.path
      /\ writing'.data = writing.data /\ writing'.force = writing.force
  BY <1>1, <1>3, <1>4, MoveKeeps
<1>6. TypeOK' /\ Stage' /\ Untouched'
  <2>1. ~At("idle")' /\ Len(files) <= Len(files')
    BY <1>1, <1>3, <1>5 DEF At, FolderType
  <2> QED
    BY <1>3, <1>5, <2>1, WaitingHolds
<1>9. Handle'
  BY <1>1, <1>3, <1>5 DEF Handle, At
<1>7. Fragments'
  <2>1. ASSUME NEW p \in Paths, writing.file > 0, names'[p] = writing.file
        PROVE  p = writing.path /\ stuck
    <3>1. names'[p] = names[p]
      BY <1>3, <2>1, SMT
    <3>2. p = writing.path
      BY <1>1, <2>1, <3>1 DEF Fragments
    <3>3. names'[writing.path] # 0 /\ (UNCHANGED names => IsFile(writing.path))
      BY <2>1, <3>1, <3>2, SMT DEF IsFile
    <3> QED
      BY <1>4, <3>2, <3>3
  <2> QED
    BY <1>1, <1>3, <1>5, <2>1 DEF Fragments, At
<1>8. Spared'
  BY <1>1, <1>3 DEF Spared, Intact
<1> QED
  BY <1>6, <1>7, <1>8, <1>9 DEF IInv

LEMMA ExtractHolds ==
    ASSUME IInv, Extracting
    PROVE  IInv'
<1>1. /\ IInv /\ HandlerType /\ Stage /\ UNCHANGED <<held, handle, source, plaintext, image>>
      /\ command.name = "extract" /\ WritesPayload
      /\ Places[command.name] = {"load", "check", "key", "extract", "deliver", "write"}
  BY DEF IInv, TypeOK, Extracting, Places, imageVars, WritesPayload
<1>2. CASE Load
  <2>1. /\ UNCHANGED <<writing, command>> /\ HandlerType' /\ Stage'
        /\ pc \in {"write", "public", "private", "fill", "done", "crashed"} =>
               pc' \in {"write", "public", "private", "fill", "done", "crashed"} /\ ~Refused'
    BY <1>1, <1>2 DEF Load, Step, Return, HandlerType, Results, Refused, Refusals, Stage, At, WritesPayload, folderVars, imageVars
  <2> QED
    BY <1>1, <1>2, <2>1, QuietHolds DEF Load
<1>3. CASE Check
  <2>1. /\ UNCHANGED <<writing, command>> /\ HandlerType' /\ Stage'
        /\ pc \in {"write", "public", "private", "fill", "done", "crashed"} =>
               pc' \in {"write", "public", "private", "fill", "done", "crashed"} /\ ~Refused'
    BY <1>1, <1>3 DEF Check, Step, Return, HandlerType, Results, Refused, Refusals, Stage, At, WritesPayload, folderVars, imageVars
  <2> QED
    BY <1>1, <1>3, <2>1, QuietHolds DEF Check
<1>4. CASE ReadKey
  <2>1. /\ UNCHANGED <<writing, command>> /\ HandlerType' /\ Stage'
        /\ pc \in {"write", "public", "private", "fill", "done", "crashed"} =>
               pc' \in {"write", "public", "private", "fill", "done", "crashed"} /\ ~Refused'
    BY <1>1, <1>4 DEF ReadKey, Step, Return, HandlerType, Results, Refused, Refusals, Stage, At, WritesPayload, folderVars, imageVars
  <2> QED
    BY <1>1, <1>4, <2>1, QuietHolds DEF ReadKey
<1>5. CASE Extract
  <2>1. /\ UNCHANGED <<writing, command>> /\ HandlerType' /\ Stage'
        /\ pc \in {"write", "public", "private", "fill", "done", "crashed"} =>
               pc' \in {"write", "public", "private", "fill", "done", "crashed"} /\ ~Refused'
    BY <1>1, <1>5 DEF Extract, Step, Return, HandlerType, Results, Refused, Refusals, Stage, At, WritesPayload, folderVars, imageVars
  <2> QED
    BY <1>1, <1>5, <2>1, QuietHolds DEF Extract
<1>6. CASE Report
  <2>1. /\ UNCHANGED <<writing, command>> /\ HandlerType' /\ Stage'
        /\ pc \in {"write", "public", "private", "fill", "done", "crashed"} =>
               pc' \in {"write", "public", "private", "fill", "done", "crashed"} /\ ~Refused'
    BY <1>1, <1>6 DEF Report, Step, Return, HandlerType, Results, Refused, Refusals, Stage, At, WritesPayload, folderVars, imageVars
  <2> QED
    BY <1>1, <1>6, <2>1, QuietHolds DEF Report
<1>7. CASE Show
  <2>1. /\ UNCHANGED <<writing, command>> /\ HandlerType' /\ Stage'
        /\ pc \in {"write", "public", "private", "fill", "done", "crashed"} =>
               pc' \in {"write", "public", "private", "fill", "done", "crashed"} /\ ~Refused'
    BY <1>1, <1>7 DEF Show, Step, Return, HandlerType, Results, Refused, Refusals, Stage, At, WritesPayload, folderVars, imageVars
  <2> QED
    BY <1>1, <1>7, <2>1, QuietHolds DEF Show
<1>8. CASE Deliver
  <2>1. /\ UNCHANGED <<folderVars, command>> /\ pc = "deliver" /\ pc' = "write"
        /\ WritePayloadFile(Destination, "plaintext", command.force)
        /\ payload' # "none" /\ At("idle")
    BY <1>1, <1>8 DEF Deliver, Step, Stage
  <2>2. HandlerType'
    BY <1>1, <1>8 DEF Deliver, Step, HandlerType, folderVars
  <2>3. Destination \in Paths
    BY DEF Destination
  <2> QED
    BY <1>1, <2>1, <2>2, <2>3, CallHolds
<1>9. CASE Write
  <2>1. Writes /\ WriteSteps /\ UNCHANGED <<command, pc, result, payload, held, imageVars>>
    BY <1>1, <1>9 DEF Write, Writes, imageVars
  <2> QED
    BY <1>1, <2>1, OpenHolds, FillHolds, SyncHolds, RemoveHolds DEF WriteSteps
<1> QED
  BY <1>2, <1>3, <1>4, <1>5, <1>6, <1>7, <1>8, <1>9 DEF Extracting, ExtractStep

LEMMA KeygenHolds ==
    ASSUME IInv, Keygen
    PROVE  IInv'
<1>1. /\ IInv /\ HandlerType /\ Stage /\ UNCHANGED <<payload, handle, source, plaintext, image>>
      /\ command.name = "keygen" /\ WritesPayload
      /\ Places[command.name] = {"judge", "passphrase", "generate", "seal", "public", "private"}
  BY DEF IInv, TypeOK, Keygen, Places, imageVars, WritesPayload
<1>2. CASE JudgeNames
  <2>1. /\ UNCHANGED <<writing, command>> /\ HandlerType' /\ Stage'
        /\ pc \in {"write", "public", "private", "fill", "done", "crashed"} =>
               pc' \in {"write", "public", "private", "fill", "done", "crashed"} /\ ~Refused'
    BY <1>1, <1>2 DEF JudgeNames, Step, Return, HandlerType, Results, Refused, Refusals, Stage, At, WritesPayload, folderVars, imageVars, Leave
  <2> QED
    BY <1>1, <1>2, <2>1, QuietHolds DEF JudgeNames
<1>3. CASE ReadPassphrase
  <2>1. /\ UNCHANGED <<writing, command>> /\ HandlerType' /\ Stage'
        /\ pc \in {"write", "public", "private", "fill", "done", "crashed"} =>
               pc' \in {"write", "public", "private", "fill", "done", "crashed"} /\ ~Refused'
    BY <1>1, <1>3 DEF ReadPassphrase, Step, Return, HandlerType, Results, Refused, Refusals, Stage, At, WritesPayload, folderVars, imageVars, Leave
  <2> QED
    BY <1>1, <1>3, <2>1, QuietHolds DEF ReadPassphrase
<1>4. CASE Generate
  <2>1. /\ UNCHANGED <<writing, command>> /\ HandlerType' /\ Stage'
        /\ pc \in {"write", "public", "private", "fill", "done", "crashed"} =>
               pc' \in {"write", "public", "private", "fill", "done", "crashed"} /\ ~Refused'
    BY <1>1, <1>4 DEF Generate, Step, Return, HandlerType, Results, Refused, Refusals, Stage, At, WritesPayload, folderVars, imageVars, Leave
  <2> QED
    BY <1>1, <1>4, <2>1, QuietHolds DEF Generate
<1>5. CASE PrivateDone
  <2>1. /\ UNCHANGED <<writing, command>> /\ HandlerType' /\ Stage'
        /\ pc \in {"write", "public", "private", "fill", "done", "crashed"} =>
               pc' \in {"write", "public", "private", "fill", "done", "crashed"} /\ ~Refused'
    BY <1>1, <1>5 DEF PrivateDone, Step, Return, HandlerType, Results, Refused, Refusals, Stage, At, WritesPayload, folderVars, imageVars, Leave
  <2> QED
    BY <1>1, <1>5, <2>1, QuietHolds DEF PrivateDone
<1>6. CASE Seal
  <2>1. CASE pc' = "done"
    <3>1. UNCHANGED <<folderVars, writing, command>> /\ HandlerType' /\ Stage' /\ pc = "seal"
      BY <1>1, <1>6, <2>1 DEF Seal, Step, Return, HandlerType, Results, Refused, Refusals, Stage, At, WritesPayload, folderVars, imageVars, Leave
    <3> QED
      BY <1>1, <2>1, <3>1, QuietHolds
  <2>2. CASE pc' # "done"
    <3>1. /\ UNCHANGED <<folderVars, command>> /\ pc' = "public" /\ At("idle")
          /\ WritePayloadFile(Public, "public", command.force)
      BY <1>1, <1>6, <2>2 DEF Seal, Step, Leave, Return, Stage
    <3>2. HandlerType'
      BY <1>1, <1>6, <2>2 DEF Seal, Step, Leave, Return, HandlerType, folderVars
    <3>3. Public \in Paths /\ "public" \in Contents
      OBVIOUS
    <3> QED
      BY <1>1, <3>1, <3>2, <3>3, CallHolds
  <2> QED
    BY <2>1, <2>2
<1>7. CASE PublicDone
  <2>1. CASE pc' = "done"
    <3>1. UNCHANGED <<folderVars, writing, command>> /\ HandlerType' /\ Stage' /\ ~Refused'
      BY <1>1, <1>7, <2>1 DEF PublicDone, Step, Return, HandlerType, Results, Refused, Refusals, Stage, At, WritesPayload, folderVars, imageVars, Leave
    <3> QED
      BY <1>1, <2>1, <3>1, QuietHolds
  <2>2. CASE pc' # "done"
    <3>1. /\ UNCHANGED <<folderVars, command>> /\ pc' = "private" /\ At("written")
          /\ WritePayloadFile(Private, "private", command.force)
      BY <1>1, <1>7, <2>2 DEF PublicDone, Step, Leave, Return, Stage
    <3>2. HandlerType'
      BY <1>1, <1>7, <2>2 DEF PublicDone, Step, Leave, Return, HandlerType, folderVars
    <3>3. Private \in Paths /\ "private" \in Contents
      OBVIOUS
    <3> QED
      BY <1>1, <3>1, <3>2, <3>3, CallHolds
  <2> QED
    BY <2>1, <2>2
<1>8. CASE WriteHalf
  <2>1. Writes /\ WriteSteps /\ UNCHANGED <<command, pc, result, payload, held, imageVars>>
    BY <1>1, <1>8 DEF WriteHalf, Writes, imageVars
  <2> QED
    BY <1>1, <2>1, OpenHolds, FillHolds, SyncHolds, RemoveHolds DEF WriteSteps
<1> QED
  BY <1>2, <1>3, <1>4, <1>5, <1>6, <1>7, <1>8 DEF Keygen, KeygenStep

\* The image is written by a handle of its own: the call stays idle.
LEMMA ImageFileHolds ==
    ASSUME IInv, ~WritesPayload, UNCHANGED <<writing, command>>,
           FolderType', Len(files) <= Len(files'), HandlerType', Stage',
           pc' = "fill" \/ (pc' = "done" /\ ~Refused')
    PROVE  IInv'
<1>1. TypeOK /\ Stage /\ Handle /\ writing.at = "idle" /\ writing.file = 0
  BY DEF IInv, Stage, Handle, At
<1>2. WritingType'
  <2>1. 0 \in 0 .. Len(files')
    <3>1. Len(files') \in Nat
      BY DEF FolderType
    <3> QED
      BY <3>1
  <2>2. writing \in [at : {"idle", "open", "write", "sync", "remove", "written", "exists", "io"},
               path : Paths, file : 0 .. Len(files'),
               data : Contents \cup {"fragment"}, force : BOOLEAN, stuck : BOOLEAN]
    BY <1>1, <2>1 DEF TypeOK, WritingType
  <2> QED
    BY <2>2 DEF WritingType
<1>3. Handle' /\ Fragments' /\ Untouched' /\ Spared'
  BY <1>1 DEF Handle, At, Fragments, WritesPayload, Untouched, Spared, Refused
<1> QED
  BY <1>1, <1>2, <1>3 DEF IInv, TypeOK

LEMMA ImagingHolds ==
    ASSUME IInv, Imaging
    PROVE  IInv'
<1>1. /\ IInv /\ HandlerType /\ Stage /\ FolderType /\ UNCHANGED <<payload, held>>
      /\ command.name \in {"embed", "generate"} /\ ~WritesPayload
      /\ Places[command.name] = {"image", "destination", "open", "password", "read",
                                 "pipeline", "create", "fill"}
  BY DEF IInv, TypeOK, Imaging, Places, WritesPayload
<1>2. /\ names[Input] \in -1 .. Len(files) /\ Len(files) \in Nat
  BY <1>1 DEF FolderType, Directory
<1>3. CASE JudgeImage
  <2>1. /\ UNCHANGED <<folderVars, writing, command, handle, source, plaintext, image>>
        /\ pc \notin {"write", "public", "private", "fill", "done", "crashed"}
        /\ \/ pc' \in {"destination"} /\ result' = result
           \/ pc' = "done" /\ result' = "image"
        /\ pc' = "read" => pc = "password"
    BY <1>1, <1>3 DEF JudgeImage, Step, Return, imageVars, AfterPassword
  <2>2. UNCHANGED files
    BY <2>1 DEF folderVars
  <2>3. HandlerType'
    BY <1>1, <2>1, <2>2 DEF HandlerType, Results
  <2>4. Stage'
    BY <1>1, <2>1 DEF Stage, At, WritesPayload
  <2> QED
    BY <1>1, <2>1, <2>3, <2>4, QuietHolds
<1>4. CASE JudgeDestination
  <2>1. /\ UNCHANGED <<folderVars, writing, command, handle, source, plaintext, image>>
        /\ pc \notin {"write", "public", "private", "fill", "done", "crashed"}
        /\ \/ pc' \in {"open"} /\ result' = result
           \/ pc' = "done" /\ result' = "destination"
        /\ pc' = "read" => pc = "password"
    BY <1>1, <1>4 DEF JudgeDestination, Step, Return, imageVars, AfterPassword
  <2>2. UNCHANGED files
    BY <2>1 DEF folderVars
  <2>3. HandlerType'
    BY <1>1, <2>1, <2>2 DEF HandlerType, Results
  <2>4. Stage'
    BY <1>1, <2>1 DEF Stage, At, WritesPayload
  <2> QED
    BY <1>1, <2>1, <2>3, <2>4, QuietHolds
<1>5. CASE ReadPassword
  <2>1. /\ UNCHANGED <<folderVars, writing, command, handle, source, plaintext, image>>
        /\ pc \notin {"write", "public", "private", "fill", "done", "crashed"}
        /\ \/ pc' \in {"read", "pipeline"} /\ result' = result
           \/ pc' = "done" /\ result' = "password"
        /\ pc' = "read" => pc = "password"
    BY <1>1, <1>5 DEF ReadPassword, Step, Return, imageVars, AfterPassword
  <2>2. UNCHANGED files
    BY <2>1 DEF folderVars
  <2>3. HandlerType'
    BY <1>1, <2>1, <2>2 DEF HandlerType, Results
  <2>4. Stage'
    BY <1>1, <2>1 DEF Stage, At, WritesPayload
  <2> QED
    BY <1>1, <2>1, <2>3, <2>4, QuietHolds
<1>6. CASE RunPipeline
  <2>1. /\ UNCHANGED <<folderVars, writing, command, handle, source, plaintext, image>>
        /\ pc \notin {"write", "public", "private", "fill", "done", "crashed"}
        /\ \/ pc' \in {"create"} /\ result' = result
           \/ pc' = "done" /\ result' = "pipeline"
        /\ pc' = "read" => pc = "password"
    BY <1>1, <1>6 DEF RunPipeline, Step, Return, imageVars, AfterPassword
  <2>2. UNCHANGED files
    BY <2>1 DEF folderVars
  <2>3. HandlerType'
    BY <1>1, <2>1, <2>2 DEF HandlerType, Results
  <2>4. Stage'
    BY <1>1, <2>1 DEF Stage, At, WritesPayload
  <2> QED
    BY <1>1, <2>1, <2>3, <2>4, QuietHolds
<1>7. CASE OpenInput
  <2>1. IsFile(Input) => names[Input] \in 0 .. Len(files)
    BY <1>2 DEF IsFile
  <2>2. /\ UNCHANGED <<folderVars, writing, command, source, plaintext, image>> /\ pc = "open"
        /\ handle' \in 0 .. Len(files)
        /\ \/ pc' \in {"password", "read"} /\ result' = result
           \/ pc' = "done" /\ result' = "payload"
        /\ pc' # "done" /\ command.from = "file" => handle' # 0
    BY <1>1, <1>7, <2>1 DEF OpenInput, Step, Return, AfterOpen, HandlerType, IsFile
  <2>3. UNCHANGED files
    BY <2>2 DEF folderVars
  <2>4. HandlerType'
    BY <1>1, <2>2, <2>3 DEF HandlerType, Results
  <2>5. Stage'
    BY <1>1, <2>2 DEF Stage, At, WritesPayload
  <2> QED
    BY <1>1, <2>2, <2>4, <2>5, QuietHolds
<1>8. CASE ReadPayload
  <2>1. /\ UNCHANGED <<folderVars, writing, command, handle, image>> /\ pc = "read"
        /\ ReadFrom(handle) \/ ReadFails
    BY <1>8 DEF ReadPayload, ReadFrom, ReadFails
  <2>2. AllForeign
    BY <1>1, <2>1 DEF IInv, Untouched
  <2>3. Readable(handle) \subseteq Foreign
    <3>1. CASE command.from = "file"
      <4>1. handle \in 1 .. Len(files)
        BY <1>1, <1>2, <2>1, <3>1 DEF HandlerType, Stage
      <4> QED
        BY <2>2, <3>1, <4>1 DEF AllForeign, Readable
    <3>2. CASE command.from # "file"
      BY <3>2 DEF Readable
    <3> QED
      BY <3>1, <3>2
  <2>4. \/ UNCHANGED <<source, plaintext>> /\ pc' = "done" /\ result' \in {"payload", "empty"}
        \/ /\ plaintext' \in Foreign /\ source' = handle /\ result' = result
           /\ pc' = AfterRead
    BY <2>1, <2>3 DEF ReadFrom, ReadFails, Return, Step
  <2>5. pc' \in {"pipeline", "password", "done"} /\ (pc' = "password" => pc = "read")
    BY <2>1, <2>4 DEF AfterRead
  <2>6. UNCHANGED files
    BY <2>1 DEF folderVars
  <2>7. HandlerType'
    BY <1>1, <2>1, <2>4, <2>5, <2>6 DEF HandlerType, Results, AfterRead
  <2>8. Stage'
    BY <1>1, <2>1, <2>5 DEF Stage, At, WritesPayload
  <2> QED
    BY <1>1, <2>1, <2>7, <2>8, QuietHolds
<1>9. CASE CreateImage
  <2>1. CASE pc' = "done"
    <3>1. /\ UNCHANGED <<folderVars, writing, command>> /\ HandlerType' /\ Stage' /\ pc = "create"
      BY <1>1, <1>9, <2>1 DEF CreateImage, Step, Return, HandlerType, Results, Stage, At, WritesPayload, folderVars
    <3> QED
      BY <1>1, <3>1, QuietHolds
  <2>2. CASE pc' # "done"
    <3>1. /\ pc = "create" /\ pc' = "fill" /\ result' = result /\ CreateTruncated(Output)
          /\ image' = names'[Output] /\ UNCHANGED <<writing, command, handle, source, plaintext>>
      BY <1>9, <2>2 DEF CreateImage, Step, Return
    <3>2. FolderType' /\ Len(files) <= Len(files') /\ names'[Output] \in 1 .. Len(files')
      <4>1. CASE CreateNew(Output)
        <5>1. /\ FolderType' /\ Len(files') = Len(files) + 1
              /\ names' = [names EXCEPT ![Output] = Len(files) + 1]
          BY <1>1, <4>1, BindKeeps DEF CreateNew
        <5>2. names'[Output] = Len(files) + 1
          BY <1>1, <5>1 DEF FolderType
        <5> QED
          BY <1>2, <5>1, <5>2
      <4>2. CASE ~CreateNew(Output)
        <5>1. /\ IsFile(Output) /\ UNCHANGED names
              /\ files' = [files EXCEPT ![names[Output]].data = "fragment"]
          BY <3>1, <4>2 DEF CreateTruncated
        <5>2. names[Output] \in 1 .. Len(files)
          BY <1>1, <1>2, <5>1 DEF IsFile, FolderType, Directory
        <5>3. FolderType' /\ Len(files') = Len(files)
          BY <1>1, <5>1, <5>2, FillKeeps
        <5> QED
          BY <1>2, <5>1, <5>2, <5>3
      <4> QED
        BY <4>1, <4>2
    <3>3. \A x \in 0 .. Len(files) : x \in 0 .. Len(files')
      BY <1>2, <3>2 DEF FolderType
    <3>4. HandlerType'
      <4>1. image' \in 0 .. Len(files')
        BY <3>1, <3>2
      <4> QED
        BY <1>1, <3>1, <3>3, <4>1 DEF HandlerType
    <3>5. Stage'
      <4>1. image' # 0
        BY <3>1, <3>2
      <4> QED
        BY <1>1, <3>1, <4>1 DEF Stage, At, WritesPayload
    <3> QED
      BY <1>1, <3>1, <3>2, <3>4, <3>5, ImageFileHolds
  <2> QED
    BY <2>1, <2>2
<1>10. CASE WriteImage
  <2>1. /\ pc = "fill" /\ pc' = "done" /\ result' \in {"ok", "output"}
        /\ UNCHANGED <<writing, command, imageVars>>
        /\ Fill(image, "image") \/ UNCHANGED folderVars
    BY <1>10 DEF WriteImage, Return
  <2>2. image \in 1 .. Len(files)
    BY <1>1, <1>2, <2>1 DEF HandlerType, Stage
  <2>3. FolderType' /\ Len(files') = Len(files)
    <3>1. CASE Fill(image, "image")
      BY <1>1, <2>2, <3>1, FillKeeps DEF Fill
    <3>2. CASE UNCHANGED folderVars
      BY <1>1, <3>2 DEF folderVars, FolderType, IsFile
    <3> QED
      BY <2>1, <3>1, <3>2
  <2>4. HandlerType'
    BY <1>1, <2>1, <2>3 DEF HandlerType, Results, imageVars
  <2>5. Stage' /\ ~Refused'
    BY <1>1, <2>1 DEF Stage, At, WritesPayload, Refused, Refusals
  <2>6. Len(files) <= Len(files')
    BY <1>2, <2>3
  <2> QED
    BY <1>1, <2>1, <2>3, <2>4, <2>5, <2>6, ImageFileHolds
<1> QED
  BY <1>3, <1>4, <1>5, <1>6, <1>7, <1>8, <1>9, <1>10 DEF Imaging, ImageStep

LEMMA CrashHolds ==
    ASSUME IInv, Crash
    PROVE  IInv'
<1>1. /\ HandlerType /\ Stage /\ pc' = "crashed" /\ pc # "done" /\ held' = {}
      /\ UNCHANGED <<folderVars, writing, command, result, payload, handle, source, plaintext, image>>
  BY DEF IInv, TypeOK, Crash, imageVars
<1>2. UNCHANGED files
  BY <1>1 DEF folderVars
<1>3. HandlerType' /\ Stage' /\ ~Refused'
  BY <1>1, <1>2 DEF HandlerType, Stage, At, WritesPayload, Refused
<1> QED
  BY <1>1, <1>3, QuietHolds

LEMMA InitHolds == Init => IInv
<1> SUFFICES ASSUME Init PROVE IInv
  OBVIOUS
<1>1. /\ files = [p \in 1 .. 1 |-> NewFile("others", CHOOSE d \in Foreign : TRUE)]
      /\ names \in [Paths -> {-1, 0, 1}]
      /\ \A p, q \in Paths : names[p] > 0 /\ names[q] > 0 => p = q
  BY DEF Init, FolderInit, Directory, Absent, IsFile
<1>2. (CHOOSE d \in Foreign : TRUE) \in Foreign
  OBVIOUS
<1> DEFINE File == [by : {"us", "others"}, data : Foreign \cup Contents \cup {"fragment"}]
<1>3. /\ files \in Seq(File) /\ Len(files) = 1
      /\ files[1].by = "others" /\ files[1].data \in Foreign
  <2>1. /\ files = <<NewFile("others", CHOOSE d \in Foreign : TRUE)>>
    BY <1>1
  <2>2. NewFile("others", CHOOSE d \in Foreign : TRUE) \in File
    BY <1>2 DEF NewFile
  <2> HIDE DEF File
  <2>3. /\ files \in Seq(File) /\ Len(files) = 1
        /\ files[1] = NewFile("others", CHOOSE d \in Foreign : TRUE)
    BY <2>1, <2>2
  <2> QED
    BY <1>2, <2>3 DEF NewFile
<1>4. names \in [Paths -> -1 .. Len(files)]
  BY <1>1, <1>3
<1>5. FolderType
  BY <1>1, <1>3, <1>4 DEF FolderType, IsFile, Directory
<1>6. writing = Idle /\ Idle.path \in Paths
  BY DEF Init, Idle
<1>7. /\ writing.at = "idle" /\ writing.file = 0 /\ writing.data = "fragment" /\ WritingType
  <2>1. 0 \in 0 .. Len(files)
    BY <1>3
  <2> QED
    BY <1>6, <2>1 DEF Idle, WritingType
<1>8. TypeOK /\ Stage /\ Handle
  <2>1. pc = First[command.name] /\ command.name \in {"extract", "keygen", "embed", "generate"}
    BY DEF Init, Arguments, ExtractArguments, KeygenArguments, ImageArguments
  <2>2. /\ pc \in {"load", "judge", "image"} /\ pc \in Places[command.name]
    BY <2>1 DEF First, Places
  <2>3. \A x : x = 0 => x \in 0 .. Len(files)
    BY <1>3
  <2>4. HandlerType
    BY <2>2, <2>3 DEF Init, HandlerType, Results
  <2> QED
    BY <1>5, <1>7, <2>2, <2>4 DEF Init, TypeOK, Stage, Handle, At
<1>9. \A f \in 1 .. Len(files) : files[f].data \in Foreign
  <2>1. \A f \in 1 .. Len(files) : f = 1
    BY <1>3, SMT
  <2> QED
    BY <1>3, <2>1
<1>10. Fragments
  BY <1>7, <1>9, SMT DEF Fragments
<1>11. Untouched /\ Spared
  <2>1. DOMAIN files = 1 .. Len(files)
    BY <1>3
  <2> QED
    BY <1>9, <2>1 DEF Untouched, AllForeign, Spared, Intact
<1> QED
  BY <1>8, <1>10, <1>11 DEF IInv

LEMMA StepHolds == IInv /\ [Next]_vars => IInv'
<1> SUFFICES ASSUME IInv, [Next]_vars PROVE IInv'
  OBVIOUS
<1>1. CASE UNCHANGED vars
  <2>1. UNCHANGED <<names, files, writing, command, pc, result, payload, held,
                    handle, source, plaintext, image>>
    BY <1>1 DEF vars, commandVars, imageVars, folderVars
  <2> QED
    BY <2>1 DEF IInv, TypeOK, FolderType, WritingType, HandlerType, IsFile, Stage, Handle,
                Fragments, Untouched, Refused, AllForeign, Spared, Intact,
                At, WritesPayload
<1>2. CASE Finished
  BY <1>1, <1>2 DEF Finished
<1> QED
  BY <1>1, <1>2, ExtractHolds, KeygenHolds, ImagingHolds, CrashHolds, ElsewhereHolds DEF Next

\* Where each file and each name can be at every statement of the commands.
THEOREM Invariant == Spec => []IInv
<1> QED
  BY InitHolds, StepHolds, PTL DEF Spec

\* The folder, the call and the handlers have the shapes they are given.
THEOREM TypeCorrect == Spec => []TypeOK
<1>1. IInv => TypeOK
  BY DEF IInv
<1> QED
  BY <1>1, Invariant, PTL

\* What a step of extract or keygen can be: others', one of the call in progress,
\* or one that leaves the folder alone.
LEMMA StepsAre ==
    ASSUME IInv, Next, WritesPayload
    PROVE  \/ Elsewhere
           \/ Writes /\ WriteSteps /\ UNCHANGED <<command, pc>>
           \/ UNCHANGED <<folderVars, command>> /\ (UNCHANGED writing \/ writing'.at = "open")
<1>1. ASSUME NEW p, NEW data, NEW force, WritePayloadFile(p, data, force)
      PROVE  writing'.at = "open"
  BY <1>1 DEF WritePayloadFile, Idle
<1>2. CASE Extracting
  <2>1. CASE Write
    BY <2>1 DEF Write, Writes
  <2>2. CASE Deliver
    BY <1>1, <2>2 DEF Deliver
  <2>3. CASE Load \/ Check \/ ReadKey \/ Extract \/ Report \/ Show
    BY <2>3 DEF Load, Check, ReadKey, Extract, Report, Show
  <2> QED
    BY <1>2, <2>1, <2>2, <2>3 DEF Extracting, ExtractStep
<1>3. CASE Keygen
  <2>1. CASE WriteHalf
    BY <2>1 DEF WriteHalf, Writes
  <2>2. CASE Seal
    BY <1>1, <2>2 DEF Seal
  <2>3. CASE PublicDone
    BY <1>1, <2>3 DEF PublicDone
  <2>4. CASE JudgeNames \/ ReadPassphrase \/ Generate \/ PrivateDone
    BY <2>4 DEF JudgeNames, ReadPassphrase, Generate, PrivateDone
  <2> QED
    BY <1>3, <2>1, <2>2, <2>3, <2>4 DEF Keygen, KeygenStep
<1>4. CASE Imaging
  BY <1>4 DEF Imaging, WritesPayload
<1>5. CASE Crash \/ Finished
  BY <1>5 DEF Crash, Finished, vars, commandVars
<1> QED
  BY <1>2, <1>3, <1>4, <1>5 DEF Next

\* Without --force the file behind the handle is the command's own, and its path
\* leads to it, to nothing, or to a file that came later.
Holder ==
    WritesPayload /\ ~command.force /\ writing.at \in {"write", "sync", "remove"} =>
        /\ writing.file \in 1 .. Len(files) /\ files[writing.file].by = "us"
        /\ names[writing.path] <= 0 \/ names[writing.path] >= writing.file

LEMMA LaterStays ==
    ASSUME NEW n \in Nat, NEW m \in Nat, n <= m, NEW f \in 1 .. n, NEW a \in Int, NEW b \in Int,
           a <= 0 \/ a >= f, b = a \/ b > n \/ b <= 0
    PROVE  (b <= 0 \/ b >= f) /\ f \in 1 .. m
BY SMT

LEMMA HolderKept == IInv /\ Holder /\ [Next]_vars => Holder'
<1> SUFFICES ASSUME IInv, Holder, [Next]_vars, (WritesPayload /\ ~command.force)',
                    writing'.at \in {"write", "sync", "remove"}
             PROVE  /\ writing'.file \in 1 .. Len(files') /\ files'[writing'.file].by = "us"
                    /\ names'[writing'.path] <= 0 \/ names'[writing'.path] >= writing'.file
  BY DEF Holder
<1>1. /\ FolderType /\ WritingType /\ Len(files) \in Nat /\ writing.path \in Paths
      /\ names \in [Paths -> -1 .. Len(files)]
  BY DEF IInv, TypeOK, WritingType, FolderType, Directory
<1>2. UNCHANGED command /\ WritesPayload /\ ~command.force
  <2>1. Extracting => UNCHANGED command
    BY DEF Extracting, ExtractStep, Load, Check, ReadKey, Extract, Deliver, Write, Report, Show
  <2>2. Keygen => UNCHANGED command
    BY DEF Keygen, KeygenStep, JudgeNames, ReadPassphrase, Generate, Seal, WriteHalf, PublicDone,
                PrivateDone
  <2>3. Imaging => UNCHANGED command
    BY DEF Imaging, ImageStep, JudgeImage, JudgeDestination, OpenInput, ReadPassword, ReadPayload,
                RunPipeline, CreateImage, WriteImage
  <2>4. Crash \/ Elsewhere \/ Finished \/ UNCHANGED vars => UNCHANGED command
    BY DEF Crash, Elsewhere, Finished, vars, commandVars
  <2>5. UNCHANGED command
    BY <2>1, <2>2, <2>3, <2>4 DEF Next
  <2> QED
    BY <2>5 DEF WritesPayload
<1>3. ASSUME UNCHANGED <<folderVars, writing>>
      PROVE  /\ writing'.file \in 1 .. Len(files') /\ files'[writing'.file].by = "us"
             /\ names'[writing'.path] <= 0 \/ names'[writing'.path] >= writing'.file
  BY <1>2, <1>3 DEF Holder, folderVars
<1>4. CASE Elsewhere
  <2>1. Apart /\ UNCHANGED writing
    BY <1>1, <1>4, OthersApart DEF Elsewhere
  <2>2. /\ writing.file \in 1 .. Len(files) /\ files[writing.file].by = "us"
        /\ names[writing.path] <= 0 \/ names[writing.path] >= writing.file
    BY <1>2, <2>1 DEF Holder
  <2>3. /\ Len(files') \in Nat /\ Len(files) <= Len(files')
        /\ files'[writing.file].by = files[writing.file].by
        /\ \/ names'[writing.path] = names[writing.path]
           \/ names'[writing.path] > Len(files) \/ names'[writing.path] <= 0
        /\ names' \in [Paths -> -1 .. Len(files')]
    BY <1>1, <2>1, <2>2 DEF Apart, FolderType, Directory
  <2>4. names[writing.path] \in Int /\ names'[writing.path] \in Int
    BY <1>1, <2>3
  <2>5. /\ names'[writing.path] <= 0 \/ names'[writing.path] >= writing.file
        /\ writing.file \in 1 .. Len(files')
    BY <1>1, <2>2, <2>3, <2>4, LaterStays
  <2>7. files'[writing.file].by = "us"
    BY <2>2, <2>3
  <2> QED
    BY <2>1, <2>5, <2>7
<1>5. CASE Writes /\ WriteSteps
  <2>1. writing.force = command.force
    BY <1>5, WritesHere
  <2>2. ASSUME NEW to, Move(to)
        PROVE  /\ writing'.at = to /\ writing'.file = writing.file /\ writing'.path = writing.path
    BY <1>1, <2>2 DEF Move, WritingType
  <2>3. CASE OpenPayload
    <3>1. CreateNew(writing.path) /\ Opened
      BY <1>2, <2>1, <2>2, <2>3 DEF OpenPayload
    <3>2. /\ Len(files') = Len(files) + 1
          /\ files'[Len(files) + 1] = [by |-> "us", data |-> "fragment"]
          /\ names' = [names EXCEPT ![writing.path] = Len(files) + 1]
      BY <1>1, <3>1, BindKeeps DEF CreateNew
    <3>3. names'[writing.path] = Len(files) + 1
      BY <1>1, <3>2
    <3>4. writing'.file = Len(files) + 1 /\ writing'.path = writing.path
      BY <1>1, <3>1, <3>3 DEF Opened, WritingType
    <3> QED
      BY <1>1, <3>2, <3>3, <3>4
  <2>4. CASE FillPayload
    <3>1. /\ writing.file \in 1 .. Len(files) /\ files[writing.file].by = "us"
          /\ names[writing.path] <= 0 \/ names[writing.path] >= writing.file
      BY <1>2, <2>4 DEF Holder, FillPayload, At
    <3>2. UNCHANGED names /\ writing'.file = writing.file /\ writing'.path = writing.path
      BY <2>2, <2>4 DEF FillPayload, Fill, folderVars
    <3>3. CASE Fill(writing.file, writing.data)
      <4>1. /\ Len(files') = Len(files) /\ writing.data \in Contents \cup {"fragment"}
            /\ files'[writing.file] = [by |-> files[writing.file].by, data |-> writing.data]
        BY <1>1, <3>1, <3>3, FillKeeps DEF Fill, WritingType
      <4> QED
        BY <3>1, <3>2, <4>1
    <3>4. CASE UNCHANGED folderVars
      BY <3>1, <3>2, <3>4 DEF folderVars
    <3> QED
      BY <2>4, <3>3, <3>4 DEF FillPayload
  <2>5. CASE SyncPayload
    <3>1. /\ UNCHANGED <<names, files>> /\ writing.at = "sync"
          /\ writing'.file = writing.file /\ writing'.path = writing.path
      BY <2>2, <2>5 DEF SyncPayload, folderVars, At
    <3> QED
      BY <1>2, <3>1 DEF Holder
  <2>6. CASE RemovePartial
    BY <1>1, <2>6 DEF RemovePartial, Move, WritingType
  <2> QED
    BY <1>5, <2>3, <2>4, <2>5, <2>6 DEF WriteSteps
<1>6. CASE UNCHANGED vars
  BY <1>3, <1>6 DEF vars, commandVars
<1> QED
  BY <1>2, <1>3, <1>4, <1>5, <1>6, StepsAre

\* Without --force run_extract and run_keygen take from others neither content nor
\* name, whenever their file appears and under whichever name, but for the file
\* that was put in the place of their own before they removed it.
THEOREM OthersKeepTheirFiles == Spec => NothingReplacedUnasked
<1> DEFINE Kept(f) ==
      /\ files'[f] = files[f]
      /\ \A p \in Paths : names[p] = f /\ names'[p] # f => PutInPlaceOfOurs(f, p)
    Unasked == WritesPayload /\ ~command.force /\ Ours
    Sparing == Unasked => \A f \in DOMAIN files : files[f].by = "others" => Kept(f)
<1>1. IInv /\ Holder /\ [Next]_vars => [Sparing]_vars
  <2> SUFFICES ASSUME IInv, Holder, Next, Unasked, NEW f \in DOMAIN files, files[f].by = "others"
               PROVE  Kept(f)
    OBVIOUS
  <2>1. /\ FolderType /\ WritingType /\ Len(files) \in Nat /\ writing.path \in Paths
        /\ names \in [Paths -> -1 .. Len(files)] /\ f \in 1 .. Len(files)
    BY DEF IInv, TypeOK, WritingType, FolderType, Directory
  <2>2. CASE UNCHANGED folderVars
    BY <2>2 DEF folderVars
  <2>3. CASE Elsewhere
    BY <2>3 DEF Elsewhere, Ours
  <2>4. CASE Writes /\ WriteSteps
    <3>1. writing.force = command.force
      BY <2>4, WritesHere
    <3>2. CASE CreateNew(writing.path)
      <4>1. /\ \A g \in 1 .. Len(files) : files'[g] = files[g]
            /\ names' = [names EXCEPT ![writing.path] = Len(files) + 1]
        BY <2>1, <3>2, BindKeeps DEF CreateNew
      <4>2. names[writing.path] = 0
        BY <3>2 DEF CreateNew, Exists, Absent
      <4>3. \A p \in Paths : p # writing.path => names'[p] = names[p]
        BY <2>1, <4>1
      <4> QED
        BY <2>1, <4>1, <4>2, <4>3
    <3>3. CASE At("write") /\ Fill(writing.file, writing.data)
      <4>1. writing.file \in 1 .. Len(files) /\ files[writing.file].by = "us"
        BY <3>3 DEF Holder, At
      <4>2. f # writing.file /\ UNCHANGED names /\ writing.data \in Contents \cup {"fragment"}
        BY <2>1, <3>3, <4>1 DEF Fill, WritingType
      <4>3. files'[f] = files[f]
        BY <2>1, <3>3, <4>1, <4>2, FillKeeps DEF Fill
      <4> QED
        BY <4>2, <4>3
    <3>4. CASE At("remove") /\ RemoveFile(writing.path)
      <4>1. UNCHANGED files /\ \A p \in Paths : names'[p] # names[p] => p = writing.path
        BY <2>1, <3>4 DEF RemoveFile
      <4>2. /\ writing.file \in 1 .. Len(files) /\ files[writing.file].by = "us"
            /\ names[writing.path] <= 0 \/ names[writing.path] >= writing.file
        BY <3>4 DEF Holder, At
      <4>3. names[writing.path] = f => f > writing.file
        BY <2>1, <4>2
      <4> QED
        BY <3>4, <4>1, <4>2, <4>3 DEF PutInPlaceOfOurs
    <3> QED
      BY <2>2, <2>4, <3>1, <3>2, <3>3, <3>4 DEF WriteSteps, OpenPayload, FillPayload, SyncPayload,
         RemovePartial
  <2> QED
    BY <2>2, <2>3, <2>4, StepsAre
<1>2. Init => Holder
  BY DEF Init, Idle, Holder
<1>3. Spec => []Holder
  BY <1>2, HolderKept, Invariant, PTL DEF Spec
<1> QED
  BY <1>1, <1>3, Invariant, PTL DEF Spec, NothingReplacedUnasked

\* A refusal of any of the four commands has cost nobody a file.
THEOREM RefusalsAreFree == Spec => []RefusalsCostNothing
<1>1. IInv => RefusalsCostNothing
  <2> SUFFICES ASSUME IInv, result \in Refusals PROVE Intact
    BY DEF RefusalsCostNothing
  <2>1. TypeOK /\ HandlerType /\ FolderType /\ Untouched
    BY DEF IInv, TypeOK
  <2>2. Refused
    BY <2>1 DEF HandlerType, Refused, Refusals
  <2>3. DOMAIN files = 1 .. Len(files)
    BY <2>1 DEF FolderType
  <2> QED
    BY <2>1, <2>2, <2>3 DEF Untouched, AllForeign, Intact
<1> QED
  BY <1>1, Invariant, PTL

\* A write that failed leaves no named fragment of a plaintext or of a key,
\* unless the removal was refused.
THEOREM FragmentsGo == Spec => []NoFragmentLeft
<1>1. IInv => NoFragmentLeft
  <2> SUFFICES ASSUME IInv, WritesPayload, pc = "done", ~writing.stuck,
                      NEW p \in Paths, IsFile(p), files[names[p]].data = "fragment"
               PROVE  FALSE
    BY DEF NoFragmentLeft
  <2>1. /\ TypeOK /\ Stage /\ Fragments /\ FolderType
    BY DEF IInv, TypeOK
  <2>2. names[p] \in 1 .. Len(files)
    <3>1. names \in [Paths -> -1 .. Len(files)] /\ Len(files) \in Nat
      BY <2>1 DEF FolderType, Directory
    <3> QED
      BY <3>1 DEF IsFile
  <2>3. names[p] = writing.file /\ writing.at \in {"write", "remove", "io"}
    BY <2>1, <2>2 DEF Fragments
  <2>4. writing.at = "io" /\ writing.file > 0
    BY <2>1, <2>2, <2>3 DEF Stage
  <2> QED
    BY <2>1, <2>3, <2>4 DEF Fragments, At
<1> QED
  BY <1>1, Invariant, PTL

\* When extract ends in silence, the file it has written is whole.
THEOREM SilenceTold == Spec => []SilenceIsDelivered
<1>1. IInv => SilenceIsDelivered
  <2> SUFFICES ASSUME IInv, command.name = "extract", result = "nothing", command.to = "file"
               PROVE  Written("plaintext")
    BY DEF SilenceIsDelivered
  <2>1. At("written") /\ writing.data = "plaintext"
    <3>1. pc = "done"
      BY DEF IInv, TypeOK, HandlerType
    <3> QED
      BY <3>1 DEF IInv, Stage
  <2>2. writing.file \in 1 .. Len(files) /\ files[writing.file].data = "plaintext"
    BY <2>1 DEF IInv, Handle, At
  <2>3. DOMAIN files = 1 .. Len(files)
    BY DEF IInv, TypeOK, FolderType
  <2> QED
    BY <2>2, <2>3 DEF Written
<1> QED
  BY <1>1, Invariant, PTL

\* Once extract has read a key, every failure is told in the one sentence.
THEOREM OneSentenceOnly == Spec => OneSentence
<1> DEFINE Told ==
      (pc \in {"extract", "deliver", "write"} /\ pc' = "done") =>
          \/ result' = "EXTRACTION_FAILED"
          \/ payload' # "none" /\ result' \in {"nothing", "binary_notice"}
<1>1. IInv /\ [Next]_vars => [Told]_vars
  <2> SUFFICES ASSUME IInv, Next, pc \in {"extract", "deliver", "write"}, pc' = "done"
               PROVE  Told
    OBVIOUS
  <2>1. /\ pc \in {"deliver", "write"} => payload # "none"
        /\ pc \in Places[command.name] /\ command \in Arguments
    BY DEF IInv, Stage, TypeOK, HandlerType
  <2>2. command.name = "extract"
    BY <2>1 DEF Arguments, ExtractArguments, KeygenArguments, ImageArguments, Places
  <2>3. ExtractStep
    BY <2>2 DEF Next, Extracting, Keygen, Imaging, Crash, Elsewhere, Finished, vars, commandVars
  <2>4. Extract \/ Report \/ Show
    BY <2>3 DEF ExtractStep, Load, Check, ReadKey, Deliver, Write, Step
  <2>5. CASE Extract
    BY <2>5 DEF Extract, Return, Step
  <2>6. CASE Report
    BY <2>1, <2>6 DEF Report, Return
  <2>7. CASE Show
    BY <2>1, <2>7 DEF Show, Return
  <2> QED
    BY <2>4, <2>5, <2>6, <2>7
<1> QED
  BY <1>1, Invariant, PTL DEF Spec, OneSentence
-----------------------------------------------------------------------------
(* The pair, the image, the payload and the identity: what the first part  *)
(* does not say, by a second invariant on top of it.                       *)

\* A whole public half in a file the second write does not reach: it has
\* another file open, and no name but the one of the public half leads here.
Kept ==
    \E f \in 1 .. Len(files) :
        /\ files[f].data = "public" /\ f # writing.file
        /\ \A p \in Paths : names[p] = f => p = Public

PairKept ==
    Public # Private =>
        /\ pc = "public" => writing.data = "public" /\ writing.path = Public
        /\ pc = "private" => Kept /\ writing.data = "private" /\ writing.path = Private
        /\ PairIsWritten

Brief == "identity" \in held => pc = "seal"

ReadOnce == source \in {0, handle} /\ (pc \in {"image", "destination", "open"} => source = 0)

LInv == PairKept /\ ImageIsWritten /\ Brief /\ ReadOnce

LEMMA FilesDomain == ASSUME FolderType PROVE DOMAIN files = 1 .. Len(files)
  BY DEF FolderType

\* What has been written is not the others' to rewrite.
LEMMA WrittenStays ==
    ASSUME FolderType, Apart, NEW data, data \notin Foreign, Written(data)
    PROVE  Written(data)'
<1>1. PICK f \in 1 .. Len(files) : files[f].data = data
  BY FilesDomain DEF Written
<1>2. f \in 1 .. Len(files') /\ files'[f] = files[f]
  BY <1>1 DEF Apart
<1>3. DOMAIN files' = 1 .. Len(files')
  BY DEF Apart, FolderType
<1> QED
  BY <1>1, <1>2, <1>3 DEF Written

\* A call of write_payload_file spares every file it has not opened and that
\* is not to be found under its path.
LEMMA CallSpares ==
    ASSUME IInv, Writes, WriteSteps, NEW f \in 1 .. Len(files), f # writing.file,
           names[writing.path] # f
    PROVE  /\ f \in 1 .. Len(files') /\ files'[f] = files[f] /\ f # writing'.file
           /\ \A p \in Paths : names'[p] = f => names[p] = f
           /\ writing'.path = writing.path /\ writing'.data = writing.data
<1>1. /\ FolderType /\ WritingType /\ Handle /\ writing.path \in Paths
      /\ Len(files) \in Nat /\ names \in [Paths -> -1 .. Len(files)]
  BY DEF IInv, TypeOK, WritingType, FolderType, Directory
<1>2. ASSUME NEW to, Move(to), UNCHANGED files PROVE
        /\ f \in 1 .. Len(files') /\ files'[f] = files[f] /\ f # writing'.file
        /\ writing'.path = writing.path /\ writing'.data = writing.data
  BY <1>1, <1>2 DEF Move, WritingType
<1>3. CASE OpenPayload
  <2>1. CASE CreateNew(writing.path) /\ Opened
    <3>1. /\ Len(files') = Len(files) + 1 /\ files'[f] = files[f]
          /\ names' = [names EXCEPT ![writing.path] = Len(files) + 1]
      BY <1>1, <2>1, BindKeeps DEF CreateNew
    <3>2. /\ \A p \in Paths : names'[p] = IF p = writing.path THEN Len(files) + 1 ELSE names[p]
          /\ f # Len(files) + 1 /\ f \in 1 .. Len(files')
      BY <1>1, <3>1
    <3>3. /\ writing'.file = Len(files) + 1
          /\ writing'.path = writing.path /\ writing'.data = writing.data
      BY <1>1, <2>1, <3>2 DEF Opened, WritingType
    <3> QED
      BY <3>1, <3>2, <3>3
  <2>2. CASE /\ IsFile(writing.path) /\ Opened /\ UNCHANGED names
             /\ files' = [files EXCEPT ![names[writing.path]].data = "fragment"]
    <3>1. names[writing.path] \in 1 .. Len(files)
      BY <1>1, <2>2 DEF IsFile
    <3>2. Len(files') = Len(files) /\ files'[f] = files[f]
      BY <1>1, <2>2, <3>1, FillKeeps
    <3>3. /\ writing'.file = names[writing.path]
          /\ writing'.path = writing.path /\ writing'.data = writing.data
      BY <1>1, <2>2 DEF Opened, WritingType
    <3> QED
      BY <2>2, <3>2, <3>3
  <2>3. CASE UNCHANGED folderVars /\ (Move("exists") \/ Move("io"))
    BY <1>2, <2>3 DEF folderVars
  <2> QED
    BY <1>3, <2>1, <2>2, <2>3 DEF OpenPayload, CreateTruncated
<1>4. CASE FillPayload
  <2>1. CASE Fill(writing.file, writing.data) /\ Move("sync")
    <3>1. writing.file \in 1 .. Len(files) /\ writing.data \in Contents \cup {"fragment"}
      BY <1>1, <1>4 DEF FillPayload, Handle, At, WritingType
    <3>2. Len(files') = Len(files) /\ files'[f] = files[f] /\ UNCHANGED names
      BY <1>1, <2>1, <3>1, FillKeeps DEF Fill
    <3>3. writing'.file = writing.file /\ writing'.path = writing.path
          /\ writing'.data = writing.data
      BY <1>1, <2>1 DEF Move, WritingType
    <3> QED
      BY <3>2, <3>3
  <2>2. CASE Move("remove") /\ UNCHANGED folderVars
    BY <1>2, <2>2 DEF folderVars
  <2> QED
    BY <1>4, <2>1, <2>2 DEF FillPayload
<1>5. CASE SyncPayload
  BY <1>2, <1>5 DEF SyncPayload, folderVars
<1>6. CASE RemovePartial
  <2>1. UNCHANGED files /\ \A p \in Paths : names'[p] = names[p] \/ names'[p] = 0
    BY <1>1, <1>6 DEF RemovePartial, RemoveFile, folderVars, Absent
  <2>2. /\ writing'.file = writing.file /\ writing'.path = writing.path
        /\ writing'.data = writing.data
    BY <1>1, <1>6 DEF RemovePartial, Move, WritingType
  <2> QED
    BY <2>1, <2>2
<1> QED
  BY <1>3, <1>4, <1>5, <1>6 DEF WriteSteps

LEMMA ElsewhereKeeps ==
    ASSUME IInv, LInv, Elsewhere
    PROVE  LInv'
<1>1. /\ FolderType /\ PairKept /\ ImageIsWritten /\ Brief /\ ReadOnce
      /\ UNCHANGED <<writing, command, pc, result, payload, held, handle, source, plaintext, image>>
  BY DEF IInv, TypeOK, LInv, Elsewhere, imageVars
<1>2. Apart
  BY <1>1, OthersApart DEF Elsewhere
<1>3. \A data \in Contents : Written(data) => Written(data)'
  BY <1>1, <1>2, WrittenStays
<1>4. PairIsWritten => PairIsWritten'
  BY <1>1, <1>3 DEF PairIsWritten
<1>5. Kept => Kept'
  <2>1. ASSUME NEW f \in 1 .. Len(files), files[f].data = "public", f # writing.file,
               \A p \in Paths : names[p] = f => p = Public
        PROVE  Kept'
    <3>1. "public" \notin Foreign
      OBVIOUS
    <3>2. f \in 1 .. Len(files') /\ files'[f] = files[f]
      BY <1>2, <2>1, <3>1 DEF Apart
    <3>3. \A p \in Paths : names'[p] = f => names[p] = f
      BY <1>2, <2>1 DEF Apart
    <3> QED
      BY <1>1, <2>1, <3>2, <3>3 DEF Kept
  <2> QED
    BY <2>1 DEF Kept
<1>6. ImageIsWritten'
  BY <1>1, <1>3 DEF ImageIsWritten
<1> QED
  BY <1>1, <1>4, <1>5, <1>6 DEF LInv, PairKept, Brief, ReadOnce

\* The commands that make no pair have none to keep and no identity.
LEMMA NoPair ==
    ASSUME IInv, IInv', LInv, command.name # "keygen", UNCHANGED command
    PROVE  PairKept' /\ "identity" \notin held
<1>1. pc \in Places[command.name] \cup {"done", "crashed"}
      /\ pc' \in Places[command.name] \cup {"done", "crashed"} /\ command \in Arguments
  BY DEF IInv, TypeOK, HandlerType
<1>2. pc \notin {"seal", "public", "private"} /\ pc' \notin {"public", "private"}
  BY <1>1 DEF Places, Arguments, ExtractArguments, KeygenArguments, ImageArguments
<1> QED
  BY <1>2 DEF LInv, PairKept, PairIsWritten, Brief

LEMMA ImagingKeeps ==
    ASSUME IInv, IInv', LInv, Imaging
    PROVE  LInv'
<1>1. /\ FolderType /\ FolderType' /\ HandlerType /\ Stage /\ ReadOnce /\ UNCHANGED held
      /\ command.name \in {"embed", "generate"} /\ Len(files) \in Nat
  BY DEF IInv, TypeOK, LInv, Imaging, FolderType
<1>2. UNCHANGED command
  BY DEF Imaging, ImageStep, JudgeImage, JudgeDestination, OpenInput, ReadPassword, ReadPayload,
         RunPipeline, CreateImage, WriteImage
<1>3. PairKept' /\ Brief'
  BY <1>1, <1>2, NoPair DEF Brief
<1>4. ReadOnce'
  BY <1>1 DEF Imaging, ImageStep, JudgeImage, JudgeDestination, OpenInput, ReadPassword, ReadPayload,
              RunPipeline, CreateImage, WriteImage, ReadOnce, ReadFrom, ReadFails, Step, Return,
              AfterOpen, AfterRead, AfterPassword, imageVars
<1>5. ImageIsWritten'
  <2>1. SUFFICES ASSUME result' = "ok" PROVE Written("image")'
    BY DEF ImageIsWritten
  <2>2. pc # "done" /\ result # "ok"
    BY <1>1 DEF HandlerType, Imaging, ImageStep, JudgeImage, JudgeDestination, OpenInput,
         ReadPassword, ReadPayload, ReadFrom, ReadFails, RunPipeline, CreateImage, WriteImage, Step
  <2>3. pc = "fill" /\ Fill(image, "image")
    BY <2>1, <2>2 DEF Imaging, ImageStep, JudgeImage, JudgeDestination, OpenInput, ReadPassword,
         ReadPayload, ReadFrom, ReadFails, RunPipeline, CreateImage, WriteImage, Step, Return
  <2>4. image \in 1 .. Len(files)
    BY <1>1, <2>3 DEF HandlerType, Stage
  <2>5. files'[image].data = "image" /\ image \in 1 .. Len(files')
    BY <1>1, <2>3, <2>4, FillKeeps DEF Fill
  <2> QED
    BY <1>1, <2>5 DEF Written, FolderType
<1> QED
  BY <1>3, <1>4, <1>5 DEF LInv

LEMMA ExtractingKeeps ==
    ASSUME IInv, IInv', LInv, Extracting
    PROVE  LInv'
<1>1. /\ command.name = "extract" /\ UNCHANGED <<held, handle, source>> /\ ReadOnce
      /\ pc' \in Places[command'.name] \cup {"done", "crashed"}
  BY DEF IInv, TypeOK, HandlerType, LInv, Extracting, imageVars
<1>2. UNCHANGED command
  BY DEF Extracting, ExtractStep, Load, Check, ReadKey, Extract, Deliver, Write, Report, Show
<1>3. PairKept' /\ Brief'
  BY <1>1, <1>2, NoPair DEF Brief
<1>4. ReadOnce' /\ ImageIsWritten'
  BY <1>1, <1>2 DEF ReadOnce, ImageIsWritten, Places
<1> QED
  BY <1>3, <1>4 DEF LInv

\* A half is written; the other one stays as it is.
LEMMA HalfKeeps ==
    ASSUME IInv, PairKept, WriteHalf, HandlerType
    PROVE  PairKept'
<1>1. /\ Writes /\ WriteSteps /\ UNCHANGED <<command, pc, held, result>> /\ WritingType
      /\ pc \in {"public", "private"} /\ FolderType
  BY DEF WriteHalf, Writes, IInv, TypeOK
<1>2. writing'.path = writing.path /\ writing'.data = writing.data
  BY <1>1 DEF WriteSteps, OpenPayload, Opened, FillPayload, SyncPayload, RemovePartial, Move,
              WritingType
<1>3. ASSUME Public # Private, pc = "private" PROVE Kept'
  <2>1. writing.path = Private /\ writing.path \in Paths
    BY <1>3 DEF PairKept
  <2>2. PICK f \in 1 .. Len(files) : /\ files[f].data = "public" /\ f # writing.file
                                     /\ \A p \in Paths : names[p] = f => p = Public
    BY <1>3 DEF PairKept, Kept
  <2>3. names[writing.path] # f
    BY <1>3, <2>1, <2>2
  <2> QED
    BY <1>1, <2>2, <2>3, CallSpares DEF Kept
<1>4. result # "ok"
  BY <1>1 DEF HandlerType
<1> QED
  BY <1>1, <1>2, <1>3, <1>4 DEF PairKept, PairIsWritten

LEMMA KeygenKeeps ==
    ASSUME IInv, IInv', LInv, Keygen
    PROVE  LInv'
<1>1. /\ HandlerType /\ Stage /\ Handle /\ Fragments /\ FolderType /\ PairKept /\ Brief /\ ReadOnce
      /\ command.name = "keygen" /\ WritesPayload /\ UNCHANGED <<handle, source>>
      /\ Len(files) \in Nat /\ pc' \in Places[command'.name] \cup {"done", "crashed"}
  BY DEF IInv, TypeOK, LInv, Keygen, imageVars, WritesPayload, FolderType, HandlerType
<1>2. UNCHANGED command
  BY DEF Keygen, KeygenStep, JudgeNames, ReadPassphrase, Generate, Seal, WriteHalf, PublicDone,
         PrivateDone
<1>3. ReadOnce' /\ ImageIsWritten'
  BY <1>1, <1>2 DEF ReadOnce, ImageIsWritten, Places
<1>4. Brief'
  BY <1>1 DEF Keygen, KeygenStep, JudgeNames, ReadPassphrase, Generate, Seal, WriteHalf, PublicDone,
         PrivateDone, Leave, Return, Step, Brief
<1>5. CASE WriteHalf
  BY <1>1, <1>3, <1>4, <1>5, HalfKeeps DEF LInv
<1>6. CASE JudgeNames \/ ReadPassphrase \/ Generate
  BY <1>1, <1>3, <1>4, <1>6 DEF JudgeNames, ReadPassphrase, Generate, Leave, Return, Step,
         LInv, PairKept, PairIsWritten, HandlerType
<1>7. CASE Seal
  <2>1. \/ pc' = "done" /\ result' = "seal"
        \/ pc' = "public" /\ result' = result /\ WritePayloadFile(Public, "public", command.force)
    BY <1>7 DEF Seal, Leave, Return, Step
  <2>2. pc' = "public" => writing'.path = Public /\ writing'.data = "public" /\ result # "ok"
    BY <1>1, <1>7, <2>1 DEF WritePayloadFile, Idle, HandlerType, Seal, Step
  <2> QED
    BY <1>3, <1>4, <2>1, <2>2 DEF LInv, PairKept, PairIsWritten
<1>8. CASE PublicDone
  <2>1. CASE pc' = "done"
    BY <1>3, <1>4, <1>8, <2>1 DEF PublicDone, Leave, Return, Step, LInv, PairKept, PairIsWritten
  <2>2. CASE pc' # "done"
    <3>1. /\ At("written") /\ pc = "public" /\ pc' = "private" /\ result' = result
          /\ WritePayloadFile(Private, "private", command.force) /\ UNCHANGED folderVars
      BY <1>8, <2>2 DEF PublicDone, Leave, Return, Step
    <3>2. /\ writing'.path = Private /\ writing'.data = "private" /\ writing'.file = 0
          /\ result' # "ok" /\ UNCHANGED <<names, files>>
      BY <1>1, <3>1 DEF WritePayloadFile, Idle, HandlerType, folderVars
    <3>3. ASSUME Public # Private PROVE Kept'
      <4>1. /\ writing.file \in 1 .. Len(files) /\ files[writing.file].data = "public"
            /\ \A p \in Paths : names[p] = writing.file => p = Public
        BY <1>1, <3>1, <3>3 DEF Handle, Fragments, At, PairKept
      <4> QED
        BY <3>2, <4>1 DEF Kept
    <3> QED
      BY <1>3, <1>4, <3>1, <3>2, <3>3 DEF LInv, PairKept, PairIsWritten
  <2> QED
    BY <2>1, <2>2
<1>9. CASE PrivateDone
  <2>1. /\ pc = "private" /\ pc' = "done" /\ UNCHANGED <<names, files, writing>>
        /\ result' = "ok" => At("written")
    BY <1>9 DEF PrivateDone, Leave, Return, folderVars
  <2>2. ASSUME Public # Private, result' = "ok"
        PROVE  Written("public")' /\ Written("private")'
    <3>1. Kept /\ writing.file \in 1 .. Len(files) /\ files[writing.file].data = "private"
      BY <1>1, <2>1, <2>2 DEF PairKept, Handle, At
    <3> QED
      BY <1>1, <2>1, <3>1, FilesDomain DEF Kept, Written
  <2> QED
    BY <1>3, <1>4, <2>1, <2>2 DEF LInv, PairKept, PairIsWritten
<1> QED
  BY <1>5, <1>6, <1>7, <1>8, <1>9 DEF Keygen, KeygenStep

LEMMA LaterHolds == IInv /\ IInv' /\ LInv /\ [Next]_vars => LInv'
<1> SUFFICES ASSUME IInv, IInv', LInv, [Next]_vars PROVE LInv'
  OBVIOUS
<1>1. CASE UNCHANGED vars
  <2>1. UNCHANGED <<names, files, writing, command, pc, result, held, handle, source>>
    BY <1>1 DEF vars, commandVars, imageVars, folderVars
  <2> QED
    BY <2>1 DEF LInv, PairKept, Kept, PairIsWritten, ImageIsWritten, Written, Brief, ReadOnce
<1>2. CASE Finished
  BY <1>1, <1>2 DEF Finished
<1>3. CASE Crash
  <2>1. /\ pc' = "crashed" /\ pc # "done" /\ held' = {} /\ UNCHANGED <<handle, source, result>>
    BY <1>3 DEF Crash, imageVars
  <2>2. result # "ok"
    BY <2>1 DEF IInv, TypeOK, HandlerType
  <2> QED
    BY <2>1, <2>2 DEF LInv, PairKept, PairIsWritten, ImageIsWritten, Brief, ReadOnce
<1> QED
  BY <1>1, <1>2, <1>3, ElsewhereKeeps, ExtractingKeeps, KeygenKeeps, ImagingKeeps DEF Next

LEMMA LaterInvariant == Spec => []LInv
<1>1. Init => LInv
  <2> SUFFICES ASSUME Init PROVE LInv
    OBVIOUS
  <2>1. /\ pc = First[command.name] /\ command.name \in {"extract", "keygen", "embed", "generate"}
        /\ result = "pending" /\ held = {} /\ source = 0
    BY DEF Init, Arguments, ExtractArguments, KeygenArguments, ImageArguments
  <2> QED
    BY <2>1 DEF First, LInv, PairKept, PairIsWritten, ImageIsWritten, Brief, ReadOnce
<1> QED
  BY <1>1, LaterHolds, Invariant, PTL DEF Spec

\* Success of any of the commands is a whole file of everything it was asked
\* for, as long as the two halves of a pair were not sent to one name: with
\* --force the second would take the place of the first.
THEOREM SuccessIsWhole == ASSUME Public # Private PROVE Spec => []SuccessMeansFiles
<1>1. LInv /\ SilenceIsDelivered => SuccessMeansFiles
  BY DEF LInv, PairKept, SuccessMeansFiles
<1> QED
  BY <1>1, LaterInvariant, SilenceTold, PTL

\* Before the first byte of a pair is on disk the identity it was sealed from
\* is out of memory.
THEOREM IdentityGone == Spec => []IdentityIsBrief
<1>1. IInv /\ LInv => IdentityIsBrief
  <2> SUFFICES ASSUME IInv, LInv, "identity" \in held PROVE \A f \in DOMAIN files : files[f].data \in Foreign
    BY DEF IdentityIsBrief
  <2>1. pc = "seal"
    BY DEF LInv, Brief
  <2> QED
    BY <2>1, FilesDomain DEF IInv, TypeOK, Untouched, AllForeign
<1> QED
  BY <1>1, Invariant, LaterInvariant, PTL

\* The payload that is embedded was read from the file whose size was judged.
THEOREM ReadWasChecked == Spec => []CheckedIsRead
<1>1. LInv => CheckedIsRead
  BY DEF LInv, ReadOnce, CheckedIsRead
<1> QED
  BY <1>1, LaterInvariant, PTL
=============================================================================
