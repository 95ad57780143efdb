-------------------------------- MODULE Scan --------------------------------
(***************************************************************************)
(* stenoxide scan: which files can carry a payload, and which of them not  *)
(* under one password.                                                     *)
(*                                                                         *)
(* The files are listed, then each is probed for its size, so that the     *)
(* work is known, then each is examined, which probes it again and loads   *)
(* it.  Other programs replace and remove files between any two of these.  *)
(***************************************************************************)
EXTENDS Intake, FileListing

CONSTANTS
    Pngs,       \* the paths with the extension png, in any case
    Requests,   \* arguments and options of the command line
    Mega        \* pixels in a megapixel

NoSalt == "no salt"

ASSUME ScanAssumption ==
    /\ {Listing[i] : i \in DOMAIN Listing} = Paths
    /\ Pngs \subseteq Paths /\ Mega \in Nat \ {0}
    /\ \A p \in Pictures : p.salt # NoSalt
    /\ \A r \in Requests : /\ r.argument \in AnyPath /\ r.recursive \in BOOLEAN /\ r.all \in BOOLEAN /\ r.json \in BOOLEAN
                           /\ r.disk \in [Paths -> Pictures \cup {Missing, Unreadable}]

VARIABLES
    request,
    there,      \* the files that existed when they were listed
    found,      \* the list
    sizes,      \* of those probed, the pixels to analyse, -1 for none
    entries,    \* what was found in each file examined
    report,     \* what is printed
    bar,        \* drawn on stderr, in megapixels: how long it is, how far it has come
    pc

vars == <<disk, changes, intakeVars, bar, request, there, found, sizes, entries, report, pc>>

(* The bar.  Where nothing may be drawn there is none, and every call does  *)
(* nothing.                                                                *)
NoBar == [length |-> 0, done |-> 0, detail |-> "none"]

\* Progress::new; a bar has at least one unit.
Start(total) ==
    \/ bar' = [length |-> IF total = 0 THEN 1 ELSE total, done |-> 0, detail |-> "none"]
    \/ bar' = NoBar

Drawn == bar.length > 0

\* set_detail names the file in hand, advance counts what it was.
SetDetail(file) == bar' = IF Drawn THEN [bar EXCEPT !.detail = file] ELSE bar
Advance(units) == bar' = IF Drawn THEN [bar EXCEPT !.done = @ + units] ELSE bar
Finish == bar' = NoBar

Nothing == [lines |-> <<>>]
NoPixels == -1

Step(from, to) == pc = from /\ pc' = to

CollectFiles ==
    LET files == {p \in Paths : disk[p] # Missing}
        list == collect_files(request.argument, request.recursive, files)
    IN  /\ there' = files
        /\ found' = list
        /\ \/ Step("collect", "probe") /\ (list # <<>> \/ request.argument \in Directories)
           \/ pc = "collect" /\ list = <<>> /\ request.argument \notin Directories /\ pc' = "refused"
           \/ pc = "collect" /\ request.argument \notin files /\ pc' = "refused"  \* a directory cannot be read
        /\ UNCHANGED <<disk, changes, intakeVars, bar, request, sizes, entries, report>>

candidate_pixels(path) ==
    IF path \in Pngs /\ probe_geometry(disk[path]) = "ok" THEN pixel_count(disk[path])
    ELSE NoPixels

megapixels(pixels) == (pixels + Mega - 1) \div Mega

Work(pixels) == IF pixels = NoPixels THEN 0 ELSE megapixels(pixels)
WorkUpTo(list) ==
    LET sum[n \in 0 .. Len(list)] == IF n = 0 THEN 0 ELSE sum[n - 1] + Work(list[n])
    IN  sum
TotalWork(list) == WorkUpTo(list)[Len(list)]

\* The first pass, file by file, and then the bar.
ProbeNext ==
    /\ pc = "probe" /\ Len(sizes) < Len(found)
    /\ sizes' = Append(sizes, candidate_pixels(found[Len(sizes) + 1]))
    /\ UNCHANGED <<disk, changes, intakeVars, bar, request, there, found, entries, report, pc>>

StartBar ==
    /\ Len(sizes) = Len(found) /\ Step("probe", "examine")
    /\ Start(TotalWork(sizes))
    /\ UNCHANGED <<disk, changes, intakeVars, request, there, found, sizes, entries, report>>

(* The second pass. *)

Usable(e) == e.verdict = "Usable"
NewEntry(path, reason, salt) == [path |-> path, verdict |-> reason, salt |-> salt]

Current == found[Len(entries) + 1]
CurrentSize == sizes[Len(entries) + 1]

Examining == pc = "examine" /\ Len(entries) < Len(found)

\* Mutant of ExamineOther: what is not a picture is dropped from the list.
ExamineOtherSkips ==
    /\ Examining /\ stage = "idle" /\ Current \notin Pngs
    /\ found' = SelectSeq(found, LAMBDA f : f # Current)
    /\ sizes' = SubSeq(sizes, 1, Len(entries)) \o SubSeq(sizes, Len(entries) + 2, Len(sizes))
    /\ UNCHANGED <<disk, changes, intakeVars, bar, request, there, entries, report, pc>>

\* A file without the extension is not opened.
ExamineOther ==
    /\ Examining /\ stage = "idle" /\ Current \notin Pngs
    /\ entries' = Append(entries, NewEntry(Current, "UnsupportedFormat", NoSalt))
    /\ UNCHANGED <<disk, changes, intakeVars, bar, request, there, found, sizes, report, pc>>

BeginExamine ==
    /\ Examining /\ stage = "idle" /\ Current \in Pngs
    /\ Load(Current)
    /\ IF CurrentSize = NoPixels THEN UNCHANGED bar ELSE SetDetail(Current)
    /\ UNCHANGED <<disk, changes, request, there, found, sizes, entries, report, pc>>

\* analyse_container: the hash must be stable and the cost map must exist; the
\* salt goes into the entry.
Analyse(picture) ==
    IF picture.salt = "unstable" \/ ~picture.texture
    THEN NewEntry(loading, "InsufficientTexture", NoSalt)
    ELSE NewEntry(loading, "Usable", picture.salt)

Examined == IF verdict = "ok" THEN Analyse(bytes) ELSE NewEntry(loading, verdict, NoSalt)

\* Mutant of EndExamine: the work is measured again where it is done.
EndExamineMeasured ==
    /\ Examining /\ stage = "returned"
    /\ entries' = Append(entries, Examined)
    /\ Advance(Work(candidate_pixels(loading)))
    /\ Unload
    /\ UNCHANGED <<disk, changes, request, there, found, sizes, report, pc>>

EndExamine ==
    /\ Examining /\ stage = "returned"
    /\ entries' = Append(entries, Examined)
    /\ IF CurrentSize = NoPixels THEN UNCHANGED bar ELSE Advance(Work(CurrentSize))
    /\ Unload
    /\ UNCHANGED <<disk, changes, request, there, found, sizes, report, pc>>

(* The report. *)

\* Mutant of Placed: only the group of the name before it is asked.
PlacedNext(groups, e) ==
    LET same == {g \in DOMAIN groups : g = Len(groups) /\ groups[g].salt = e.salt}
    IN  IF e.salt = NoSalt THEN groups
        ELSE IF same = {} THEN Append(groups, [salt |-> e.salt, names |-> <<e.path>>])
        ELSE [groups EXCEPT ![CHOOSE g \in same : TRUE].names = Append(@, e.path)]

\* Where a name goes: to the group of its salt, or it opens one.
Placed(groups, e) ==
    LET same == {g \in DOMAIN groups : groups[g].salt = e.salt}
    IN  IF e.salt = NoSalt THEN groups
        ELSE IF same = {} THEN Append(groups, [salt |-> e.salt, names |-> <<e.path>>])
        ELSE [groups EXCEPT ![CHOOSE g \in same : TRUE].names = Append(@, e.path)]

Several(groups) == {g \in DOMAIN groups : Len(groups[g].names) > 1}
NamesOf(groups) == [g \in DOMAIN groups |-> groups[g].names]

\* One group for each salt, in the order of their first, one name alone dropped.
shared_groups(list) ==
    LET opened[n \in 0 .. Len(list)] ==
            IF n = 0 THEN <<>> ELSE Placed(opened[n - 1], list[n])
        groups == opened[Len(list)]
    IN  NamesOf(Kept(groups, Several(groups)))

Lines(list) == [i \in DOMAIN list |-> [path |-> list[i].path, verdict |-> list[i].verdict]]

\* Both renderings list what is usable first; the listing leaves out the rest
\* unless it is asked for, and points onwards.
render(list, groups) ==
    LET usable == {i \in DOMAIN list : Usable(list[i])}
        valid == Kept(list, usable)
        invalid == Kept(list, DOMAIN list \ usable)
        listed == request.json \/ request.all
    IN  [lines |-> Lines(valid) \o (IF listed THEN Lines(invalid) ELSE <<>>),
         valid |-> Len(valid), invalid |-> Len(invalid), groups |-> groups,
         hint |-> IF request.json THEN "none"
                  ELSE IF valid # <<>> THEN "embed"
                  ELSE IF invalid # <<>> THEN "generate" ELSE "none"]

Report ==
    /\ Len(entries) = Len(found) /\ Step("examine", "done")
    /\ report' = render(entries, shared_groups(entries))
    /\ Finish
    /\ UNCHANGED <<disk, changes, intakeVars, request, there, found, sizes, entries>>

Init ==
    /\ \E r \in Requests : request = [argument |-> r.argument, recursive |-> r.recursive,
                                      all |-> r.all, json |-> r.json] /\ disk = r.disk
                           /\ changes = r.changes
    /\ IntakeInit /\ bar = NoBar
    /\ there = {} /\ found = <<>> /\ sizes = <<>> /\ entries = <<>>
    /\ report = Nothing
    /\ pc = "collect"

LoadStep == IntakeStep /\ UNCHANGED <<bar, request, there, found, sizes, entries, report, pc>>

Elsewhere ==
    /\ pc \in {"probe", "examine"} /\ OthersReplace
    /\ UNCHANGED <<intakeVars, bar, request, there, found, sizes, entries, report, pc>>

Finished == pc \in {"done", "refused"} /\ UNCHANGED vars

Next ==
    \/ CollectFiles \/ ProbeNext \/ StartBar
    \/ ExamineOther \/ BeginExamine \/ LoadStep \/ EndExamine \/ Report
    \/ Elsewhere \/ Finished

Spec == Init /\ [][Next]_vars
-----------------------------------------------------------------------------
TypeOK ==
    /\ there \subseteq Paths /\ found \in Seq(Paths)
    /\ sizes \in Seq(Nat \cup {NoPixels}) /\ Len(sizes) <= Len(found)
    /\ Len(entries) <= Len(found)
    /\ bar.length \in Nat /\ bar.done \in Nat
    /\ stage \in {"idle", "probe", "read", "decode", "screen", "returned"}
    /\ pc \in {"collect", "probe", "examine", "done", "refused"}

\* What is listed is what the argument means: the file of exactly that name,
\* whatever characters it has, else what lies in the directories and matches
\* the pattern, each once and in the order of paths; a refusal names nothing.
ListsWhatIsNamed ==
    /\ pc \notin {"collect", "refused"} =>
        found = InOrder(Named(request.argument, request.recursive, there))
    /\ pc = "refused" /\ request.argument \in there =>
        Named(request.argument, request.recursive, there) = {}

\* Two files are in one group of the warning exactly when both are usable and
\* derive one salt, wherever they are in the list, and no file is in two.
WarningIsExact ==
    pc = "done" =>
        /\ \A i, j \in DOMAIN entries :
            i < j => (/\ Usable(entries[i]) /\ Usable(entries[j])
                     /\ entries[i].salt = entries[j].salt)
                    <=> \E g \in DOMAIN report.groups :
                            {entries[i].path, entries[j].path} \subseteq ToSet(report.groups[g])
        /\ \A g, h \in DOMAIN report.groups :
            g # h => ToSet(report.groups[g]) \cap ToSet(report.groups[h]) = {}

\* However the files change after they were measured, the bar never runs past
\* its end, and it is full when the last file has been examined.
BarEndsFull ==
    /\ bar.done <= bar.length
    /\ pc = "examine" /\ Drawn /\ Len(entries) = Len(found) /\ TotalWork(sizes) > 0 =>
        bar.done = bar.length

\* Every file listed is accounted for, once, also one that has gone since: the
\* two counts add up, and a document, or a listing of all, names each of them.
AllAccountedFor ==
    pc = "done" =>
        LET named == Named(request.argument, request.recursive, there) IN
        /\ {entries[i].path : i \in DOMAIN entries} = named
        /\ report.valid + report.invalid = Cardinality(named)
        /\ Len(report.lines) = IF request.json \/ request.all THEN Cardinality(named) ELSE report.valid
        /\ ToSet(report.lines) \subseteq ToSet(Lines(entries))
        /\ (report.hint = "embed") <=> (report.valid > 0 /\ ~request.json)
=============================================================================
