---------------------------- MODULE FileListing -----------------------------
(***************************************************************************)
(* What the argument of scan names: a file, the contents of a directory,   *)
(* or the paths a pattern matches.                                         *)
(*                                                                         *)
(* A path is a sequence of names and a name a sequence of characters; the  *)
(* directory the user stands in is the empty path.  The directories stay   *)
(* as they are; the files are the ones the operators are given.            *)
(***************************************************************************)
EXTENDS Integers, Sequences, SequencesExt

CONSTANTS
    Characters,     \* of which names are made, and patterns
    Directories,    \* the directories there are
    Listing         \* every path a file may have, in the order of PathBuf

\* A path, or the argument of scan.
AnyPath == Seq(Seq(Characters))

ASSUME ListingAssumption ==
    /\ <<>> \in Directories /\ Directories \subseteq AnyPath
    /\ \A d \in Directories : d = <<>> \/ Front(d) \in Directories
    /\ Listing \in Seq(AnyPath)
    /\ \A i, j \in DOMAIN Listing : Listing[i] = Listing[j] => i = j
    /\ \A i \in DOMAIN Listing : /\ Listing[i] \notin Directories
                                 /\ Front(Listing[i]) \in Directories

\* What a list has at some positions, in its order.
Kept(list, positions) ==
    LET kept[n \in 0 .. Len(list)] ==
            IF n = 0 THEN <<>>
            ELSE IF n \in positions THEN Append(kept[n - 1], list[n]) ELSE kept[n - 1]
    IN  kept[Len(list)]

InOrder(files) == Kept(Listing, {i \in DOMAIN Listing : Listing[i] \in files})

AnyDepth == <<"*", "*">>
Wild(component) == \E i \in DOMAIN component : component[i] \in {"*", "?"}

IsChild(path, directory) == path # <<>> /\ Front(path) = directory

\* walk, over the files that exist.
Walk(directory, recursive, files) ==
    {f \in files : IsPrefix(directory, f) /\ (recursive \/ IsChild(f, directory))}

\* How much of the name and of the pattern is behind; the asterisk last met,
\* counted from 1, and where its run would end if it were to swallow nothing
\* more, which are behind as well.
Cursors(name, pattern) ==
    {at \in [matched : 0 .. Len(name), consumed : 0 .. Len(pattern),
             star : 0 .. Len(pattern), resume : 0 .. Len(name)] :
        at.star <= at.consumed /\ at.resume <= at.matched}

AtStart == [matched |-> 0, consumed |-> 0, star |-> 0, resume |-> 0]

\* Mutant of matches_component: the name is not taken up again where the run
\* of the last asterisk was tried.
matches_componentForward(name, pattern) ==
    LET run[at \in Cursors(name, pattern)] ==
            LET Stands(characters) ==
                    at.consumed < Len(pattern) /\ pattern[at.consumed + 1] \in characters
            IN  IF at.matched = Len(name)
                THEN \A i \in at.consumed + 1 .. Len(pattern) : pattern[i] = "*"
                ELSE IF Stands({"*"})
                THEN run[[at EXCEPT !.consumed = @ + 1, !.star = at.consumed + 1, !.resume = at.matched]]
                ELSE IF Stands({"?", name[at.matched + 1]})
                THEN run[[at EXCEPT !.matched = @ + 1, !.consumed = @ + 1]]
                ELSE at.star # 0 /\ run[[at EXCEPT !.matched = @ + 1, !.consumed = at.star,
                                                   !.resume = at.matched]]
    IN  run[AtStart]

\* The loop: an asterisk first matches nothing; where the name goes on
\* differently, the last one swallows one character more.
matches_component(name, pattern) ==
    LET run[at \in Cursors(name, pattern)] ==
            LET Stands(characters) ==
                    at.consumed < Len(pattern) /\ pattern[at.consumed + 1] \in characters
            IN  IF at.matched = Len(name)
                THEN \A i \in at.consumed + 1 .. Len(pattern) : pattern[i] = "*"
                ELSE IF Stands({"*"})
                THEN run[[at EXCEPT !.consumed = @ + 1, !.star = at.consumed + 1, !.resume = at.matched]]
                ELSE IF Stands({"?", name[at.matched + 1]})
                THEN run[[at EXCEPT !.matched = @ + 1, !.consumed = @ + 1]]
                ELSE at.star # 0 /\ run[[at EXCEPT !.matched = at.resume + 1, !.consumed = at.star,
                                                   !.resume = @ + 1]]
    IN  run[AtStart]

\* The components in front of the first with a wildcard are a path.
FixedParts(pattern) ==
    CHOOSE n \in 0 .. Len(pattern) :
        /\ \A i \in 1 .. n : ~Wild(pattern[i])
        /\ n < Len(pattern) => Wild(pattern[n + 1])

collect_directories(current) ==
    {d \in Directories : \E c \in current : IsPrefix(c, d)}

\* One component of glob_matches, from the paths reached so far.
Descend(current, component, files) ==
    IF component = AnyDepth THEN current \cup collect_directories(current)
    ELSE {q \in files \cup Directories : /\ q # <<>> /\ Front(q) \in current
                                         /\ matches_component(Last(q), component)}

glob_matches(pattern, recursive, files) ==
    LET fixed == FixedParts(pattern)
        reached[n \in fixed .. Len(pattern)] ==
            IF n = fixed THEN {SubSeq(pattern, 1, fixed)}
            ELSE Descend(reached[n - 1], pattern[n], files)
        paths == reached[Len(pattern)]
    IN  (paths \cap files) \cup UNION {Walk(d, recursive, files) : d \in paths \cap Directories}

\* In the order of a BTreeSet; none is a refusal, unless a directory was named.
collect_files(argument, recursive, files) ==
    InOrder(IF argument \in files THEN {argument}
            ELSE IF argument \in Directories THEN Walk(argument, recursive, files)
            ELSE glob_matches(argument, recursive, files))
-----------------------------------------------------------------------------
(* The same, by what a pattern means instead of by how it is matched: some *)
(* way of cutting the text into runs fits the pattern, one run for each of *)
(* its members.                                                            *)

Cuts(length, runs) ==
    {c \in [0 .. runs -> 0 .. length] :
        c[0] = 0 /\ c[runs] = length /\ \A i \in 1 .. runs : c[i - 1] <= c[i]}

NameFits(name, pattern) ==
    \E c \in Cuts(Len(name), Len(pattern)) : \A i \in DOMAIN pattern :
        pattern[i] = "*" \/ (c[i] = c[i - 1] + 1 /\ pattern[i] \in {"?", name[c[i]]})

PathFits(path, pattern) ==
    \E c \in Cuts(Len(path), Len(pattern)) : \A i \in DOMAIN pattern :
        IF pattern[i] = AnyDepth
        THEN \A k \in c[i - 1] + 1 .. c[i] : SubSeq(path, 1, k) \in Directories
        ELSE c[i] = c[i - 1] + 1 /\ NameFits(path[c[i]], pattern[i])

\* The files an argument names: what has that name before anything else, and
\* of a directory, named outright or through a pattern, what lies in it.
Named(argument, recursive, files) ==
    LET Means(path) == IF argument \in files \cup Directories THEN path = argument
                       ELSE PathFits(path, argument)
    IN  {f \in files :
            \/ Means(f)
            \/ \E n \in 0 .. Len(f) - 1 : Means(SubSeq(f, 1, n)) /\ (recursive \/ n = Len(f) - 1)}
=============================================================================
