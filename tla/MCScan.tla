------------------------------- MODULE MCScan -------------------------------
(***************************************************************************)
(* A directory of two pictures with a third below it, and a file next to   *)
(* it.  Either every pattern of up to three characters, with somebody      *)
(* replacing one of the files or removing it; or all of the directory,     *)
(* with every file holding any of the pictures; or one file with one of    *)
(* the flaws.  The sides are those of the code divided by 1000, and 12     *)
(* pixels are a megapixel of them.                                         *)
(***************************************************************************)
EXTENDS Scan

Sound == [length |-> "long", format |-> "png", ihdr |-> TRUE, width |-> 3, height |-> 2,
          layout |-> "Rgb8", stream |-> "sound", grid |-> FALSE, salt |-> "s1", texture |-> TRUE]

MCPictures ==
    {Sound,
     [Sound EXCEPT !.width = 4, !.height = 4],                   \* as many as are analysed
     [Sound EXCEPT !.width = 4, !.layout = "Luma8", !.salt = "s2"],
     [Sound EXCEPT !.width = 8, !.height = 4],                   \* too many
     [Sound EXCEPT !.ihdr = FALSE, !.width = 9, !.height = 9],
     [Sound EXCEPT !.format = "jpeg", !.length = "prefix"]}

\* One defect each of what only the second reading tells.
MCFlawed ==
    {[Sound EXCEPT !.width = 1], [Sound EXCEPT !.grid = TRUE], [Sound EXCEPT !.layout = "La8"],
     [Sound EXCEPT !.stream = "bad_header"], [Sound EXCEPT !.stream = "bad_pixels"],
     [Sound EXCEPT !.salt = "unstable"], [Sound EXCEPT !.texture = FALSE],
     [Sound EXCEPT !.format = "webp"], [Sound EXCEPT !.format = "other"],
     [Sound EXCEPT !.length = "short"], Unreadable}
MCAll == MCPictures \cup (MCFlawed \ {Unreadable})

\* d/a?, d/aab and d/b/ab, and n, which has no extension; the directory ? is empty.
D == <<"d">>
B == <<"b">>
Q == <<"?">>
MCDirectories == {<<>>, <<D>>, <<D, B>>, <<Q>>}
Aab == <<D, <<"a", "a", "b">>>>
Aq == <<D, <<"a", "?">>>>
Ab == <<D, B, <<"a", "b">>>>
N == <<<<"n">>>>
MCListing == <<Aq, Aab, Ab, N>>
MCPaths == {Aq, Aab, Ab, N}
MCPngs == {Aq, Aab, Ab}

Plain == [p \in MCPaths |-> Sound]

Letters == {"a", "b", "*", "?"}
MCCharacters == Letters \cup {"d", "n"}
Components == UNION {[1 .. n -> Letters] : n \in 1 .. 3}
MCPatterns ==
    {<<D, c>> : c \in Components}
      \cup {<<AnyDepth, c>> : c \in {<<"b">>, <<"*", "b">>, <<"a", "b">>, <<"*", "a", "b">>}}
      \cup {<<D, AnyDepth>>, <<AnyDepth>>, <<<<"*">>, AnyDepth, <<"a", "*">>>>, <<D, AnyDepth, AnyDepth>>,
            <<<<"*">>, <<"*">>, <<"?", "b">>>>, Aab \o <<AnyDepth>>}

MCRequests ==
    {[argument |-> p, recursive |-> o, all |-> o, json |-> FALSE, disk |-> Plain, changes |-> 1] :
        p \in MCPatterns \cup MCDirectories, o \in BOOLEAN}
      \cup
    {[argument |-> <<>>, recursive |-> TRUE, all |-> a, json |-> FALSE,
      disk |-> [p \in MCPaths |-> IF p = N THEN Sound ELSE f[p]], changes |-> 0] :
        f \in [MCPngs -> MCPictures], a \in BOOLEAN}
      \cup
    {[argument |-> <<D>>, recursive |-> FALSE, all |-> FALSE, json |-> TRUE,
      disk |-> [Plain EXCEPT ![Aab] = x], changes |-> 0] : x \in MCFlawed}
=============================================================================
