-------------------------- MODULE MCContainerFile --------------------------
(***************************************************************************)
(* Every file of up to three chunks in front of its pixels, one or two     *)
(* sorts of pieces and a chunk behind them, around one picture; and every  *)
(* picture of 3 or 4 by 3 pixels of two levels, and some larger, in one    *)
(* file.  Blocks are 2 pixels wide.  Containers are drawn of one column    *)
(* and of one row of pixels, from a texture of 2 by 2 cells whose levels   *)
(* are the least and the most there are, with bytes of two bits.           *)
(***************************************************************************)
EXTENDS ContainerFile

MCSynthetic == <<"gAMA", "cHRM", "sRGB", "pHYs">>
\* Gaussians of sigma 1 and 1.5, to a whole number of thirds of a tail.
MCFirst == <<1, 4, 7, 4, 1>>
MCSecond == <<1, 3, 6, 7, 6, 3, 1>>

Plane(width, height, Level(_, _)) ==
    [width |-> width, height |-> height, colour |-> FALSE,
     luma |-> [p \in 0 .. width * height - 1 |-> Level(p % width, p \div width)]]

Flat == Plane(3, 3, LAMBDA x, y : 1)
MCLarger ==
    {Flat,
     Plane(6, 4, LAMBDA x, y : x + y),
     Plane(6, 4, LAMBDA x, y : 10 + x - y),
     Plane(6, 4, LAMBDA x, y : 3 * ((x \div 2 + y \div 2) % 2)),
     Plane(6, 4, LAMBDA x, y : 3 * (((x + 1) \div 2 + y \div 2) % 2)),
     Plane(5, 5, LAMBDA x, y : (x * x + y) % 7)}
MCSmall ==
    {[width |-> 4, height |-> 3, colour |-> FALSE, luma |-> l] : l \in [0 .. 11 -> {0, 4}]}
      \cup {[width |-> 3, height |-> 3, colour |-> c, luma |-> l] : c \in BOOLEAN, l \in [0 .. 8 -> {0, 4}]}
MCPictures == MCLarger \cup MCSmall

Ahead == {Chunk("gAMA", 1), Chunk("gAMA", 2), Chunk("iCCP", 4), Chunk("tEXt", 1), Chunk("PLTE", 3)}
Pieces_ == {<<5>>, <<2>>, <<5, 5>>, <<3, 5>>, <<5, 3>>, <<9, 9, 4>>, <<1, 1, 4>>, <<3, 3, 5, 5>>}
Behind == {<<>>, <<Chunk("tIME", 1), Chunk("CgBI", 1)>>, <<Chunk("pHYs", 1)>>, <<[Chunk("gAMA", 1) EXCEPT !.whole = FALSE]>>}
Idats(lengths) == [i \in DOMAIN lengths |-> Chunk("IDAT", lengths[i])]
MCFiles ==
    {<<>>} \cup
    {<<Chunk("IHDR", 13)>> \o a \o Idats(p) \o b \o <<Chunk("IEND", 0)>> :
        a \in UNION {[1 .. n -> Ahead] : n \in 0 .. 3}, p \in Pieces_, b \in Behind}

Ordinary == <<Chunk("IHDR", 13), Chunk("IDAT", 5), Chunk("IEND", 0)>>
MCRequests == (MCFiles \X {Flat}) \cup ({Ordinary} \X MCPictures)

MCOverhead(mode) == IF mode = "recipient" THEN 1 ELSE 0
MCGrain == {-1130, 50, 150}
Lowest == -(CELL_AMPLITUDE \div 2)
Highest == CELL_AMPLITUDE \div 2 - 1
MCFields ==
    {[c \in Grid |-> [x |-> 0, y |-> 0, level |-> Lowest]],
     [c \in Grid |-> [x |-> (c[1] + c[2]) % 2, y |-> c[1] % 2,
                       level |-> IF (c[1] + c[2]) % 2 = 0 THEN Highest ELSE Lowest]]}
MCJobs ==
    {j \in [mode : {"password", "recipient"}, width : {1, 3}, height : {1, 3}, field : MCFields,
            ridge : {<<0, 3000, 1700>>}, msg : {<<"m">>, <<"m", "n">>},
            noise : {<<0, 3, 1, 2>>, <<2, 1, 3, 0>>}] :
        j.width # j.height /\ Len(j.msg) <= payload_capacity(j)}
=============================================================================
