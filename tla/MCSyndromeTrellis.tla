------------------------- MODULE MCSyndromeTrellis --------------------------
(***************************************************************************)
(* A register of three bits, four positions, at most two of them per bit   *)
(* and two per segment, so that a message of three bits takes blocks of    *)
(* unequal width and two segments.  The covers sit at both ends of the     *)
(* range or inside it, the cost vectors are flat, uneven, free in places   *)
(* and invalid, and one message is too long.                               *)
(***************************************************************************)
EXTENDS SyndromeTrellis

MCCovers == [Positions -> {0, 255}] \cup [Positions -> {6, 7}]

CostVector(a, b, c, d) ==
    [p \in Positions |-> CASE p = 0 -> a [] p = 1 -> b [] p = 2 -> c [] p = 3 -> d]

MCCostMaps == {CostVector(1, 1, 1, 1), CostVector(1, 3, 2, 5),
               CostVector(0, 2, 0, 3), CostVector(1, -1, 2, 1)}

MCPayloads == UNION {[1 .. bits -> {0, 1}] : bits \in 0 .. 3} \cup {<<1, 1, 1, 1>>}
=============================================================================
