--------------------------- MODULE MCFrameBudget ----------------------------
(***************************************************************************)
(* Images around the sizes where each limit bites: too small for the       *)
(* header, for the overhead, for one byte, the smallest and the largest    *)
(* the loader admits; all usable, some or most of them not; ciphertexts    *)
(* around what is advertised.                                              *)
(***************************************************************************)
EXTENDS FrameBudget

MCPositions == {1, 2047, 2048, 2049, 18000, 18823, 18824, 18900, 20000,
                4000000, 4002001, 134217728}
MCOffsets == {-335544, -26, -25} \cup -10 .. 18
=============================================================================
