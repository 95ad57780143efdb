------------------------ MODULE MCContainerGeometry -------------------------
(***************************************************************************)
(* The geometry of the code at a hundredth of its sides, with every side   *)
(* around the floor, around the ceiling and in between, and payloads on    *)
(* both sides of every limit.                                              *)
(***************************************************************************)
EXTENDS ContainerGeometry

MCSides == {0, 19, 20, 21, 39, 40, 99, 100, 115, 116, 117, 671, 672}
MCLimits == {PayloadCapacity(w * h, m) : w, h \in MCSides, m \in Modes}
MCPayloads == {p \in {l + d : l \in MCLimits, d \in {-1, 0, 1}} : p > 0}
=============================================================================
