--------------------------- MODULE MCStegoChannel ---------------------------
(***************************************************************************)
(* Two hash bits at distances from -2 to 2 around a margin of 2, moved by  *)
(* at most 1.  The path is free or holds a generated container with a      *)
(* message of its own.                                                     *)
(***************************************************************************)
EXTENDS StegoChannel

MCSize(m) == 1

MCOlderFiles ==
    {[gates |-> TRUE, hash |-> [i \in Bits |-> 2], made |-> "generate",
      key |-> KeyOf(Bits, "right"), msg |-> "old", damage |-> {}]}
=============================================================================
