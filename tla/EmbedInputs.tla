---------------------------- MODULE EmbedInputs -----------------------------
(***************************************************************************)
(* What a job of embed is made of beside the files of Container: how much  *)
(* its cover holds and how much its message needs.                         *)
(***************************************************************************)
EXTENDS Container

CONSTANTS
    Rooms,          \* capacities a cover can have
    Size(_)         \* bytes a message needs once compressed, sealed and framed

ASSUME EmbedAssumption ==
    /\ Rooms \subseteq Nat
    /\ \A m \in Messages : Size(m) \in Nat
=============================================================================
