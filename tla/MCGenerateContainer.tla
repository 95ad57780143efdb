------------------------ MODULE MCGenerateContainer -------------------------
(***************************************************************************)
(* Two hash bits, distances from -2 to 2 around a margin of 2, one         *)
(* password and the empty one, two messages, and three candidates: one     *)
(* skipped as a draft, one thrown away as a container, one kept.           *)
(***************************************************************************)
EXTENDS GenerateContainer

MCSize(m) == IF m = "short" THEN 1 ELSE 2
=============================================================================
