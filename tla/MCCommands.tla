----------------------------- MODULE MCCommands -----------------------------
(***************************************************************************)
(* Three names, one of them in a directory that may be missing, and room   *)
(* for three files: the one that was there, the one or two the command     *)
(* makes and those that somebody else puts in its way.                     *)
(***************************************************************************)
EXTENDS Commands

MCFolder == [p \in {"dir/file"} |-> "dir"]
=============================================================================
