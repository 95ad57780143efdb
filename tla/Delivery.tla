------------------------------ MODULE Delivery ------------------------------
(***************************************************************************)
(* What an extraction promises its caller, without the search: it answers, *)
(* once, and its answer is one that Answers allows for the file and the    *)
(* secret it was called with.  Which those are is the business of the      *)
(* module that instantiates this one.                                      *)
(***************************************************************************)
CONSTANTS
    PossibleFiles,  \* the files extract can be called with
    Passwords,      \* the passwords it can be called with
    Answers(_, _)   \* the answers to a file and a password

VARIABLES image, password, result

Init ==
    /\ image \in PossibleFiles
    /\ password \in Passwords
    /\ result.kind = "pending"

Answer ==
    /\ result.kind = "pending"
    /\ result' \in Answers(image, password)
    /\ UNCHANGED <<image, password>>

Spec == Init /\ [][Answer]_<<image, password, result>>
             /\ WF_<<image, password, result>>(Answer)
=============================================================================
