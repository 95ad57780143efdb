-------------------------- MODULE MCRecipientMode ---------------------------
(***************************************************************************)
(* Two people, so that every file can be the wrong one's, one passphrase   *)
(* for every key file and a wrong and an empty one to type, and two        *)
(* candidate textures.  The keys are a group and a part of one, as those   *)
(* of the code are, and hold a symbol of value zero; the lines of one of   *)
(* the two are as written, or with one thing wrong with them.              *)
(***************************************************************************)
EXTENDS RecipientMode

MCSize(m) == 1
First(p) == IF p = "alice" THEN 1 ELSE 2
MCPublicKey(p) == <<First(p), 2, 0, 129, 255>>
MCSealedSeed(p) == <<First(p), 2, 0, 131>>

\* Cut between groups and within one, a character lost to the alphabet, to the
\* padding and to another symbol, and the bits behind the last byte.
Bodies(body) ==
    LET last == Len(body) - Padding(body)
    IN  {body, SubSeq(body, 1, 4), SubSeq(body, 1, 6), [body EXCEPT ![2] = Foreign],
         [body EXCEPT ![4] = PAD], [body EXCEPT ![2] = 63], [body EXCEPT ![last] = @ + 1]}
Lines(label, material) ==
    {Line(label, b) : b \in Bodies(encode(material))} \cup {Line("other", encode(material))}
MCKeyFiles ==
    {[line |-> l, locked |-> "right"] :
        l \in Lines("recipient", MCPublicKey("alice")) \cup Lines("identity", MCSealedSeed("alice"))
             \cup {encode_labelled("recipient", MCPublicKey("bob")),
                   encode_labelled("identity", MCSealedSeed("bob"))}}

\* The vectors of RFC 4648 that the tests of armor.rs pin: f, fo, foo and foob.
ASSUME PublishedVectors ==
    /\ encode(<<102>>) = <<25, 32, PAD, PAD>>
    /\ encode(<<102, 111>>) = <<25, 38, 60, PAD>>
    /\ encode(<<102, 111, 111>>) = <<25, 38, 61, 47>>
    /\ encode(<<102, 111, 111, 98>>) = <<25, 38, 61, 47, 24, 32, PAD, PAD>>
=============================================================================
