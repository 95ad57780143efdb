--------------------------- MODULE KeyGeneration ----------------------------
(***************************************************************************)
(* stenoxide keygen: a pair is drawn and its halves go to two files.       *)
(*                                                                         *)
(* Both names are judged first, the passphrase is typed twice, the pair is *)
(* drawn and its private half sealed, the identity is dropped, and then    *)
(* the public file is written, and after it the private one.          *)
(***************************************************************************)
EXTENDS Command

CONSTANTS
    Public,     \* the path of --public
    Private     \* the path of --private

ASSUME PairAssumption == {Public, Private} \subseteq Paths /\ {"public", "private"} \subseteq Contents

VARIABLE
    held        \* what of the pair is in memory

KeygenArguments == [name : {"keygen"}, force : BOOLEAN]

\* Everything the handler owns is dropped with it.
Leave(r) == Return(r) /\ held' = {}

JudgeNames ==
    /\ \/ /\ ~Unwritable(Public) /\ ~Unwritable(Private)
          /\ Step("judge", "passphrase") /\ UNCHANGED held
       \/ /\ Unwritable(Public) \/ Unwritable(Private)
          /\ pc = "judge" /\ Leave("destination")
    /\ UNCHANGED <<folderVars, writing, command>>

\* read_local_passphrase: unreadable, or the two readings differ.
ReadPassphrase ==
    /\ \/ Step("passphrase", "generate") /\ held' = {"passphrase"}
       \/ pc = "passphrase" /\ Leave("passphrase")
    /\ UNCHANGED <<folderVars, writing, command>>

\* Identity::generate.
Generate ==
    /\ \/ Step("generate", "seal") /\ held' = held \cup {"identity"}
       \/ pc = "generate" /\ Leave("generator")
    /\ UNCHANGED <<folderVars, writing, command>>

\* Mutant of Seal: the identity lives until the command returns.
SealKeepsIdentity ==
    /\ \/ /\ Step("seal", "public") /\ held' = held \cup {"public", "private"}
          /\ WritePayloadFile(Public, "public", command.force)
       \/ pc = "seal" /\ Leave("seal") /\ UNCHANGED writing
    /\ UNCHANGED <<folderVars, command>>

\* to_public_file and Identity::seal, after which the identity is dropped and
\* the first write begins.
Seal ==
    /\ \/ /\ Step("seal", "public")
          /\ held' = (held \ {"identity"}) \cup {"public", "private"}
          /\ WritePayloadFile(Public, "public", command.force)
       \/ pc = "seal" /\ Leave("seal") /\ UNCHANGED writing
    /\ UNCHANGED <<folderVars, command>>

WriteHalf ==
    /\ pc \in {"public", "private"} /\ WriteSteps
    /\ UNCHANGED <<command, pc, held, result>>

PublicDone ==
    /\ \/ /\ At("written") /\ Step("public", "private") /\ UNCHANGED held
          /\ WritePayloadFile(Private, "private", command.force)
       \/ /\ pc = "public" /\ writing.at \in {"exists", "io"} /\ Leave("public")
          /\ UNCHANGED writing
    /\ UNCHANGED <<folderVars, command>>

PrivateDone ==
    /\ pc = "private"
    /\ \/ At("written") /\ Leave("ok")
       \/ writing.at \in {"exists", "io"} /\ Leave("private")
    /\ UNCHANGED <<folderVars, writing, command>>

KeygenStep == \/ JudgeNames \/ ReadPassphrase \/ Generate \/ Seal \/ WriteHalf
              \/ PublicDone \/ PrivateDone
=============================================================================
