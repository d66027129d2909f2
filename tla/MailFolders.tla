----------------------------- MODULE MailFolders -----------------------------
(***************************************************************************)
(* What a mailbox promises its owner, whatever the files of a Maildir do:  *)
(* a message is in one folder with its flags.  It is marked, moved,        *)
(* deleted or expunged in one step, each of which changes what it says and *)
(* nothing else; a message that has gone never comes back.                 *)
(***************************************************************************)
CONSTANTS
  Messages,   \* message identities
  Folders,    \* among them "inbox" and "trash"
  Flags       \* what a client can say of a message, among it "none"

VARIABLE mail   \* the place of each message and its flags

At(place, flags) == [place |-> place, flags |-> flags]

FoldersInit == mail = [m \in Messages |-> At("undelivered", "none")]

Set(m, place, flags) == mail' = [mail EXCEPT ![m] = At(place, flags)]

(* Every message is delivered once, into the inbox. *)
Deliver(m) == mail[m].place = "undelivered" /\ Set(m, "inbox", "none")

(* It stays in its folder. *)
Mark(m, flags) == mail[m].place \in Folders /\ Set(m, mail[m].place, flags)

(* It keeps its flags. *)
Move(m, folder) == mail[m].place \in Folders /\ Set(m, folder, mail[m].flags)

(* A request deletes for good only what is in the trash. *)
Delete(m) == mail[m].place = "trash" /\ Set(m, "deleted", "none")

(* A mail client may do so in any folder. *)
Expunge(m) == mail[m].place \in Folders /\ Set(m, "expunged", "none")

FoldersNext ==
  \E m \in Messages :
    \/ Deliver(m) \/ Delete(m) \/ Expunge(m)
    \/ \E flags \in Flags : Mark(m, flags)
    \/ \E folder \in Folders : Move(m, folder)

FoldersSpec == FoldersInit /\ [][FoldersNext]_mail
=============================================================================
