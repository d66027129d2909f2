---------------------------- MODULE MailArchive ----------------------------
(***************************************************************************)
(* What message.Service promises its callers, whatever it is built from.   *)
(* A message identity is New, then either holds the content it was stored  *)
(* with or was refused, and is Gone once it has been deleted.  Its content *)
(* never changes, nothing but a deletion takes it away, and an identity    *)
(* that is Gone never comes back.                                          *)
(***************************************************************************)
CONSTANTS
  MsgIDs,       \* message identities
  Contents      \* raw messages

VARIABLE archive   \* what a caller can retrieve under each identity

New  == "new"
Gone == "gone"

ArchiveInit == archive = [m \in MsgIDs |-> New]

(* Store returned the message. *)
Add(m, c) ==
  /\ archive[m] = New
  /\ archive' = [archive EXCEPT ![m] = c]

(* Store returned an error, or never returned. *)
Refuse(m) ==
  /\ archive[m] = New
  /\ archive' = [archive EXCEPT ![m] = Gone]

(* One message is deleted, or all those of a mailbox at once. *)
Remove(S) ==
  /\ \A m \in S : archive[m] \in Contents
  /\ archive' = [m \in MsgIDs |-> IF m \in S THEN Gone ELSE archive[m]]

ArchiveNext ==
  \/ \E m \in MsgIDs, c \in Contents : Add(m, c)
  \/ \E m \in MsgIDs : Refuse(m)
  \/ \E S \in SUBSET MsgIDs : Remove(S)

ArchiveSpec == ArchiveInit /\ [][ArchiveNext]_archive
=============================================================================
