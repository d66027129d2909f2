--------------------------- MODULE WebmailMaildir ---------------------------
(***************************************************************************)
(* The folders of one mailbox as webmail.MaildirService sees them: every   *)
(* operation first searches for a file and then renames, removes or reads  *)
(* what it found, while other requests and Dovecot rename the same files.  *)
(*                                                                         *)
(* A file is named by the key its delivery agent drew for the message and, *)
(* after ":2,", by its flags; info "none" stands for a name without flags. *)
(* Keys are unique and none begins with another, so the prefix search of   *)
(* findMessageFile finds the files of one message.                         *)
(***************************************************************************)
EXTENDS Naturals, Sequences, FiniteSets

CONSTANTS
  Messages,   \* the keys of messages
  SizeNamed,  \* keys that contain an "S" themselves (Dovecot's ",S=<size>")
  Workers,    \* webmail requests in flight
  Kinds,      \* the operations that are requested
  None

Folders == {"inbox", "trash", "archive"}
Infos == {"none", "", "S"}
Path == [folder : Folders, sub : {"new", "cur"}, key : Messages, info : Infos]
File(folder, sub, key, info) == [folder |-> folder, sub |-> sub, key |-> key, info |-> info]

ASSUME MaildirAssumption == SizeNamed \subseteq Messages /\ None \notin Messages \cup Workers

VARIABLES
  files,     \* the paths that exist
  dirs,      \* folders whose directories exist
  op,        \* the request each worker is executing
  removed,   \* history: <<message, folder>> of every file that was removed
  expunged,  \* history: messages that Dovecot expunged
  delivered  \* history: messages that Postfix delivered

mdvars == <<files, dirs, op, removed, expunged, delivered>>

(* history: still, the paths of the folder that nobody else has renamed    *)
(* since the request began.                                                *)
IdleOp == [pc |-> "idle", kind |-> "none", folder |-> "inbox", dst |-> "trash",
           key |-> None, read |-> TRUE, found |-> None, seen |-> {}, out |-> {},
           still |-> {}]

MaildirInit ==
  /\ files = {} /\ dirs = {"inbox"}
  /\ op = [w \in Workers |-> IdleOp]
  /\ removed = {} /\ expunged = {} /\ delivered = {}

(* Messages that are gone: removed by a request, or expunged. *)
Gone == {r[1] : r \in removed} \cup expunged

-----------------------------------------------------------------------------
(* What a request may call a folder: the usual name, another one with the  *)
(* same directory.  Without a name the handlers say inbox.                 *)
getFolderDir == [n \in {"inbox", "trash", " trash", "archive"} |->
  CASE n = "inbox" -> "inbox"
    [] n \in {"trash", " trash"} -> "trash"
    [] OTHER -> "archive"]
FolderNames == DOMAIN getFolderDir

(* In cur, with flags, and with an S anywhere in the name. *)
IsRead(p) == p.sub = "cur" /\ p.info # "none" /\ (p.info = "S" \/ p.key \in SizeNamed)

(* os.Rename: fails without its source or without the target's directory,  *)
(* and replaces what is at the target.                                     *)
CanRename(p, q) == p \in files /\ q.folder \in dirs
Renamed(p, q) == (files \ {p}) \cup {q}

(* The requests in flight, told that the files are now those of after; who *)
(* renamed p to q itself keeps counting on q.                              *)
Told(f, after, w, p, q) ==
  [v \in Workers |-> [f[v] EXCEPT !.still =
     IF v = w /\ p \in @ THEN (@ \cap after) \cup {q} ELSE @ \cap after]]

Done(w) == [op EXCEPT ![w] = IdleOp]
Fail(w) == [op EXCEPT ![w].pc = "failed"]

-----------------------------------------------------------------------------
Begin(w, o) ==
  /\ op[w].pc = "idle"
  /\ o.kind \in Kinds
  /\ op' = [op EXCEPT ![w] = [o EXCEPT !.still = {p \in files : p.folder = o.folder}]]

BeginFind(w, kind, folder, key, read, dst) ==
  /\ key \in delivered
  /\ Begin(w, [IdleOp EXCEPT !.pc = "findCur", !.kind = kind, !.folder = folder,
                 !.key = key, !.read = read, !.dst = dst])
  /\ UNCHANGED <<files, dirs, removed, expunged, delivered>>

(* The requests; the id is one that some listing has shown. *)
GetMessage(w) ==
  \E n \in FolderNames, k \in Messages : BeginFind(w, "get", getFolderDir[n], k, TRUE, "trash")
GetAttachment(w) ==
  \E n \in FolderNames, k \in Messages :
    BeginFind(w, "attachment", getFolderDir[n], k, TRUE, "trash")

(* A body that cannot be decoded marks the message as read. *)
MarkRead(w) ==
  \E n \in FolderNames, k \in Messages, r \in BOOLEAN :
    BeginFind(w, "mark", getFolderDir[n], k, r, "trash")
MoveMessage(w) ==
  \E n, d \in FolderNames, k \in Messages :
    BeginFind(w, "move", getFolderDir[n], k, TRUE, getFolderDir[d])

MutDeleteMessage(w) ==
  \E n \in FolderNames, k \in Messages :
    BeginFind(w, IF n = "inbox" THEN "move" ELSE "remove", getFolderDir[n], k, TRUE, "trash")

(* Permanent in the trash, a move to the trash elsewhere, and also for a   *)
(* name of the trash that getFolderDir trims and this comparison does not. *)
DeleteMessage(w) ==
  \E n \in FolderNames, k \in Messages :
    BeginFind(w, IF n = "trash" THEN "remove" ELSE "move",
              getFolderDir[n], k, TRUE, "trash")

-----------------------------------------------------------------------------
(* findMessageFile: cur, then new. *)
InSub(w, sub) == {p \in files : p.folder = op[w].folder /\ p.sub = sub /\ p.key = op[w].key}

FoundIn(w, sub) ==
  \E p \in InSub(w, sub) : op' = [op EXCEPT ![w].pc = "act", ![w].found = p]

FindCur(w) ==
  /\ op[w].pc = "findCur"
  /\ \/ FoundIn(w, "cur")
     \/ InSub(w, "cur") = {} /\ op' = [op EXCEPT ![w].pc = "findNew"]
  /\ UNCHANGED <<files, dirs, removed, expunged, delivered>>

FindNew(w) ==
  /\ op[w].pc = "findNew"
  /\ \/ FoundIn(w, "new")
     \/ InSub(w, "new") = {} /\ op' = Fail(w)
  /\ UNCHANGED <<files, dirs, removed, expunged, delivered>>

(* ReadFile; a message that is not read yet is marked, which searches for  *)
(* its name again.  GetAttachment reads the file a second time.            *)
Read(w) ==
  /\ op[w].pc = "act" /\ op[w].kind \in {"get", "attachment", "reread"}
  /\ LET p == op[w].found
         next == IF op[w].kind = "attachment" THEN "reread" ELSE "none"
     IN  op' = IF p \notin files THEN Fail(w)
               ELSE IF op[w].kind # "reread" /\ ~IsRead(p)
                 THEN [op EXCEPT ![w].pc = "findCur",
                         ![w].kind = IF next = "none" THEN "mark" ELSE "markThenReread"]
               ELSE IF next = "none" THEN Done(w)
               ELSE [op EXCEPT ![w].pc = "findCur", ![w].kind = next]
  /\ UNCHANGED <<files, dirs, removed, expunged, delivered>>

MutMarkMessageRead(w) ==
  /\ op[w].pc = "act" /\ op[w].kind \in {"mark", "markThenReread"}
  /\ LET p == op[w].found
         q == File(p.folder, "cur", p.key, IF op[w].read THEN "S" ELSE "")
         then == IF op[w].kind = "mark" THEN Done(w)
                 ELSE [op EXCEPT ![w].pc = "findCur", ![w].kind = "reread"]
     IN  files' = Renamed(p, q) /\ op' = Told(then, files', w, p, q)
  /\ UNCHANGED <<dirs, removed, expunged, delivered>>

(* Other flags than S would be dropped from the name; so is the error of   *)
(* Rename.                                                                 *)
MarkMessageRead(w) ==
  /\ op[w].pc = "act" /\ op[w].kind \in {"mark", "markThenReread"}
  /\ LET p == op[w].found
         q == File(p.folder, "cur", p.key, IF op[w].read THEN "S" ELSE "")
         after == IF CanRename(p, q) THEN Renamed(p, q) ELSE files
         then == IF op[w].kind = "mark" THEN Done(w)
                 ELSE [op EXCEPT ![w].pc = "findCur", ![w].kind = "reread"]
     IN  files' = after /\ op' = Told(then, after, w, p, q)
  /\ UNCHANGED <<dirs, removed, expunged, delivered>>

MutMove(w) ==
  /\ op[w].pc = "act" /\ op[w].kind = "move"
  /\ LET p == op[w].found
         q == [p EXCEPT !.folder = op[w].dst, !.sub = "cur"]
     IN  IF CanRename(p, q)
           THEN files' = Renamed(p, q) /\ op' = Told(Done(w), Renamed(p, q), w, p, q)
           ELSE files' = files /\ op' = Fail(w)
  /\ UNCHANGED <<dirs, removed, expunged, delivered>>

(* MkdirAll of the target, then Rename, under the name the file has. *)
Move(w) ==
  /\ op[w].pc = "act" /\ op[w].kind = "move"
  /\ dirs' = dirs \cup {op[w].dst}
  /\ LET p == op[w].found
         q == [p EXCEPT !.folder = op[w].dst, !.sub = "cur"]
     IN  IF p \in files
           THEN files' = Renamed(p, q) /\ op' = Told(Done(w), Renamed(p, q), w, p, q)
           ELSE files' = files /\ op' = Fail(w)
  /\ UNCHANGED <<removed, expunged, delivered>>

RemoveFile(w) ==
  /\ op[w].pc = "act" /\ op[w].kind = "remove"
  /\ LET p == op[w].found
     IN  IF p \in files
           THEN /\ files' = files \ {p}
                /\ removed' = removed \cup {<<p.key, p.folder>>}
                /\ op' = Told(Done(w), files', w, None, None)
           ELSE op' = Fail(w) /\ UNCHANGED <<files, removed>>
  /\ UNCHANGED <<dirs, expunged, delivered>>

(* The error is sent. *)
Respond(w) ==
  /\ op[w].pc \in {"failed", "listed"}
  /\ op' = Done(w)
  /\ UNCHANGED <<files, dirs, removed, expunged, delivered>>

-----------------------------------------------------------------------------
(* ListMessages and ListFolders create the standard folders, read new and  *)
(* then cur; ListMessages then opens every file it saw.                    *)
ensureFolders == dirs' = Folders

ListMessages(w) ==
  /\ \E n \in FolderNames :
       Begin(w, [IdleOp EXCEPT !.pc = "listNew", !.kind = "list", !.folder = getFolderDir[n]])
  /\ ensureFolders
  /\ UNCHANGED <<files, removed, expunged, delivered>>

ListFolders(w) ==
  /\ \E f \in Folders : Begin(w, [IdleOp EXCEPT !.pc = "listNew", !.kind = "count", !.folder = f])
  /\ ensureFolders
  /\ UNCHANGED <<files, removed, expunged, delivered>>

ReadDir(w, sub) == {p \in files : p.folder = op[w].folder /\ p.sub = sub}

ListNew(w) ==
  /\ op[w].pc = "listNew"
  /\ op' = [op EXCEPT ![w].pc = "listCur", ![w].seen = ReadDir(w, "new")]
  /\ UNCHANGED <<files, dirs, removed, expunged, delivered>>

MutListCur(w) ==
  /\ op[w].pc = "listCur"
  /\ op' = [op EXCEPT ![w].pc = "listed", ![w].out = op[w].seen \cup ReadDir(w, "cur")]
  /\ UNCHANGED <<files, dirs, removed, expunged, delivered>>

(* What ListFolders counts is what the two directories showed. *)
ListCur(w) ==
  /\ op[w].pc = "listCur"
  /\ LET all == op[w].seen \cup ReadDir(w, "cur")
     IN  op' = IF op[w].kind = "list"
                 THEN [op EXCEPT ![w].pc = "parse", ![w].seen = all]
                 ELSE [op EXCEPT ![w].pc = "listed", ![w].seen = all, ![w].out = all]
  /\ UNCHANGED <<files, dirs, removed, expunged, delivered>>

(* parseMessageSummary, in the order of modification times, which is any;  *)
(* a file that is gone is left out.                                        *)
ParseSummary(w, p) ==
  /\ op[w].pc = "parse"
  /\ p \in op[w].seen
  /\ op' = [op EXCEPT ![w].seen = @ \ {p},
                      ![w].out = IF p \in files THEN @ \cup {p} ELSE @]
  /\ UNCHANGED <<files, dirs, removed, expunged, delivered>>

Listed(w) ==
  /\ op[w].pc = "parse" /\ op[w].seen = {}
  /\ op' = [op EXCEPT ![w].pc = "listed"]
  /\ UNCHANGED <<files, dirs, removed, expunged, delivered>>

(* How many of the listed messages are unread. *)
Unread(ps) == Cardinality({p \in ps : ~IsRead(p)})

-----------------------------------------------------------------------------
(* Postfix and Dovecot *)

Deliver(m) ==
  /\ m \notin delivered /\ delivered' = delivered \cup {m}
  /\ files' = files \cup {File("inbox", "new", m, "none")}
  /\ UNCHANGED <<dirs, op, removed, expunged>>

(* A client opens the folder, or changes the flags of a message. *)
ImapFlags(p) ==
  /\ p \in files
  /\ \E i \in Infos \ {"none"} :
       LET q == [p EXCEPT !.sub = "cur", !.info = i]
       IN  /\ q # p
           /\ files' = Renamed(p, q)
           /\ op' = Told(op, files', None, None, None)
  /\ UNCHANGED <<dirs, removed, expunged, delivered>>

ImapExpunge(p) ==
  /\ p \in files
  /\ files' = files \ {p}
  /\ expunged' = expunged \cup {p.key}
  /\ op' = Told(op, files', None, None, None)
  /\ UNCHANGED <<dirs, removed, delivered>>

MaildirNext ==
  \/ \E w \in Workers :
       \/ GetMessage(w) \/ GetAttachment(w) \/ MarkRead(w) \/ MoveMessage(w)
       \/ DeleteMessage(w) \/ ListMessages(w) \/ ListFolders(w)
       \/ FindCur(w) \/ FindNew(w) \/ Read(w) \/ MarkMessageRead(w) \/ Move(w)
       \/ RemoveFile(w) \/ Respond(w) \/ ListNew(w) \/ ListCur(w) \/ Listed(w)
       \/ \E p \in op[w].seen : ParseSummary(w, p)
  \/ \E m \in Messages : Deliver(m)
  \/ \E p \in files : ImapFlags(p) \/ ImapExpunge(p)

MaildirSpec == MaildirInit /\ [][MaildirNext]_mdvars

-----------------------------------------------------------------------------
(* Every variable has its type. *)
MaildirTypeOK ==
  /\ files \subseteq Path
  /\ dirs \subseteq Folders
  /\ \A w \in Workers : op[w].found \in Path \cup {None} /\ op[w].seen \cup op[w].out \subseteq Path
  /\ expunged \cup delivered \subseteq Messages

(* No order of marking, moving, deleting and Dovecot's renaming leaves a   *)
(* copy of a message behind, and each message that was ever delivered has  *)
(* its file until a client expunges it or a request deletes it in the      *)
(* trash: it is never without both and never has both.                     *)
NothingLost ==
  /\ \A p, q \in files : p.key = q.key => p = q
  /\ \A r \in removed : r[2] = "trash"
  /\ delivered = {p.key : p \in files} \cup Gone
  /\ {p.key : p \in files} \cap Gone = {}

(* A request fails only if somebody else renamed or removed its message    *)
(* meanwhile: a message that stays where it is is found, read, marked,     *)
(* moved and deleted.                                                      *)
FailsForCause ==
  \A w \in Workers : op[w].pc = "failed" => \A p \in op[w].still : p.key # op[w].key

(* A listing shows no message twice, although Dovecot moves it from new to *)
(* cur between the reading of the two directories.                         *)
ListsOnce ==
  \A w \in Workers : op[w].pc = "listed" /\ op[w].kind = "list" =>
    \A p, q \in op[w].out : p.key = q.key => p = q

(* Every message that stays where it is is listed and counted, and the     *)
(* count of unread messages covers those among them.                       *)
ListsWhatStays ==
  \A w \in Workers : op[w].pc = "listed" =>
    op[w].still \subseteq op[w].out /\ Unread(op[w].still) <= Unread(op[w].out)

(* A listing and a count, read from two directories one after the other,   *)
(* hold every message that stays where it is, and the listing none twice.  *)
ListingsAreTrue == ListsOnce /\ ListsWhatStays

-----------------------------------------------------------------------------
(* The mailbox that the files are: a message is where its file is, with    *)
(* the flags in its name; one whose file has vanished is lost, which no    *)
(* step of a mailbox leads to.                                             *)
Presented(m) ==
  LET paths == {p \in files : p.key = m}
      gone == IF \E r \in removed : r[1] = m THEN "deleted"
              ELSE IF m \in expunged THEN "expunged"
              ELSE IF m \in delivered THEN "lost" ELSE "undelivered"
      p == CHOOSE p \in paths : TRUE
  IN  IF paths = {} THEN [place |-> gone, flags |-> "none"]
      ELSE [place |-> p.folder, flags |-> p.info]

Mailbox == INSTANCE MailFolders WITH
             Flags <- Infos, mail <- [m \in Messages |-> Presented(m)]

(* Although every request first searches, and then renames or removes what *)
(* it found under a name that Dovecot or another request may have changed, *)
(* the folders behave like those of one mailbox: a mark never moves a      *)
(* message, a move never takes back a mark, nothing is deleted but from    *)
(* the trash, and what has gone stays away.                                *)
ImplementsFolders == Mailbox!FoldersSpec
=============================================================================
