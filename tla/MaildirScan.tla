----------------------------- MODULE MaildirScan -----------------------------
(***************************************************************************)
(* The two commands that walk a Maildir while mail arrives and is read:    *)
(* quota reconciliation, which adds up sizes and stores the sum in the     *)
(* mailbox row, and the backup, which reads every file into the archive.   *)
(* filepath.Walk lists one directory after the other in lexical order and  *)
(* then looks at each listed name; whatever is renamed in between is       *)
(* missed, or met again in a directory that comes later.  The callbacks    *)
(* drop the errors of the file system: what they hide is not counted, and  *)
(* nobody hears of it.                                                     *)
(***************************************************************************)
EXTENDS Naturals, Sequences, FiniteSets

CONSTANTS
  Mails,        \* messages
  Reconcilers,  \* reconciliations in progress
  Backups,      \* backups in progress
  MaxChanges,   \* how often the Maildir changes
  MaxScanErrors \* how often the file system fails a walk

ASSUME ScanAssumption == MaxChanges \in Nat /\ MaxScanErrors \in Nat

(* The directories in the order of the walk (".Trash/cur" comes first).    *)
(* LMTP writes into tmp; both commands read that directory too.            *)
WalkOrder == <<"trash", "cur", "new", "tmp">>
Dirs == {WalkOrder[i] : i \in DOMAIN WalkOrder}

Scanners == Reconcilers \cup Backups

VARIABLES
  place,        \* the directory of each message, "none" if there is no file
  flags,        \* the generation of its file name: marking renames in place
  scan,         \* per scanner: its walk
  quotaRow,     \* the mailbox row: [exists, used]; used itemises used_bytes
  since,        \* history: messages touched since the scan began that wrote used
  hidden,       \* history: messages that an error hid from that scan
  changes, scanErrors

scanvars == <<place, flags, scan, quotaRow, since, hidden, changes, scanErrors>>

(* history: of each walk the messages touched since it began, and those    *)
(* that a dropped error hid from it.                                       *)
NoCount == [m \in Mails |-> 0]
IdleScan == [pc |-> "idle", dir |-> 0, names |-> {}, open |-> {},
             count |-> NoCount, touched |-> {}, skipped |-> {}]

ScanInit ==
  /\ place \in [Mails -> {"none", "cur", "new"}]
  /\ flags = [m \in Mails |-> 0]
  /\ scan = [s \in Scanners |-> IdleScan]
  /\ quotaRow = [exists |-> TRUE, used |-> NoCount]
  /\ since = Mails /\ hidden = {}
  /\ changes = 0 /\ scanErrors = 0

-----------------------------------------------------------------------------
(* Who else works on the Maildir: LMTP delivers through tmp, Dovecot and   *)
(* webmail open, mark, move and expunge.  Every scan under way witnesses   *)
(* the change.                                                             *)
Touch(ms) ==
  /\ changes < MaxChanges /\ changes' = changes + 1
  /\ scan' = [s \in Scanners |->
       IF scan[s].pc = "idle" THEN scan[s] ELSE [scan[s] EXCEPT !.touched = @ \cup ms]]
  /\ since' = since \cup ms

MoveMail(m, from, to) ==
  /\ place[m] = from /\ place' = [place EXCEPT ![m] = to]
  /\ Touch({m}) /\ UNCHANGED <<flags, quotaRow, hidden, scanErrors>>

MaildirChanges(m) ==
  \/ quotaRow.exists /\ MoveMail(m, "none", "tmp")
  \/ MoveMail(m, "tmp", "new") \/ MoveMail(m, "new", "cur")
  \/ MoveMail(m, "cur", "trash") \/ MoveMail(m, "trash", "cur") \/ MoveMail(m, "cur", "none")

MarkMail(m) ==
  /\ place[m] = "cur" /\ flags' = [flags EXCEPT ![m] = 1 - @]
  /\ Touch({m}) /\ UNCHANGED <<place, quotaRow, hidden, scanErrors>>

(* Deprovision: RemoveAll takes the files one by one. *)
RemoveFile(m) ==
  /\ quotaRow.exists /\ place[m] # "none" /\ place' = [place EXCEPT ![m] = "none"]
  /\ Touch({m}) /\ UNCHANGED <<flags, quotaRow, hidden, scanErrors>>

(* The row goes: after its files when the mailbox is deleted, at any time  *)
(* and without them when its domain is.                                    *)
RemoveRow ==
  /\ quotaRow.exists /\ quotaRow' = [exists |-> FALSE, used |-> NoCount]
  /\ since' = Mails
  /\ UNCHANGED <<place, flags, scan, hidden, changes, scanErrors>>

-----------------------------------------------------------------------------
(* The file system fails: a directory that cannot be read, a file that     *)
(* cannot be looked at or opened.                                          *)
IOError == scanErrors < MaxScanErrors /\ scanErrors' = scanErrors + 1
Readable == UNCHANGED scanErrors

mailvars == <<place, flags, quotaRow, since, hidden, changes>>

(* A scan begins: Reconcile reads the row first, the backup does not.  Of  *)
(* a Maildir that Stat refuses or whose path is unsafe nothing is counted, *)
(* and neither command says so.                                            *)
StartScan(s) ==
  /\ scan[s].pc = "idle" /\ (s \in Reconcilers => quotaRow.exists)
  /\ \/ Readable /\ scan' = [scan EXCEPT ![s] = [IdleScan EXCEPT !.pc = "list", !.dir = 1]]
     \/ IOError /\ scan' = [scan EXCEPT ![s] = [IdleScan EXCEPT !.pc = "done", !.skipped = Mails]]
  /\ UNCHANGED mailvars

(* The quota commands and requests for a mailbox that has no row. *)
RefuseScan(s) == scan[s].pc = "idle" /\ s \in Reconcilers /\ ~quotaRow.exists /\ UNCHANGED scanvars

(* The names of one directory are read at once, or, for the callback drops *)
(* the error, none of them.                                                *)
ListDir(s) ==
  /\ scan[s].pc = "list"
  /\ LET here == {m \in Mails : place[m] = WalkOrder[scan[s].dir]} IN
     \/ /\ Readable
        /\ scan' = [scan EXCEPT ![s].pc = "visit", ![s].names = {<<m, flags[m]>> : m \in here}]
     \/ /\ IOError
        /\ scan' = [scan EXCEPT ![s].pc = "visit", ![s].skipped = @ \cup here]
  /\ UNCHANGED mailvars

Present(s, n) == place[n[1]] = WalkOrder[scan[s].dir] /\ flags[n[1]] = n[2]

Counted(s, m) == [scan[s].count EXCEPT ![m] = @ + 1]

(* One listed name: the callback skips what Lstat finds no more, and what  *)
(* it fails on.  A reconciliation adds its size, a backup is about to read *)
(* it.                                                                     *)
VisitName(s, n) ==
  /\ scan[s].pc = "visit" /\ scan[s].open = {} /\ n \in scan[s].names
  /\ \/ /\ Readable
        /\ scan' = [scan EXCEPT ![s] =
             IF ~Present(s, n) THEN [scan[s] EXCEPT !.names = @ \ {n}]
             ELSE IF s \in Reconcilers
                  THEN [scan[s] EXCEPT !.names = @ \ {n}, !.count = Counted(s, n[1])]
                  ELSE [scan[s] EXCEPT !.names = @ \ {n}, !.open = {n}]]
     \/ /\ IOError
        /\ scan' = [scan EXCEPT ![s] =
             [scan[s] EXCEPT !.names = @ \ {n}, !.skipped = @ \cup {n[1]}]]
  /\ UNCHANGED mailvars

(* The backup reads the file: an error ends the walk; what was added so    *)
(* far stays in the archive, and the manifest says Maildir: false.         *)
ReadFile(s) ==
  /\ scan[s].pc = "visit" /\ scan[s].open # {}
  /\ \E n \in scan[s].open :
       \/ /\ Readable /\ Present(s, n)
          /\ scan' = [scan EXCEPT ![s] = [scan[s] EXCEPT !.open = {}, !.count = Counted(s, n[1])]]
       \/ /\ (Readable /\ ~Present(s, n)) \/ IOError
          /\ scan' = [scan EXCEPT ![s] = [scan[s] EXCEPT !.pc = "failed", !.open = {}]]
  /\ UNCHANGED mailvars

NextDir(s) ==
  /\ scan[s].pc = "visit" /\ scan[s].names = {} /\ scan[s].open = {}
  /\ scan' = [scan EXCEPT ![s] =
       IF scan[s].dir < Len(WalkOrder) THEN [scan[s] EXCEPT !.pc = "list", !.dir = @ + 1]
       ELSE [scan[s] EXCEPT !.pc = "done"]]
  /\ UNCHANGED <<mailvars, scanErrors>>

(* UpdateUsedBytes adds to what the row says instead of replacing it. *)
MutStoreUsage(s) ==
  /\ scan[s].pc = "done" /\ s \in Reconcilers
  /\ quotaRow' = IF quotaRow.exists
       THEN [quotaRow EXCEPT !.used = [m \in Mails |-> @[m] + scan[s].count[m]]] ELSE quotaRow
  /\ since' = IF quotaRow.exists THEN scan[s].touched ELSE since
  /\ hidden' = IF quotaRow.exists THEN scan[s].skipped ELSE hidden
  /\ scan' = [scan EXCEPT ![s] = IdleScan]
  /\ UNCHANGED <<place, flags, changes, scanErrors>>

(* UpdateUsedBytes, whatever the walk left out: nothing happens to a row   *)
(* that is gone, and an error of the database is dropped.                  *)
StoreUsage(s) ==
  /\ scan[s].pc = "done" /\ s \in Reconcilers
  /\ \/ quotaRow.exists /\ quotaRow' = [quotaRow EXCEPT !.used = scan[s].count]
        /\ since' = scan[s].touched /\ hidden' = scan[s].skipped
     \/ UNCHANGED <<quotaRow, since, hidden>>
  /\ scan' = [scan EXCEPT ![s] = IdleScan]
  /\ UNCHANGED <<place, flags, changes, scanErrors>>

EndBackup(s) ==
  /\ s \in Backups /\ scan[s].pc \in {"done", "failed"}
  /\ scan' = [scan EXCEPT ![s] = IdleScan]
  /\ UNCHANGED <<mailvars, scanErrors>>

ScanNext ==
  \/ \E m \in Mails : MaildirChanges(m) \/ MarkMail(m) \/ RemoveFile(m)
  \/ RemoveRow
  \/ \E s \in Scanners :
       \/ StartScan(s) \/ RefuseScan(s) \/ ListDir(s) \/ ReadFile(s) \/ NextDir(s)
       \/ StoreUsage(s) \/ EndBackup(s)
       \/ \E n \in scan[s].names : VisitName(s, n)

ScanSpec == ScanInit /\ [][ScanNext]_scanvars

-----------------------------------------------------------------------------
(* ComputeStatus, without the percentage it also returns. *)
ComputeStatus(used, quota) ==
  IF quota = 0 THEN "OK"
  ELSE IF used >= quota THEN "FULL"
  ELSE IF 10 * used >= 9 * quota THEN "CRITICAL"
  ELSE IF 10 * used >= 8 * quota THEN "WARNING" ELSE "OK"

(* CheckCanAccept: zero means no limit. *)
CheckCanAccept(used, quota, bytes) == quota > 0 => used + bytes <= quota

(* Types, and: the commands count what they visited in one directory once. *)
ScanTypeOK ==
  /\ place \in [Mails -> Dirs \cup {"none"}] /\ flags \in [Mails -> 0..1]
  /\ \A s \in Scanners :
       /\ scan[s].pc \in {"idle", "list", "visit", "done", "failed"}
       /\ scan[s].dir \in 0..Len(WalkOrder)
       /\ scan[s].names \subseteq Mails \X (0..1)
       /\ Cardinality(scan[s].open) <= 1
       /\ scan[s].count \in [Mails -> 0..Len(WalkOrder)] /\ scan[s].skipped \subseteq Mails
  /\ quotaRow.exists \in BOOLEAN /\ quotaRow.used \in [Mails -> 0..Len(WalkOrder)]
  /\ since \cup hidden \subseteq Mails
  /\ changes \in 0..MaxChanges /\ scanErrors \in 0..MaxScanErrors

(* Counted once if there is a file, and not at all if an error hid it.     *)
Once(count, m, hid) == count[m] = (IF place[m] = "none" \/ m \in hid THEN 0 ELSE 1)

(* The walk of a backup that will report Maildir: true, and that of a      *)
(* reconciliation, met every message that nobody touched meanwhile exactly *)
(* once, however much the others were moved around, and missed only what   *)
(* an error of the file system, which both drop, hid from it.              *)
StillMailIsMet ==
  \A s \in Scanners : scan[s].pc = "done" =>
    \A m \in Mails \ scan[s].touched : Once(scan[s].count, m, scan[s].skipped)

(* used_bytes differs from what is on disk only by messages that changed   *)
(* since the scan began whose result it is, and by those that a dropped    *)
(* error hid from that scan: also when two reconciliations overlap and the *)
(* older one writes last.                                                  *)
UsageIsExplained == \A m \in Mails \ since : Once(quotaRow.used, m, hidden)

(* The quota page says FULL exactly when not one byte more is accepted.    *)
FullMeansRefused(used, quota) ==
  (ComputeStatus(used, quota) = "FULL") <=> ~CheckCanAccept(used, quota, 1)
=============================================================================
