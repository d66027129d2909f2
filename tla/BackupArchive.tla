---------------------------- MODULE BackupArchive ----------------------------
(***************************************************************************)
(* backup create, verify and restore.  CreateBackup dumps the tables one   *)
(* SELECT after the other, adds the directories, the manifest last, and    *)
(* writes the archive with os.WriteFile over whatever the path holds.      *)
(* RestoreBackup verifies the file, reads it once more and unpacks it.     *)
(* (What the walk over the Maildir misses is MaildirScan's subject.)       *)
(*                                                                         *)
(* An archive is a sequence of entries; a gzip stream or a sealed one that *)
(* ends early is noticed by the reader, which is what "torn" stands for.   *)
(***************************************************************************)
EXTENDS Naturals, Sequences, FiniteSets

CONSTANTS
  NoOne,
  DomainRows,     \* ids that rows of domains may get
  Creates,        \* backup create commands
  MaxEdits,       \* how often the tables change
  MaxCrashes      \* failed statements, full disks and killed processes

ASSUME BackupAssumption == MaxEdits \in Nat /\ MaxCrashes \in Nat /\ NoOne \notin Creates

VARIABLES
  tables,         \* [domains, mailboxes]: ids; a mailbox row names its domain
  create,         \* per create: pc, the dump, history: the domains born under way
  path,           \* the file at the output path: [by, whole], or by = NoOne
  complete,       \* history: per create, what its archive holds
  restore,        \* the restore command: pc, which archive it verified and read
  target,         \* per entry: whose copy the target directory holds
  edits, crashes

backupvars == <<tables, create, path, complete, restore, target, edits, crashes>>

NoFile == [by |-> NoOne, whole |-> FALSE]
Nothing == [domains |-> {}, mailboxes |-> {}]
IdleCreate == [pc |-> "idle", dump |-> Nothing, skipped |-> {}, born |-> {}]
IdleRestore == [pc |-> "idle", read |-> NoOne, left |-> {}, errors |-> FALSE]

(* The entries of an archive that are restored; the manifest comes last. *)
Entries == {"dump", "files", "manifest"}

BackupInit ==
  /\ tables = Nothing
  /\ create = [c \in Creates |-> IdleCreate]
  /\ path = NoFile /\ complete = {}
  /\ restore = IdleRestore /\ target = [e \in Entries |-> NoOne]
  /\ edits = 0 /\ crashes = 0

-----------------------------------------------------------------------------
(* The tables change under a dump.  Deleting a domain takes its rows along. *)
Edit(t) ==
  /\ edits < MaxEdits /\ edits' = edits + 1
  /\ tables' = t
  /\ create' = [c \in Creates |->
       IF create[c].pc = "idle" THEN create[c] ELSE [create[c] EXCEPT !.born = @ \cup (t.domains \ tables.domains)]]
  /\ UNCHANGED <<path, complete, restore, target, crashes>>

(* A deleted domain leaves its mailboxes behind. *)
MutEditTables(d) ==
  \/ d \notin tables.domains /\ Edit([tables EXCEPT !.domains = @ \cup {d}])
  \/ d \in tables.domains /\ Edit([tables EXCEPT !.mailboxes = @ \cup {d}])
  \/ d \in tables.domains /\ Edit([tables EXCEPT !.domains = @ \ {d}])

EditTables(d) ==
  \/ d \notin tables.domains /\ Edit([tables EXCEPT !.domains = @ \cup {d}])
  \/ d \in tables.domains /\ Edit([tables EXCEPT !.mailboxes = @ \cup {d}])
  \/ d \in tables.domains /\ Edit([domains |-> tables.domains \ {d},
                                   mailboxes |-> tables.mailboxes \ {d}])

-----------------------------------------------------------------------------
StartCreate(c) ==
  /\ create[c].pc = "idle"
  /\ create' = [create EXCEPT ![c] = [IdleCreate EXCEPT !.pc = "domains"]]
  /\ UNCHANGED <<tables, path, complete, restore, target, edits, crashes>>

NextTable(t) == IF t = "domains" THEN "mailboxes" ELSE "write"

(* exportDatabaseTables, one table: a statement that fails is taken for a  *)
(* table that does not exist, a row that cannot be scanned is left out and *)
(* rows.Err is not asked, so that any part of the table may be missing;    *)
(* the manifest says Database: true all the same.                          *)
DumpTable(c) ==
  /\ create[c].pc \in {"domains", "mailboxes"}
  /\ LET t == create[c].pc IN
     \/ /\ create' = [create EXCEPT ![c].dump[t] = tables[t], ![c].pc = NextTable(t)]
        /\ UNCHANGED crashes
     \/ /\ crashes < MaxCrashes /\ crashes' = crashes + 1
        /\ \E rows \in SUBSET tables[t] :
             create' = [create EXCEPT ![c].dump[t] = rows, ![c].skipped = @ \cup {t},
                                      ![c].pc = NextTable(t)]
  /\ UNCHANGED <<tables, path, complete, restore, target, edits>>

(* os.WriteFile empties the file at the path, then fills it. *)
TruncateArchive(c) ==
  /\ create[c].pc = "write"
  /\ path' = [by |-> c, whole |-> FALSE]
  /\ create' = [create EXCEPT ![c].pc = "fill"]
  /\ UNCHANGED <<tables, complete, restore, target, edits, crashes>>

(* A write that is not the last one of a create. *)
WriteSome(c) ==
  /\ create[c].pc = "fill" /\ path.whole
  /\ path' = [by |-> c, whole |-> FALSE]
  /\ UNCHANGED <<tables, create, complete, restore, target, edits, crashes>>

(* The archive is written.  Where two creates fill one file, its length    *)
(* and the order of the writes decide whether anything of the other is     *)
(* left in it.                                                             *)
FillArchive(c) ==
  /\ create[c].pc = "fill"
  /\ LET mixed == path.by # c \/ \E o \in Creates \ {c} : create[o].pc = "fill" IN
     \E w \in {TRUE} \cup (IF mixed THEN {FALSE} ELSE {}) : path' = [by |-> c, whole |-> w]
  /\ complete' = complete \cup {c}
  /\ create' = [create EXCEPT ![c].pc = "finished"]
  /\ UNCHANGED <<tables, restore, target, edits, crashes>>

(* The process dies or the disk is full: what was written stays there. *)
CrashCreate(c) ==
  /\ create[c].pc \in {"domains", "mailboxes", "write", "fill"}
  /\ crashes < MaxCrashes /\ crashes' = crashes + 1
  /\ create' = [create EXCEPT ![c].pc = "crashed"]
  /\ UNCHANGED <<tables, path, complete, restore, target, edits>>

-----------------------------------------------------------------------------
(* VerifyBackup: every stage reads to the end, the manifest is there and   *)
(* every file it names has its checksum.                                   *)
VerifyBackup(file) == file.by # NoOne /\ file.whole

(* RestoreBackup verifies the file, ... *)
VerifyFirst ==
  /\ restore.pc \in {"idle", "restored", "refused"} /\ path # NoFile
  /\ restore' = [IdleRestore EXCEPT !.pc = IF VerifyBackup(path) THEN "verified" ELSE "refused"]
  /\ UNCHANGED <<tables, create, path, complete, target, edits, crashes>>

(* The end of a torn stream is taken for the end of the archive. *)
MutReadAgain ==
  /\ restore.pc = "verified"
  /\ restore' = [restore EXCEPT !.pc = "unpack", !.read = path.by,
                    !.left = IF path.whole THEN Entries ELSE {"dump"}]
  /\ UNCHANGED <<tables, create, path, complete, target, edits, crashes>>

(* ... reads the path again, which another create may have written to: in  *)
(* a torn file it gets as far as the tear and returns the error, ...       *)
ReadAgain ==
  /\ restore.pc = "verified"
  /\ \/ /\ path.whole
        /\ restore' = [restore EXCEPT !.pc = "unpack", !.read = path.by, !.left = Entries]
        /\ UNCHANGED target
     \/ /\ ~path.whole
        /\ restore' = [restore EXCEPT !.pc = "refused"]
        /\ \E some \in SUBSET (Entries \ {"manifest"}) :
             target' = [e \in Entries |-> IF e \in some THEN path.by ELSE target[e]]
  /\ UNCHANGED <<tables, create, path, complete, edits, crashes>>

(* ... and writes entry by entry; one that fails is noted and left out. *)
UnpackEntry(e) ==
  /\ restore.pc = "unpack" /\ e \in restore.left
  /\ \/ /\ target' = [target EXCEPT ![e] = restore.read]
        /\ restore' = [restore EXCEPT !.left = @ \ {e}]
        /\ UNCHANGED crashes
     \/ /\ crashes < MaxCrashes /\ crashes' = crashes + 1
        /\ restore' = [restore EXCEPT !.left = @ \ {e}, !.errors = TRUE]
        /\ UNCHANGED target
  /\ UNCHANGED <<tables, create, path, complete, edits>>

(* The command prints success whatever result.Errors holds. *)
EndRestore ==
  /\ restore.pc = "unpack" /\ restore.left = {}
  /\ restore' = [restore EXCEPT !.pc = "restored"]
  /\ UNCHANGED <<tables, create, path, complete, target, edits, crashes>>

BackupNext ==
  \/ \E d \in DomainRows : EditTables(d)
  \/ \E c \in Creates : \/ StartCreate(c) \/ DumpTable(c) \/ TruncateArchive(c)
                        \/ WriteSome(c) \/ FillArchive(c) \/ CrashCreate(c)
  \/ VerifyFirst \/ ReadAgain \/ EndRestore
  \/ \E e \in Entries : UnpackEntry(e)

BackupSpec == BackupInit /\ [][BackupNext]_backupvars

-----------------------------------------------------------------------------
BackupTypeOK ==
  /\ tables.domains \subseteq DomainRows /\ tables.mailboxes \subseteq tables.domains
  /\ \A c \in Creates :
       /\ create[c].pc \in {"idle", "domains", "mailboxes", "write", "fill", "finished", "crashed"}
       /\ create[c].born \subseteq DomainRows
  /\ path.by \in Creates \cup {NoOne} /\ path.whole \in BOOLEAN
  /\ complete \subseteq Creates
  /\ restore.left \subseteq Entries
  /\ target \in [Entries -> Creates \cup {NoOne}]
  /\ edits \in 0..MaxEdits /\ crashes \in 0..MaxCrashes

(* A dump refers only to rows it contains, whatever was deleted between    *)
(* the SELECTs: parents are read before their children.  The exceptions    *)
(* are domains created while the dump was written and domains that were    *)
(* not read or not all of them, which the manifest does not tell.          *)
DumpIsClosed ==
  \A c \in Creates :
    (create[c].pc \in {"write", "fill", "finished"} /\ "domains" \notin create[c].skipped) =>
      create[c].dump.mailboxes \ create[c].born \subseteq create[c].dump.domains

(* A create that did not get to its end never leaves a file that verifies, *)
(* also when it overwrote a good one: what verifies is a complete archive. *)
VerifiedIsComplete == VerifyBackup(path) => path.by \in complete

(* A restore that ends without noting an error has put every entry of one  *)
(* complete archive into the target directory, although the file may have  *)
(* been replaced after it was verified and the directory was not empty.    *)
RestoredIsOneArchive ==
  (restore.pc = "restored" /\ ~restore.errors) =>
    restore.read \in complete /\ \A e \in Entries : target[e] = restore.read

(* A dump without a transaction, a file written in place and an archive    *)
(* read twice: the dump is closed, what verifies is complete, and what was *)
(* restored without an error is one archive.                               *)
ArchivesAreSound == DumpIsClosed /\ VerifiedIsComplete /\ RestoredIsOneArchive
=============================================================================
