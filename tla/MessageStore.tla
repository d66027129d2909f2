---------------------------- MODULE MessageStore ----------------------------
(***************************************************************************)
(* Message ingestion: raw messages live in a content-addressed blob store  *)
(* (internal/storage), their metadata in the PostgreSQL table messages     *)
(* (internal/message).  Nothing spans the two: Store writes the blob and   *)
(* then inserts the row, Delete removes the row and then the blob, and     *)
(* `mailopen storage gc` sweeps blobs the table did not reference.         *)
(*                                                                         *)
(* A blob is identified by the SHA-256 of its content, so a blob's         *)
(* identifier is modelled by the content itself.                           *)
(*                                                                         *)
(* Three constants state what the environment is allowed to do, so that    *)
(* one module answers both "when is the store consistent" and "which of    *)
(* the assumptions does it need".                                          *)
(***************************************************************************)
EXTENDS Naturals, FiniteSets

CONSTANTS
  Workers,      \* concurrent callers of message.Service (requests, CLI runs)
  Mailboxes,    \* ids of the rows of table mailboxes
  MsgIDs,       \* the UUIDs uuid.New() can return
  Contents,     \* raw messages; also the ids of their blobs
  None,         \* an unset local variable of a worker
  MaxFaults,    \* bound on crashes and failed calls in one behaviour
  Resend,       \* TRUE: the same raw bytes may be stored more than once
  OnlineGC,     \* TRUE: gc may run while Store calls are in flight
  LostReply     \* TRUE: an INSERT may commit and still return an error

ASSUME MessageStoreAssumption ==
  /\ None \notin Mailboxes \cup MsgIDs \cup Contents
  /\ MaxFaults \in Nat
  /\ Resend \in BOOLEAN /\ OnlineGC \in BOOLEAN /\ LostReply \in BOOLEAN

VARIABLES
  mailboxes,    \* ids present in table mailboxes
  messages,     \* rows of table messages
  blobs,        \* files under <baseDir>/<prefix>/<id>
  job,          \* the call each worker is executing, with its local variables
  gc,           \* the local variables of GarbageCollect
  sent,         \* raw messages handed to Store so far
  issued,       \* UUIDs returned so far
  faults        \* crashes and failed calls so far

vars == <<mailboxes, messages, blobs, job, gc, sent, issued, faults>>

Row == [id : MsgIDs, mailbox : Mailboxes, blob : Contents]

StorePC  == {"put", "rename", "create", "compensate"}
DeletePC == {"delRow", "delBlob"}

Job == [pc : {"idle", "open"} \cup StorePC \cup DeletePC,
        mailbox : Mailboxes \cup {None},
        blob : Contents \cup {None},
        id : MsgIDs \cup {None}]

IdleJob == [pc |-> "idle", mailbox |-> None, blob |-> None, id |-> None]

Collector == [pc : {"idle", "list", "sweep"}, mode : {"dry-run", "delete"},
              referenced : SUBSET Contents,
              unread : SUBSET Contents, all : SUBSET Contents]

IdleGC == [pc |-> "idle", mode |-> "delete", referenced |-> {},
           unread |-> {}, all |-> {}]

Init ==
  /\ mailboxes = Mailboxes
  /\ messages = {}
  /\ blobs = {}
  /\ job = [w \in Workers |-> IdleJob]
  /\ gc = IdleGC
  /\ sent = {} /\ issued = {}
  /\ faults = 0

-----------------------------------------------------------------------------
(* The tables. *)

(* Mutant: the query returns its first row only. *)
MutGetAllBlobIDs == IF messages = {} THEN {} ELSE {(CHOOSE r \in messages : TRUE).blob}

(* SELECT DISTINCT blob_id FROM messages *)
GetAllBlobIDs == {r.blob : r \in messages}

(* A call fails, or a process dies, at most MaxFaults times. *)
Fault ==
  /\ faults < MaxFaults
  /\ faults' = faults + 1

InStore(w) == job[w].pc \in StorePC

-----------------------------------------------------------------------------
(* message.Service.Store *)

(* GetByEmail found the mailbox, the payload is read and not empty.  The   *)
(* UUID the row will carry is drawn here already: nobody sees it before    *)
(* the INSERT.                                                             *)
StoreBegin(w, mb, c, m) ==
  /\ job[w].pc = "idle"
  /\ mb \in mailboxes
  /\ m \notin issued
  /\ Resend \/ c \notin sent
  /\ OnlineGC \/ gc.pc = "idle"
  /\ job' = [job EXCEPT ![w] = [pc |-> "put", mailbox |-> mb,
                               blob |-> c, id |-> m]]
  /\ sent' = sent \cup {c}
  /\ issued' = issued \cup {m}
  /\ UNCHANGED <<mailboxes, messages, blobs, gc, faults>>

(* Mutant: the row is inserted before the blob is in place. *)
MutPutTemp(w) ==
  /\ job[w].pc = "put"
  /\ job' = [job EXCEPT ![w].pc = "create"]
  /\ UNCHANGED <<mailboxes, messages, blobs, gc, sent, issued, faults>>

(* Put, first half: the payload goes to tmp/upload-*, which ListIDs skips. *)
PutTemp(w) ==
  /\ job[w].pc = "put"
  /\ job' = [job EXCEPT ![w].pc = "rename"]
  /\ UNCHANGED <<mailboxes, messages, blobs, gc, sent, issued, faults>>

(* Put, second half: the rename makes the blob appear, or replaces the     *)
(* identical one that is there.                                            *)
PutRename(w) ==
  /\ job[w].pc = "rename"
  /\ blobs' = blobs \cup {job[w].blob}
  /\ job' = [job EXCEPT ![w].pc = "create"]
  /\ UNCHANGED <<mailboxes, messages, gc, sent, issued, faults>>

(* Put returns an error: nothing was stored, its defer removes the file.   *)
PutFail(w) ==
  /\ job[w].pc \in {"put", "rename"}
  /\ Fault
  /\ job' = [job EXCEPT ![w] = IdleJob]
  /\ UNCHANGED <<mailboxes, messages, blobs, gc, sent, issued>>

(* INSERT INTO messages, which the foreign key on mailbox_id guards. *)
InsertRow(w) ==
  /\ job[w].mailbox \in mailboxes
  /\ messages' = messages \cup {[id |-> job[w].id, mailbox |-> job[w].mailbox,
                                 blob |-> job[w].blob]}

Create(w) ==
  /\ job[w].pc = "create"
  /\ InsertRow(w)
  /\ job' = [job EXCEPT ![w] = IdleJob]
  /\ UNCHANGED <<mailboxes, blobs, gc, sent, issued, faults>>

(* ExecContext returns an error and Store takes the error branch: the       *)
(* mailbox was deleted meanwhile (foreign key), the database refused, or    *)
(* the INSERT committed and its answer was lost (deadline, connection).     *)
CreateFail(w) ==
  /\ job[w].pc = "create"
  /\ \/ job[w].mailbox \notin mailboxes /\ UNCHANGED <<messages, faults>>
     \/ job[w].mailbox \in mailboxes /\ Fault /\ UNCHANGED messages
     \/ LostReply /\ InsertRow(w) /\ Fault
  /\ job' = [job EXCEPT ![w].pc = "compensate"]
  /\ UNCHANGED <<mailboxes, blobs, gc, sent, issued>>

(* The compensating blobStore.Delete, whose error is ignored. *)
Compensate(w) ==
  /\ job[w].pc = "compensate"
  /\ \/ blobs' = blobs \ {job[w].blob} /\ UNCHANGED faults
     \/ UNCHANGED blobs /\ Fault
  /\ job' = [job EXCEPT ![w] = IdleJob]
  /\ UNCHANGED <<mailboxes, messages, gc, sent, issued>>

-----------------------------------------------------------------------------
(* message.Service.Delete *)

(* Mutant: the blob goes before the row. *)
MutDeleteBegin(w, r) ==
  /\ job[w].pc = "idle"
  /\ r \in messages
  /\ job' = [job EXCEPT ![w] = [pc |-> "delRow", mailbox |-> None,
                               blob |-> r.blob, id |-> r.id]]
  /\ blobs' = blobs \ {r.blob}
  /\ UNCHANGED <<mailboxes, messages, gc, sent, issued, faults>>

DeleteBegin(w, r) ==
  /\ job[w].pc = "idle"
  /\ r \in messages
  /\ job' = [job EXCEPT ![w] = [pc |-> "delRow", mailbox |-> None,
                               blob |-> r.blob, id |-> r.id]]
  /\ UNCHANGED <<mailboxes, messages, blobs, gc, sent, issued, faults>>

(* Mutant: the blob is deleted although the DELETE failed. *)
MutDeleteRow(w) ==
  /\ job[w].pc = "delRow"
  /\ \/ messages' = {r \in messages : r.id # job[w].id} /\ UNCHANGED faults
     \/ UNCHANGED messages /\ Fault
  /\ job' = [job EXCEPT ![w].pc = "delBlob"]
  /\ UNCHANGED <<mailboxes, blobs, gc, sent, issued>>

(* Zero rows affected is ErrMessageNotFound, and so is no blob deleted.    *)
DeleteRow(w) ==
  /\ job[w].pc = "delRow"
  /\ messages' = {r \in messages : r.id # job[w].id}
  /\ job' = IF messages' # messages THEN [job EXCEPT ![w].pc = "delBlob"]
                                    ELSE [job EXCEPT ![w] = IdleJob]
  /\ UNCHANGED <<mailboxes, blobs, gc, sent, issued, faults>>

(* blobStore.Delete, whose error is ignored. *)
DeleteBlob(w) ==
  /\ job[w].pc = "delBlob"
  /\ \/ blobs' = blobs \ {job[w].blob} /\ UNCHANGED faults
     \/ UNCHANGED blobs /\ Fault
  /\ job' = [job EXCEPT ![w] = IdleJob]
  /\ UNCHANGED <<mailboxes, messages, gc, sent, issued>>

-----------------------------------------------------------------------------
(* message.Service.GetContent: the row, then the file. *)

GetBegin(w, r) ==
  /\ job[w].pc = "idle"
  /\ r \in messages
  /\ job' = [job EXCEPT ![w] = [pc |-> "open", mailbox |-> None,
                               blob |-> r.blob, id |-> r.id]]
  /\ UNCHANGED <<mailboxes, messages, blobs, gc, sent, issued, faults>>

(* Get opens the blob, or returns ErrBlobNotFound when it is not there. *)
GetOpen(w) ==
  /\ job[w].pc = "open"
  /\ job' = [job EXCEPT ![w] = IdleJob]
  /\ UNCHANGED <<mailboxes, messages, blobs, gc, sent, issued, faults>>

-----------------------------------------------------------------------------
(* The process dies in the middle of a call, or a Delete loses its         *)
(* database connection before the row is gone: what was written stays.     *)
Crash(w) ==
  /\ job[w].pc # "idle"
  /\ Fault
  /\ job' = [job EXCEPT ![w] = IdleJob]
  /\ UNCHANGED <<mailboxes, messages, blobs, gc, sent, issued>>

(* mailbox Delete: ON DELETE CASCADE takes the message rows, not the blobs. *)
DeleteMailbox(mb) ==
  /\ mb \in mailboxes
  /\ mailboxes' = mailboxes \ {mb}
  /\ messages' = {r \in messages : r.mailbox # mb}
  /\ UNCHANGED <<blobs, job, gc, sent, issued, faults>>

-----------------------------------------------------------------------------
(* storage.GarbageCollect *)

(* The references are read first. *)
GCRefs(mode) ==
  /\ gc.pc = "idle"
  /\ OnlineGC \/ \A w \in Workers : ~InStore(w)
  /\ gc' = [pc |-> "list", mode |-> mode, referenced |-> GetAllBlobIDs,
            unread |-> Contents, all |-> {}]
  /\ UNCHANGED <<mailboxes, messages, blobs, job, sent, issued, faults>>

(* ListIDs reads one shard directory after the other. *)
GCList(c) ==
  /\ gc.pc = "list"
  /\ c \in gc.unread
  /\ gc' = [gc EXCEPT !.unread = gc.unread \ {c},
                      !.all = gc.all \cup ({c} \cap blobs)]
  /\ UNCHANGED <<mailboxes, messages, blobs, job, sent, issued, faults>>

GCListed ==
  /\ gc.pc = "list" /\ gc.unread = {}
  /\ gc' = [gc EXCEPT !.pc = "sweep"]
  /\ UNCHANGED <<mailboxes, messages, blobs, job, sent, issued, faults>>

(* Mutants: the references are not consulted; --dry-run is inverted. *)
MutGCSweep(c) ==
  /\ gc.pc = "sweep"
  /\ c \in gc.all
  /\ gc' = [gc EXCEPT !.all = gc.all \ {c}]
  /\ blobs' = IF gc.mode = "delete" THEN blobs \ {c} ELSE blobs
  /\ UNCHANGED <<mailboxes, messages, job, sent, issued, faults>>

MutGCSweepInverted(c) ==
  /\ gc.pc = "sweep"
  /\ c \in gc.all
  /\ gc' = [gc EXCEPT !.all = gc.all \ {c}]
  /\ blobs' = IF c \notin gc.referenced /\ gc.mode = "dry-run"
                THEN blobs \ {c} ELSE blobs
  /\ UNCHANGED <<mailboxes, messages, job, sent, issued, faults>>

(* One turn of the loop: an unreferenced id is deleted unless --dry-run;   *)
(* a failing delete is skipped.                                            *)
GCSweep(c) ==
  /\ gc.pc = "sweep"
  /\ c \in gc.all
  /\ gc' = [gc EXCEPT !.all = gc.all \ {c}]
  /\ \/ /\ c \in gc.referenced \/ gc.mode = "dry-run"
        /\ UNCHANGED <<blobs, faults>>
     \/ /\ c \notin gc.referenced /\ gc.mode = "delete"
        /\ \/ blobs' = blobs \ {c} /\ UNCHANGED faults
           \/ UNCHANGED blobs /\ Fault
  /\ UNCHANGED <<mailboxes, messages, job, sent, issued>>

GCEnd ==
  /\ gc.pc = "sweep" /\ gc.all = {}
  /\ gc' = IdleGC
  /\ UNCHANGED <<mailboxes, messages, blobs, job, sent, issued, faults>>

(* The query or the directory walk fails, or the command is killed. *)
GCAbort ==
  /\ gc.pc # "idle"
  /\ Fault
  /\ gc' = IdleGC
  /\ UNCHANGED <<mailboxes, messages, blobs, job, sent, issued>>

-----------------------------------------------------------------------------
(* The steps a call in progress takes, whatever their outcome. *)
WorkerStep(w) ==
  \/ PutTemp(w) \/ PutRename(w) \/ PutFail(w)
  \/ Create(w) \/ CreateFail(w) \/ Compensate(w)
  \/ DeleteRow(w) \/ DeleteBlob(w)
  \/ GetOpen(w)

GCStep ==
  \/ \E c \in Contents : GCList(c) \/ GCSweep(c)
  \/ GCListed \/ GCEnd

Next ==
  \/ \E w \in Workers :
       \/ \E mb \in Mailboxes, c \in Contents, m \in MsgIDs :
            StoreBegin(w, mb, c, m)
       \/ \E r \in messages : DeleteBegin(w, r) \/ GetBegin(w, r)
       \/ WorkerStep(w)
       \/ Crash(w)
  \/ \E mb \in Mailboxes : DeleteMailbox(mb)
  \/ \E mode \in {"dry-run", "delete"} : GCRefs(mode)
  \/ GCStep
  \/ GCAbort

Spec == Init /\ [][Next]_vars

(* A call that was started runs on (or crashes), a collection that was     *)
(* started runs on, and `storage gc` without --dry-run is run again and    *)
(* again, as ADR 0001 prescribes ("Periodic Garbage Collection").          *)
Fairness ==
  /\ \A w \in Workers : WF_vars(WorkerStep(w))
  /\ WF_vars(GCStep)
  /\ SF_vars(GCRefs("delete"))

FairSpec == Spec /\ Fairness

-----------------------------------------------------------------------------
(* Properties. *)

(* Every variable stays in its type. *)
TypeOK ==
  /\ mailboxes \subseteq Mailboxes
  /\ messages \subseteq Row
  /\ blobs \subseteq Contents
  /\ job \in [Workers -> Job]
  /\ \A w \in Workers :
       /\ job[w].pc # "idle" => job[w].id # None /\ job[w].blob # None
       /\ InStore(w) => job[w].mailbox # None
  /\ gc \in Collector
  /\ sent \subseteq Contents
  /\ issued \subseteq MsgIDs
  /\ faults \in 0..MaxFaults

(* ADR 0001's purpose: a metadata row never points to a missing blob.      *)
NoDanglingMetadata == \A r \in messages : r.blob \in blobs

(* GetContent answers ErrBlobNotFound only for a message that was deleted  *)
(* after its row had been read, never for one that is still listed.        *)
ReadMissOnlyAfterDelete ==
  \A w \in Workers :
    job[w].pc = "open" /\ job[w].blob \notin blobs =>
      \A r \in messages : r.id # job[w].id

(* A row whose mailbox is gone does not exist: a Store that was under way  *)
(* when its mailbox was deleted does not bring one back.                   *)
RowsHaveMailbox == \A r \in messages : r.mailbox \in mailboxes

(* What GarbageCollect deletes is an orphan at the time it is deleted.     *)
GCDeletesOnlyOrphans ==
  [][gc' # gc => (blobs \ blobs') \cap GetAllBlobIDs = {}]_vars

(* A blob no row refers to and no Store is about to refer to.              *)
Orphan(c) ==
  /\ c \in blobs \ GetAllBlobIDs
  /\ \A w \in Workers : InStore(w) => job[w].blob # c

(* The blob a crash, a failed cleanup or a cascade leaves behind does not  *)
(* stay an orphan forever.                                                 *)
OrphansCollected == \A c \in Contents : Orphan(c) ~> ~Orphan(c)

(* What makes NoDanglingMetadata inductive under SafeUse: an identity and  *)
(* a content belong to one Store in flight or to one row, never to two; a  *)
(* Delete or a GetContent works on the row it read; the references gc has  *)
(* read cover the table as it is now.                                      *)
Accounted ==
  /\ \A r \in messages : r.id \in issued /\ r.blob \in sent
  /\ \A w \in Workers : job[w].pc # "idle" =>
       job[w].id \in issued /\ job[w].blob \in sent

OneOwner ==
  /\ \A r, s \in messages : r.id = s.id \/ r.blob = s.blob => r = s
  /\ \A w, v \in Workers : InStore(w) /\ job[v].pc # "idle" /\ w # v =>
       job[w].id # job[v].id /\ job[w].blob # job[v].blob
  /\ \A w \in Workers, r \in messages : InStore(w) =>
       job[w].id # r.id /\ job[w].blob # r.blob

ReadersAgree ==
  \A w \in Workers, r \in messages :
    /\ job[w].pc \in {"delRow", "open"} =>
         (r.id = job[w].id <=> r.blob = job[w].blob)
    /\ job[w].pc = "delBlob" => r.blob # job[w].blob

BlobBeforeRow ==
  /\ \A w \in Workers : job[w].pc = "create" => job[w].blob \in blobs
  /\ \A r \in messages : r.blob \in blobs

GCCovers ==
  gc.pc # "idle" => /\ \A w \in Workers : ~InStore(w)
                    /\ GetAllBlobIDs \subseteq gc.referenced

Consistency ==
  Accounted /\ OneOwner /\ ReadersAgree /\ BlobBeforeRow /\ GCCovers

(* The assumptions under which the store is consistent. *)
SafeUse == ~Resend /\ ~OnlineGC /\ ~LostReply

-----------------------------------------------------------------------------
(* The archive the store presents.  An identity is new until its INSERT is *)
(* decided; a row whose blob is missing is "lost", which no MailArchive    *)
(* knows.                                                                  *)

Undecided(m) ==
  \/ m \notin issued
  \/ \E w \in Workers : job[w].id = m /\ job[w].pc \in {"put", "rename", "create"}

Archived(m) ==
  IF \E r \in messages : r.id = m
    THEN LET c == (CHOOSE r \in messages : r.id = m).blob
         IN IF c \in blobs THEN c ELSE "lost"
    ELSE IF Undecided(m) THEN "new" ELSE "gone"

Archive == INSTANCE MailArchive WITH archive <- [m \in MsgIDs |-> Archived(m)]

(* The two stores together behave like one archive: no message changes or  *)
(* disappears but by Delete or by the deletion of its mailbox.             *)
ImplementsArchive == Archive!ArchiveSpec

=============================================================================
