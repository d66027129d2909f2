------------------------- MODULE MessageStoreProofs -------------------------
(* Theorems about MessageStore, for all sets of workers, mailboxes,        *)
(* identities and contents and every number of faults.                     *)
EXTENDS MessageExposure, TLAPS

-----------------------------------------------------------------------------
(* The two ways in which the error branch of Store begins: the row is not   *)
(* there, or it is.                                                        *)
CreateRefused(w) ==
  /\ job[w].pc = "create"
  /\ faults' # faults => Fault
  /\ job' = [job EXCEPT ![w].pc = "compensate"]
  /\ UNCHANGED <<mailboxes, messages, blobs, gc, sent, issued>>

CreateLostReply(w) ==
  /\ LostReply
  /\ job[w].pc = "create"
  /\ InsertRow(w)
  /\ Fault
  /\ job' = [job EXCEPT ![w].pc = "compensate"]
  /\ UNCHANGED <<mailboxes, blobs, gc, sent, issued>>

LEMMA CreateFails ==
  ASSUME NEW w, CreateFail(w)
  PROVE  CreateRefused(w) \/ CreateLostReply(w)
BY DEF CreateFail, CreateRefused, CreateLostReply

-----------------------------------------------------------------------------
(* Type correctness holds whatever the environment does. *)

LEMMA InitTypeOK == Init => TypeOK
BY MessageStoreAssumption
DEF Init, TypeOK, IdleJob, IdleGC, Job, Collector, Row, InStore, StorePC, DeletePC

LEMMA NextTypeOK == TypeOK /\ [Next]_vars => TypeOK'
<1> SUFFICES ASSUME TypeOK, [Next]_vars PROVE TypeOK'
  OBVIOUS
<1> USE MessageStoreAssumption
<1>1. ASSUME NEW w \in Workers, NEW mb \in Mailboxes, NEW c \in Contents,
             NEW m \in MsgIDs, StoreBegin(w, mb, c, m)
      PROVE TypeOK'
  BY <1>1 DEF TypeOK, StoreBegin, Job, InStore, StorePC, DeletePC
<1>2. ASSUME NEW w \in Workers, NEW r \in messages, DeleteBegin(w, r) \/ GetBegin(w, r)
      PROVE TypeOK'
  BY <1>2 DEF TypeOK, DeleteBegin, GetBegin, Job, IdleJob, Row, InStore, StorePC, DeletePC
<1>3. ASSUME NEW w \in Workers, PutTemp(w) \/ PutRename(w) \/ PutFail(w)
      PROVE TypeOK'
  BY <1>3 DEF TypeOK, PutTemp, PutRename, PutFail, Fault, Job, IdleJob, InStore,
              StorePC, DeletePC
<1>4. ASSUME NEW w \in Workers, Create(w) \/ CreateLostReply(w)
      PROVE TypeOK'
  <2>1. messages' \subseteq Row
    BY <1>4 DEF TypeOK, Create, CreateLostReply, InsertRow, Row, Job, InStore, StorePC
  <2> QED
    BY <1>4, <2>1 DEF TypeOK, Create, CreateLostReply, Fault, Job, IdleJob, InStore,
                      StorePC, DeletePC
<1>5. ASSUME NEW w \in Workers, CreateRefused(w) \/ Compensate(w)
      PROVE TypeOK'
  BY <1>5 DEF TypeOK, CreateRefused, Compensate, Fault, Job, IdleJob, InStore, StorePC, DeletePC
<1>6. ASSUME NEW w \in Workers, DeleteRow(w) \/ DeleteBlob(w) \/ GetOpen(w) \/ Crash(w)
      PROVE TypeOK'
  BY <1>6 DEF TypeOK, DeleteRow, DeleteBlob, GetOpen, Crash, Fault, Job, IdleJob, InStore,
              StorePC, DeletePC
<1>7. ASSUME NEW mb \in Mailboxes, DeleteMailbox(mb) PROVE TypeOK'
  BY <1>7 DEF TypeOK, DeleteMailbox, InStore
<1>8. ASSUME NEW mode \in {"dry-run", "delete"}, GCRefs(mode) PROVE TypeOK'
  <2>1. GetAllBlobIDs \subseteq Contents
    BY DEF TypeOK, GetAllBlobIDs, Row
  <2> QED
    BY <1>8, <2>1 DEF TypeOK, GCRefs, Collector, InStore
<1>9. ASSUME NEW c \in Contents, GCList(c) \/ GCSweep(c) PROVE TypeOK'
  <2>1. gc' \in Collector
    <3>1. CASE GCList(c)
      <4>1. gc.all \cup ({c} \cap blobs) \subseteq Contents
        BY DEF TypeOK, Collector
      <4> QED
        BY <3>1, <4>1 DEF TypeOK, GCList, Collector
    <3>2. CASE GCSweep(c)
      BY <3>2 DEF TypeOK, GCSweep, Collector
    <3> QED BY <1>9, <3>1, <3>2
  <2>2. blobs' \subseteq Contents /\ faults' \in 0..MaxFaults
    BY <1>9 DEF TypeOK, GCList, GCSweep, Fault
  <2> QED
    BY <1>9, <2>1, <2>2 DEF TypeOK, GCList, GCSweep, InStore
<1>10. ASSUME GCListed \/ GCEnd \/ GCAbort PROVE TypeOK'
  BY <1>10 DEF TypeOK, GCListed, GCEnd, GCAbort, Fault, IdleGC, Collector, InStore
<1>11. CASE UNCHANGED vars
  BY <1>11 DEF vars, TypeOK, InStore
<1> QED
  BY <1>1, <1>2, <1>3, <1>4, <1>5, <1>6, <1>7, <1>8, <1>9, <1>10, <1>11, CreateFails
  DEF Next, WorkerStep, GCStep

(* Every variable of the message store keeps its type.                     *)
THEOREM TypeCorrect == Spec => []TypeOK
BY InitTypeOK, NextTypeOK, PTL DEF Spec

-----------------------------------------------------------------------------
(* Consistency of the two stores, under SafeUse. *)

LEMMA InitConsistency == Init => Consistency
BY DEF Init, Consistency, Accounted, OneOwner, ReadersAgree, BlobBeforeRow,
       GCCovers, IdleJob, IdleGC, InStore, StorePC

LEMMA StoreConsistency ==
  ASSUME SafeUse, TypeOK, Consistency,
         NEW w \in Workers, NEW mb \in Mailboxes, NEW c \in Contents, NEW m \in MsgIDs,
         StoreBegin(w, mb, c, m)
  PROVE  Consistency'
<1> USE MessageStoreAssumption DEF SafeUse, StoreBegin, TypeOK, Consistency
<1>1. /\ job'[w] = [pc |-> "put", mailbox |-> mb, blob |-> c, id |-> m]
      /\ \A v \in Workers : v # w => job'[v] = job[v]
  OBVIOUS
<1>2. Accounted'
  BY <1>1 DEF Accounted
<1>3. OneOwner'
  BY <1>1 DEF OneOwner, Accounted, InStore, StorePC
<1>4. ReadersAgree'
  BY <1>1 DEF ReadersAgree
<1>5. BlobBeforeRow'
  BY <1>1 DEF BlobBeforeRow
<1>6. GCCovers'
  BY <1>1 DEF GCCovers
<1> QED BY <1>2, <1>3, <1>4, <1>5, <1>6

LEMMA PutConsistency ==
  ASSUME SafeUse, TypeOK, Consistency, NEW w \in Workers,
         PutTemp(w) \/ PutRename(w) \/ PutFail(w) \/ CreateRefused(w)
  PROVE  Consistency'
<1> USE MessageStoreAssumption DEF SafeUse, TypeOK, Consistency
<1>1. /\ UNCHANGED <<messages, gc, sent, issued>>
      /\ \/ job'[w] = IdleJob
         \/ InStore(w) /\ job'[w] = [job[w] EXCEPT !.pc = job'[w].pc]
            /\ job'[w].pc \in StorePC
      /\ blobs \subseteq blobs'
      /\ job'[w].pc = "create" => job'[w].blob \in blobs'
      /\ \A v \in Workers : v # w => job'[v] = job[v]
  BY DEF PutTemp, PutRename, PutFail, CreateRefused, InStore, StorePC, IdleJob, Job
<1>2. Accounted'
  BY <1>1 DEF Accounted, IdleJob, InStore, StorePC, Job
<1>3. OneOwner'
  BY <1>1 DEF OneOwner, InStore, StorePC, IdleJob, Job
<1>4. ReadersAgree'
  BY <1>1 DEF ReadersAgree, InStore, StorePC, IdleJob, Job
<1>5. BlobBeforeRow'
  BY <1>1 DEF BlobBeforeRow
<1>6. GCCovers'
  BY <1>1 DEF GCCovers, InStore, StorePC, IdleJob, GetAllBlobIDs
<1> QED BY <1>2, <1>3, <1>4, <1>5, <1>6

LEMMA CreateConsistency ==
  ASSUME SafeUse, TypeOK, Consistency, NEW w \in Workers, Create(w)
  PROVE  Consistency'
<1> USE MessageStoreAssumption DEF SafeUse, TypeOK, Consistency, Create, InsertRow
<1> DEFINE row == [id |-> job[w].id, mailbox |-> job[w].mailbox, blob |-> job[w].blob]
<1>1. /\ messages' = messages \cup {row}
      /\ job'[w] = IdleJob
      /\ InStore(w)
      /\ job[w].pc # "idle"
      /\ \A v \in Workers : v # w => job'[v] = job[v]
  BY DEF InStore, StorePC
<1>2. Accounted'
  BY <1>1 DEF Accounted, IdleJob
<1>3. OneOwner'
  BY <1>1 DEF OneOwner, InStore, StorePC, IdleJob
<1>4. ReadersAgree'
  BY <1>1 DEF ReadersAgree, OneOwner, IdleJob
<1>5. BlobBeforeRow'
  BY <1>1 DEF BlobBeforeRow, IdleJob
<1>6. GCCovers'
  BY <1>1 DEF GCCovers
<1> QED BY <1>2, <1>3, <1>4, <1>5, <1>6

(* Whoever removes a blob outside gc owns it: no row and no Store has it.  *)
LEMMA EndConsistency ==
  ASSUME SafeUse, TypeOK, Consistency, NEW w \in Workers,
         Compensate(w) \/ DeleteBlob(w) \/ GetOpen(w) \/ Crash(w)
  PROVE  Consistency'
<1> USE MessageStoreAssumption DEF SafeUse, TypeOK, Consistency
<1>1. /\ UNCHANGED <<messages, gc, sent, issued>>
      /\ job'[w] = IdleJob
      /\ \A v \in Workers : v # w => job'[v] = job[v]
  BY DEF Compensate, DeleteBlob, GetOpen, Crash
<1>2. \/ blobs' = blobs
      \/ /\ blobs' = blobs \ {job[w].blob}
         /\ job[w].pc \in {"compensate", "delBlob"}
  BY DEF Compensate, DeleteBlob, GetOpen, Crash
<1>3. Accounted'
  BY <1>1 DEF Accounted, IdleJob
<1>4. OneOwner'
  BY <1>1 DEF OneOwner, InStore, StorePC, IdleJob
<1>5. ReadersAgree'
  BY <1>1 DEF ReadersAgree, IdleJob
<1>6. BlobBeforeRow'
  BY <1>1, <1>2 DEF BlobBeforeRow, OneOwner, ReadersAgree, InStore, StorePC, IdleJob
<1>7. GCCovers'
  BY <1>1 DEF GCCovers, InStore, StorePC, IdleJob, GetAllBlobIDs
<1> QED BY <1>3, <1>4, <1>5, <1>6, <1>7

LEMMA ReadConsistency ==
  ASSUME SafeUse, TypeOK, Consistency, NEW w \in Workers, NEW r \in messages,
         DeleteBegin(w, r) \/ GetBegin(w, r)
  PROVE  Consistency'
<1> USE MessageStoreAssumption DEF SafeUse, TypeOK, Consistency
<1>1. /\ UNCHANGED <<messages, blobs, gc, sent, issued>>
      /\ job'[w].pc \in {"delRow", "open"}
      /\ job'[w].id = r.id /\ job'[w].blob = r.blob
      /\ \A v \in Workers : v # w => job'[v] = job[v]
  BY DEF DeleteBegin, GetBegin
<1>2. Accounted'
  BY <1>1 DEF Accounted
<1>3. OneOwner'
  BY <1>1 DEF OneOwner, InStore, StorePC
<1>4. ReadersAgree'
  BY <1>1 DEF ReadersAgree, OneOwner
<1>5. BlobBeforeRow'
  BY <1>1 DEF BlobBeforeRow
<1>6. GCCovers'
  BY <1>1 DEF GCCovers, InStore, StorePC, GetAllBlobIDs
<1> QED BY <1>2, <1>3, <1>4, <1>5, <1>6

LEMMA DeleteRowConsistency ==
  ASSUME SafeUse, TypeOK, Consistency, NEW w \in Workers, DeleteRow(w)
  PROVE  Consistency'
<1> USE MessageStoreAssumption DEF SafeUse, TypeOK, Consistency
<1>1. /\ UNCHANGED <<blobs, gc, sent, issued>>
      /\ messages' = {r \in messages : r.id # job[w].id}
      /\ job[w].pc = "delRow"
      /\ \/ job'[w] = IdleJob
         \/ job'[w] = [job[w] EXCEPT !.pc = "delBlob"]
      /\ \A v \in Workers : v # w => job'[v] = job[v]
  BY DEF DeleteRow
<1>2. Accounted'
  BY <1>1 DEF Accounted, IdleJob, Job
<1>3. OneOwner'
  BY <1>1 DEF OneOwner, InStore, StorePC, IdleJob, Job
<1>4. ReadersAgree'
  BY <1>1 DEF ReadersAgree, IdleJob, Job
<1>5. BlobBeforeRow'
  BY <1>1 DEF BlobBeforeRow, IdleJob, Job
<1>6. GCCovers'
  BY <1>1 DEF GCCovers, InStore, StorePC, IdleJob, GetAllBlobIDs, Job
<1> QED BY <1>2, <1>3, <1>4, <1>5, <1>6

LEMMA MailboxConsistency ==
  ASSUME SafeUse, TypeOK, Consistency, NEW mb \in Mailboxes, DeleteMailbox(mb)
  PROVE  Consistency'
BY DEF DeleteMailbox, Consistency, Accounted, OneOwner, ReadersAgree, BlobBeforeRow,
       GCCovers, InStore, GetAllBlobIDs

(* A collection removes nothing the table refers to. *)
LEMMA GCConsistency ==
  ASSUME SafeUse, TypeOK, Consistency,
         \/ \E mode \in {"dry-run", "delete"} : GCRefs(mode)
         \/ GCStep \/ GCAbort
  PROVE  Consistency'
<1> USE DEF SafeUse, TypeOK, Consistency
<1>1. UNCHANGED <<messages, job, sent, issued>>
  BY DEF GCRefs, GCStep, GCList, GCSweep, GCListed, GCEnd, GCAbort
<1>2. \A r \in messages : r.blob \in blobs => r.blob \in blobs'
  BY DEF GCRefs, GCStep, GCList, GCSweep, GCListed, GCEnd, GCAbort, GCCovers, GetAllBlobIDs
<1>3. \A w \in Workers : InStore(w) => blobs' = blobs
  BY DEF GCRefs, GCStep, GCList, GCSweep, GCListed, GCEnd, GCAbort, GCCovers, InStore
<1>4. GCCovers'
  <2>1. ASSUME NEW mode, GCRefs(mode) PROVE GCCovers'
    BY <1>1, <2>1 DEF GCRefs, GCCovers, GetAllBlobIDs, InStore
  <2>2. CASE GCStep \/ GCAbort
    <3>1. gc'.pc # "idle" => gc.pc # "idle" /\ gc'.referenced = gc.referenced
      <4>1. ASSUME NEW c \in Contents, GCList(c)
            PROVE  gc.pc # "idle" /\ gc'.referenced = gc.referenced
        BY <4>1 DEF GCList, Collector
      <4>2. ASSUME NEW c \in Contents, GCSweep(c)
            PROVE  gc.pc # "idle" /\ gc'.referenced = gc.referenced
        BY <4>2 DEF GCSweep, Collector
      <4>3. ASSUME GCListed
            PROVE  gc.pc # "idle" /\ gc'.referenced = gc.referenced
        BY <4>3 DEF GCListed, Collector
      <4>4. ASSUME GCEnd \/ GCAbort PROVE gc'.pc = "idle"
        BY <4>4 DEF GCEnd, GCAbort, IdleGC
      <4> QED
        BY <2>2, <4>1, <4>2, <4>3, <4>4 DEF GCStep
    <3> QED
      BY <1>1, <3>1 DEF GCCovers, GetAllBlobIDs, InStore
  <2> QED BY <2>1, <2>2
<1>5. BlobBeforeRow'
  BY <1>1, <1>2, <1>3 DEF BlobBeforeRow, InStore, StorePC
<1>6. (Accounted /\ OneOwner /\ ReadersAgree)'
  BY <1>1 DEF Accounted, OneOwner, ReadersAgree, InStore
<1> QED BY <1>4, <1>5, <1>6

LEMMA NextConsistency ==
  ASSUME SafeUse PROVE TypeOK /\ Consistency /\ [Next]_vars => Consistency'
<1> SUFFICES ASSUME TypeOK, Consistency, [Next]_vars PROVE Consistency'
  OBVIOUS
<1>1. CASE UNCHANGED vars
  BY <1>1 DEF vars, Consistency, Accounted, OneOwner, ReadersAgree, BlobBeforeRow,
              GCCovers, InStore, GetAllBlobIDs
<1>2. ASSUME NEW w \in Workers, CreateLostReply(w) PROVE FALSE
  BY <1>2 DEF SafeUse, CreateLostReply
<1> QED
  BY <1>1, <1>2, StoreConsistency, PutConsistency, CreateConsistency, EndConsistency,
     ReadConsistency, DeleteRowConsistency, MailboxConsistency, GCConsistency,
     CreateFails
  DEF Next, WorkerStep

(* As long as no content is stored twice, gc runs only between Stores and  *)
(* the database reports its commits truthfully, every row's blob exists:   *)
(* for any number of calls, crashes and failed calls.                      *)
THEOREM RowsHaveBlobs ==
  ASSUME SafeUse PROVE Spec => []NoDanglingMetadata
<1>1. TypeOK /\ Consistency /\ [Next]_vars => Consistency'
  BY NextConsistency
<1>2. Consistency => NoDanglingMetadata
  BY DEF Consistency, BlobBeforeRow, NoDanglingMetadata
<1> QED
  BY TypeCorrect, InitConsistency, <1>1, <1>2, PTL DEF Spec

(* The inductive invariant itself, under the same assumptions: every id    *)
(* that was sent is accounted for, blobs have one owner, readers hold what *)
(* was listed, blobs come before rows and gc's list covers what is stored. *)
THEOREM StoresStayConsistent ==
  ASSUME SafeUse PROVE Spec => []Consistency
<1>1. TypeOK /\ Consistency /\ [Next]_vars => Consistency'
  BY NextConsistency
<1> QED
  BY TypeCorrect, InitConsistency, <1>1, PTL DEF Spec

(* Under the same assumptions GetContent misses only deleted messages.     *)
THEOREM ReadersSeeWhatIsListed ==
  ASSUME SafeUse PROVE Spec => []ReadMissOnlyAfterDelete
<1>1. TypeOK /\ Consistency /\ [Next]_vars => Consistency'
  BY NextConsistency
<1>2. Consistency => ReadMissOnlyAfterDelete
  BY DEF Consistency, BlobBeforeRow, ReadersAgree, ReadMissOnlyAfterDelete
<1> QED
  BY TypeCorrect, InitConsistency, <1>1, <1>2, PTL DEF Spec

(* And a collection deletes orphans only.                                  *)
THEOREM CollectsOnlyOrphans ==
  ASSUME SafeUse PROVE Spec => GCDeletesOnlyOrphans
<1>1. TypeOK /\ Consistency /\ [Next]_vars => Consistency'
  BY NextConsistency
<1>2. TypeOK /\ Consistency /\ [Next]_vars
        => [gc' # gc => (blobs \ blobs') \cap GetAllBlobIDs = {}]_vars
  <2> SUFFICES ASSUME TypeOK, Consistency, Next, gc' # gc,
                      NEW r \in messages, r.blob \in blobs
               PROVE  r.blob \in blobs'
    BY DEF GetAllBlobIDs
  <2>1. \/ \E mode \in {"dry-run", "delete"} : GCRefs(mode)
        \/ GCStep \/ GCAbort
    BY DEF Next, WorkerStep, StoreBegin, PutTemp, PutRename, PutFail, Create, CreateFail,
           Compensate, DeleteBegin, DeleteRow, DeleteBlob, GetBegin,
           GetOpen, Crash, DeleteMailbox
  <2> QED
    BY <2>1 DEF GCRefs, GCStep, GCList, GCSweep, GCListed, GCEnd, GCAbort, Consistency,
                GCCovers, GetAllBlobIDs
<1> QED
  BY TypeCorrect, InitConsistency, <1>1, <1>2, PTL DEF Spec, GCDeletesOnlyOrphans


-----------------------------------------------------------------------------
(* A mailbox and its rows.  The foreign key and the cascade decide, at the *)
(* INSERT and at the DELETE, whatever Store had looked up before.          *)

(* In every regime a Store that was under way when its mailbox was deleted *)
(* leaves no row behind.                                                   *)
THEOREM RowsOfLiveMailboxes == Spec => []RowsHaveMailbox
<1>1. Init => RowsHaveMailbox
  BY DEF Init, RowsHaveMailbox
<1>2. RowsHaveMailbox /\ [Next]_vars => RowsHaveMailbox'
  <2> SUFFICES ASSUME RowsHaveMailbox, [Next]_vars PROVE RowsHaveMailbox'
    OBVIOUS
  <2>1. ASSUME NEW w \in Workers, Create(w) \/ CreateLostReply(w) PROVE RowsHaveMailbox'
    BY <2>1 DEF Create, CreateLostReply, InsertRow, RowsHaveMailbox
  <2>2. ASSUME NEW w \in Workers, DeleteRow(w) PROVE RowsHaveMailbox'
    BY <2>2 DEF DeleteRow, RowsHaveMailbox
  <2>3. ASSUME NEW mb \in Mailboxes, DeleteMailbox(mb) PROVE RowsHaveMailbox'
    BY <2>3 DEF DeleteMailbox, RowsHaveMailbox
  <2>4. CASE UNCHANGED <<messages, mailboxes>>
    BY <2>4 DEF RowsHaveMailbox
  <2>5. ASSUME NEW w \in Workers,
               \/ \E mb \in Mailboxes, c \in Contents, m \in MsgIDs : StoreBegin(w, mb, c, m)
               \/ \E r \in messages : DeleteBegin(w, r) \/ GetBegin(w, r)
               \/ PutTemp(w) \/ PutRename(w) \/ PutFail(w) \/ CreateRefused(w)
               \/ Compensate(w) \/ DeleteBlob(w) \/ GetOpen(w) \/ Crash(w)
        PROVE  UNCHANGED <<messages, mailboxes>>
    BY <2>5 DEF StoreBegin, DeleteBegin, GetBegin, PutTemp, PutRename, PutFail, CreateRefused,
                Compensate, DeleteBlob, GetOpen, Crash
  <2>6. ASSUME (\E mode \in {"dry-run", "delete"} : GCRefs(mode)) \/ GCStep \/ GCAbort
        PROVE  UNCHANGED <<messages, mailboxes>>
    BY <2>6 DEF GCRefs, GCStep, GCList, GCListed, GCSweep, GCEnd, GCAbort
  <2> QED
    BY <2>1, <2>2, <2>3, <2>4, <2>5, <2>6, CreateFails DEF Next, WorkerStep, vars
<1> QED
  BY <1>1, <1>2, PTL DEF Spec

-----------------------------------------------------------------------------
(* Refinement: under SafeUse the two stores implement MailArchive. *)

LEMMA ArchivedValue ==
  ASSUME Consistency
  PROVE  /\ \A r \in messages : Archived(r.id) = r.blob
         /\ \A m : (\A r \in messages : r.id # m) =>
              Archived(m) = IF Undecided(m) THEN "new" ELSE "gone"
<1>1. ASSUME NEW r \in messages PROVE Archived(r.id) = r.blob
  <2>1. (CHOOSE s \in messages : s.id = r.id) = r
    BY DEF Consistency, OneOwner
  <2> QED BY <2>1 DEF Archived, Consistency, BlobBeforeRow
<1>2. ASSUME NEW m, \A r \in messages : r.id # m
      PROVE Archived(m) = IF Undecided(m) THEN "new" ELSE "gone"
  BY <1>2 DEF Archived
<1> QED BY <1>1, <1>2

LEMMA ArchivedValueNext ==
  ASSUME Consistency'
  PROVE  /\ \A r \in messages' : Archived(r.id)' = r.blob
         /\ \A m : (\A r \in messages' : r.id # m) =>
              Archived(m)' = IF Undecided(m)' THEN "new" ELSE "gone"
<1>1. ASSUME NEW r \in messages' PROVE Archived(r.id)' = r.blob
  <2>1. (CHOOSE s \in messages' : s.id = r.id) = r
    BY DEF Consistency, OneOwner
  <2> QED BY <2>1 DEF Archived, Consistency, BlobBeforeRow
<1>2. ASSUME NEW m, \A r \in messages' : r.id # m
      PROVE Archived(m)' = IF Undecided(m)' THEN "new" ELSE "gone"
  BY <1>2 DEF Archived
<1> QED BY <1>1, <1>2

(* A step that leaves the rows and the undecided identities alone is       *)
(* invisible.                                                              *)
LEMMA Invisible ==
  ASSUME Consistency, Consistency', UNCHANGED messages,
         \A m \in MsgIDs : Undecided(m)' <=> Undecided(m)
  PROVE  \A m \in MsgIDs : Archived(m)' = Archived(m)
BY ArchivedValue, ArchivedValueNext

(* A step that settles one identity without inserting a row refuses it.    *)
LEMMA Refused ==
  ASSUME TypeOK, Consistency, Consistency', NEW w \in Workers,
         job[w].pc \in {"put", "rename", "create"},
         UNCHANGED <<messages, issued>>,
         job'[w].pc \notin {"put", "rename", "create"},
         \A v \in Workers : v # w => job'[v] = job[v]
  PROVE  Archive!ArchiveNext
<1>0. PICK m \in MsgIDs : m = job[w].id
  BY MessageStoreAssumption DEF TypeOK, Job
<1>1. InStore(w) /\ m \in issued
  BY <1>0 DEF InStore, StorePC, Consistency, Accounted
<1>2. \A r \in messages : r.id # m
  BY <1>0, <1>1 DEF Consistency, OneOwner
<1>3. \A v \in Workers : v # w /\ job[v].pc \in {"put", "rename", "create"} => job[v].id # m
  BY <1>0, <1>1 DEF Consistency, OneOwner, InStore, StorePC
<1>4. Undecided(m) /\ ~Undecided(m)'
  BY <1>0, <1>1, <1>3 DEF Undecided
<1>5. Archived(m) = "new" /\ Archived(m)' = "gone"
  BY <1>2, <1>4, ArchivedValue, ArchivedValueNext
<1>6. \A x \in MsgIDs : x # m => (Undecided(x)' <=> Undecided(x))
  BY <1>0 DEF Undecided
<1>7. \A x \in MsgIDs : x # m => Archived(x)' = Archived(x)
  BY <1>6, ArchivedValue, ArchivedValueNext
<1>8. Archive!Refuse(m)
  BY <1>1, <1>5, <1>7 DEF Archive!Refuse, Archive!New, Archive!Gone
<1> QED BY <1>1, <1>8 DEF Archive!ArchiveNext

LEMMA Added ==
  ASSUME TypeOK, Consistency, Consistency', NEW w \in Workers, Create(w)
  PROVE  Archive!ArchiveNext
<1>0. PICK m \in MsgIDs, c \in Contents : m = job[w].id /\ c = job[w].blob
  BY MessageStoreAssumption DEF Create, TypeOK, Job
<1>1. InStore(w)
  BY DEF Create, InStore, StorePC
<1>2. PICK row \in {[id |-> m, mailbox |-> job[w].mailbox, blob |-> c]} :
        messages' = messages \cup {row} /\ row.id = m /\ row.blob = c
  BY <1>0 DEF Create, InsertRow
<1>3. \A r \in messages : r.id # m
  BY <1>0, <1>1 DEF Consistency, OneOwner
<1>4. Archived(m) = "new" /\ Archived(m)' = c
  BY <1>0, <1>2, <1>3, ArchivedValue, ArchivedValueNext DEF Undecided, Create
<1>5. \A x \in MsgIDs : x # m => (Undecided(x)' <=> Undecided(x))
  BY <1>0 DEF Undecided, Create, TypeOK, IdleJob
<1>6. \A x \in MsgIDs : x # m => Archived(x)' = Archived(x)
  BY <1>2, <1>5, ArchivedValue, ArchivedValueNext
<1>7. Archive!Add(m, c)
  BY <1>1, <1>4, <1>6 DEF Archive!Add, Archive!New
<1> QED BY <1>1, <1>7 DEF Archive!ArchiveNext

LEMMA Removed ==
  ASSUME TypeOK, Consistency, Consistency',
         messages' \subseteq messages, UNCHANGED issued,
         \A m \in MsgIDs : Undecided(m)' <=> Undecided(m)
  PROVE  Archive!ArchiveNext
<1> DEFINE S == {r.id : r \in messages \ messages'}
<1>1. S \in SUBSET MsgIDs
  BY DEF TypeOK, Row
<1>2. ASSUME NEW m \in S
      PROVE  Archived(m) \in Contents /\ Archived(m)' = "gone"
  <2>1. PICK r \in messages \ messages' : r.id = m
    OBVIOUS
  <2>2. \A s \in messages' : s.id # m
    BY <2>1 DEF Consistency, OneOwner
  <2>3. ~Undecided(m)
    BY <2>1 DEF Undecided, Consistency, Accounted, OneOwner, InStore, StorePC
  <2> QED
    BY <1>1, <2>1, <2>2, <2>3, ArchivedValue, ArchivedValueNext DEF TypeOK, Row
<1>3. ASSUME NEW m \in MsgIDs, m \notin S
      PROVE  Archived(m)' = Archived(m)
  <2>1. CASE \E r \in messages' : r.id = m
    BY <2>1, ArchivedValue, ArchivedValueNext
  <2>2. CASE \A r \in messages' : r.id # m
    BY <1>3, <2>2, ArchivedValue, ArchivedValueNext
  <2> QED BY <2>1, <2>2
<1>4. Archive!Remove(S)
  BY <1>1, <1>2, <1>3 DEF Archive!Remove, Archive!Gone
<1> QED BY <1>1, <1>4 DEF Archive!ArchiveNext

LEMMA StepRefines ==
  ASSUME SafeUse, TypeOK, Consistency, Consistency', [Next]_vars
  PROVE  [Archive!ArchiveNext]_[m \in MsgIDs |-> Archived(m)]
<1> DEFINE Quiet == UNCHANGED messages /\ \A m \in MsgIDs : Undecided(m)' <=> Undecided(m)
<1> SUFFICES Quiet \/ Archive!ArchiveNext
  BY Invisible
<1> USE DEF TypeOK
<1>1. ASSUME NEW w \in Workers, NEW mb \in Mailboxes, NEW c \in Contents,
             NEW m \in MsgIDs, StoreBegin(w, mb, c, m)
      PROVE Quiet
  BY <1>1 DEF StoreBegin, Undecided
<1>2. ASSUME NEW w \in Workers, PutTemp(w) \/ PutRename(w) PROVE Quiet
  BY <1>2 DEF PutTemp, PutRename, Undecided, Job
<1>3. ASSUME NEW w \in Workers, PutFail(w) \/ CreateRefused(w) \/ Crash(w)
      PROVE Quiet \/ Archive!ArchiveNext
  <2>1. /\ UNCHANGED <<messages, issued>>
        /\ job'[w].pc \notin {"put", "rename", "create"}
        /\ \A v \in Workers : v # w => job'[v] = job[v]
    BY <1>3 DEF PutFail, CreateRefused, Crash, IdleJob, Job
  <2>2. CASE job[w].pc \in {"put", "rename", "create"}
    BY <2>1, <2>2, Refused
  <2>3. CASE job[w].pc \notin {"put", "rename", "create"}
    BY <2>1, <2>3 DEF Undecided
  <2> QED BY <2>2, <2>3
<1>4. ASSUME NEW w \in Workers, Create(w) PROVE Archive!ArchiveNext
  BY <1>4, Added
<1>5. ASSUME NEW w \in Workers, NEW r \in messages,
             DeleteBegin(w, r) \/ GetBegin(w, r)
      PROVE Quiet
  BY <1>5 DEF DeleteBegin, GetBegin, Undecided
<1>6. ASSUME NEW w \in Workers, Compensate(w) \/ DeleteBlob(w) \/ GetOpen(w)
      PROVE Quiet
  BY <1>6 DEF Compensate, DeleteBlob, GetOpen, Undecided, IdleJob
<1>7. ASSUME NEW w \in Workers, DeleteRow(w) PROVE Archive!ArchiveNext
  <2>1. \A m \in MsgIDs : Undecided(m)' <=> Undecided(m)
    BY <1>7 DEF DeleteRow, Undecided, IdleJob, Job
  <2>2. messages' \subseteq messages /\ UNCHANGED issued
    BY <1>7 DEF DeleteRow
  <2> QED BY <2>1, <2>2, Removed
<1>8. ASSUME NEW mb \in Mailboxes, DeleteMailbox(mb) PROVE Archive!ArchiveNext
  <2>1. \A m \in MsgIDs : Undecided(m)' <=> Undecided(m)
    BY <1>8 DEF DeleteMailbox, Undecided
  <2>2. messages' \subseteq messages /\ UNCHANGED issued
    BY <1>8 DEF DeleteMailbox
  <2> QED BY <2>1, <2>2, Removed
<1>9. ASSUME \/ \E mode \in {"dry-run", "delete"} : GCRefs(mode)
             \/ GCStep \/ GCAbort
      PROVE Quiet
  BY <1>9 DEF GCRefs, GCStep, GCList, GCSweep, GCListed, GCEnd, GCAbort, Undecided
<1>10. CASE UNCHANGED vars
  BY <1>10 DEF vars, Undecided
<1>11. ASSUME NEW w \in Workers, CreateLostReply(w) PROVE FALSE
  BY <1>11 DEF SafeUse, CreateLostReply
<1> QED
  BY <1>1, <1>2, <1>3, <1>4, <1>5, <1>6, <1>7, <1>8, <1>9, <1>10, <1>11, CreateFails
  DEF Next, WorkerStep

(* Under SafeUse the blob store and the table, together, are one archive:  *)
(* a stored message keeps its content until somebody deletes it.           *)
THEOREM StoreImplementsArchive ==
  ASSUME SafeUse PROVE Spec => ImplementsArchive
<1>1. Init => Archive!ArchiveInit
  BY DEF Init, Archive!ArchiveInit, Archive!New, Archived, Undecided
<1>2. TypeOK /\ Consistency /\ [Next]_vars => Consistency'
  BY NextConsistency
<1>3. TypeOK /\ Consistency /\ Consistency' /\ [Next]_vars
        => [Archive!ArchiveNext]_[m \in MsgIDs |-> Archived(m)]
  BY StepRefines
<1> QED
  BY TypeCorrect, InitConsistency, <1>1, <1>2, <1>3, PTL
  DEF Spec, ImplementsArchive, Archive!ArchiveSpec

-----------------------------------------------------------------------------
(* Any use: no resend, online collection or lost reply is excluded. *)

(* What holds of a content that is not exposed: one row at most is about   *)
(* it, and its blob is there; a Store of it has it alone, and meets no     *)
(* collection; a Delete of it is about that row; the references that gc    *)
(* has read include it.                                                    *)
Intact(c) ==
  /\ \A r \in messages : r.blob = c =>
       /\ c \in blobs
       /\ \A s \in messages : s.blob = c => s = r
       /\ gc.pc # "idle" => c \in gc.referenced
  /\ \A w \in Workers : InStore(w) /\ job[w].blob = c =>
       /\ gc.pc = "idle"
       /\ job[w].pc = "create" => c \in blobs
       /\ \A r \in messages : r.blob # c
       /\ \A v \in Workers \ {w} : job[v].pc \notin {"idle", "open"} => job[v].blob # c
  /\ \A w \in Workers, r \in messages : job[w].blob = c /\ r.blob = c =>
       /\ job[w].pc = "delRow" => r.id = job[w].id
       /\ job[w].pc # "delBlob"

ExposureInv == TypeOK /\ \A c \in Contents \ exposed : Intact(c)

(* Nothing is to be shown of a content that nobody holds. *)
LEMMA NotHeld ==
  ASSUME NEW c, ~Held(c)
  PROVE  Intact(c)
BY DEF Held, Intact, InStore, StorePC

(* A step of one worker that neither begins a Store nor touches the table. *)
LEMMA WorkerIntact ==
  ASSUME TypeOK, NEW c \in Contents, Intact(c), NEW w \in Workers,
         UNCHANGED <<messages, gc>>, \A v \in Workers \ {w} : job'[v] = job[v],
         \/ job'[w].pc \in {"idle", "open"}
         \/ InStore(w) /\ job'[w].pc \in StorePC /\ job'[w].blob = job[w].blob,
         job'[w].pc = "create" /\ job'[w].blob = c => c \in blobs',
         c \in blobs \ blobs' => /\ \A r \in messages : r.blob # c
                                 /\ \A v \in Workers \ {w} : InStore(v) => job[v].blob # c
  PROVE  Intact(c)'
<1>1. \A r \in messages : r.blob = c => c \in blobs'
  BY DEF Intact
<1>2. ASSUME NEW v \in Workers, InStore(v)', job'[v].blob = c
      PROVE  InStore(v) /\ job[v].blob = c /\ (job'[v].pc = "create" => c \in blobs')
  <2>1. CASE v = w
    BY <1>2, <2>1 DEF InStore, StorePC
  <2>2. CASE v # w
    BY <1>2, <2>2 DEF InStore, StorePC, Intact
  <2> QED
    BY <2>1, <2>2
<1>3. ASSUME NEW v \in Workers, job'[v].pc \notin {"idle", "open"}
      PROVE  job[v].pc \notin {"idle", "open"} /\ job'[v].blob = job[v].blob
  BY <1>3 DEF InStore, StorePC
<1>4. ASSUME NEW v \in Workers, job'[v].pc \in {"delRow", "delBlob"}
      PROVE  job'[v] = job[v]
  BY <1>4 DEF StorePC
<1> QED
  BY <1>1, <1>2, <1>3, <1>4 DEF Intact

LEMMA StoreIntact ==
  ASSUME TypeOK, NEW c \in Contents, Intact(c), ~StoredAgain(c), ~StoredDuringGC(c),
         NEW w \in Workers, NEW mb \in Mailboxes, NEW d \in Contents, NEW m \in MsgIDs,
         StoreBegin(w, mb, d, m)
  PROVE  Intact(c)'
<1>1. /\ job[w].pc = "idle" /\ UNCHANGED <<messages, blobs, gc>>
      /\ job'[w] = [pc |-> "put", mailbox |-> mb, blob |-> d, id |-> m]
      /\ \A v \in Workers \ {w} : job'[v] = job[v]
  BY DEF StoreBegin, TypeOK
<1>2. d = c => /\ gc.pc = "idle"
               /\ \A r \in messages : r.blob # c
               /\ \A v \in Workers : job[v].pc \notin {"idle", "open"} => job[v].blob # c
  BY <1>1 DEF StoredAgain, StoredDuringGC, StoreBegins, Held
<1> QED
  BY <1>1, <1>2 DEF Intact, InStore, StorePC

LEMMA InsertIntact ==
  ASSUME TypeOK, NEW c \in Contents, Intact(c), NEW w \in Workers,
         Create(w) \/ (CreateLostReply(w) /\ ~ReplyLost(c))
  PROVE  Intact(c)'
<1> DEFINE row == [id |-> job[w].id, mailbox |-> job[w].mailbox, blob |-> job[w].blob]
<1>1. /\ job[w].pc = "create" /\ InStore(w) /\ UNCHANGED <<blobs, gc>>
      /\ messages' = messages \cup {row}
      /\ \A v \in Workers \ {w} : job'[v] = job[v]
  BY DEF Create, CreateLostReply, InsertRow, TypeOK, InStore, StorePC
<1>2. CASE job[w].blob # c
  <2>1. \A r \in messages' : r.blob = c => r \in messages
    BY <1>1, <1>2
  <2>2. job'[w].pc = "idle" \/ job'[w] = [job[w] EXCEPT !.pc = "compensate"]
    BY DEF Create, CreateLostReply, TypeOK, IdleJob
  <2>3. job'[w].pc \in {"idle", "compensate"} /\ (job'[w].pc = "idle" \/ job'[w].blob # c)
    BY <1>2, <2>2 DEF TypeOK, Job
  <2> QED
    BY <1>1, <1>2, <2>1, <2>3 DEF Intact, InStore, StorePC
<1>3. CASE job[w].blob = c
  <2>1. \A r \in messages : r.blob # c
    BY <1>1, <1>3 DEF Intact
  <2>2. messages' # messages
    <3>1. row \in messages' /\ row.blob = c
      BY <1>1, <1>3
    <3> HIDE DEF row
    <3> QED
      BY <2>1, <3>1
  <2>3. job'[w] = IdleJob
    <3>1. CASE CreateLostReply(w) /\ ~ReplyLost(c)
      <4>1. job'[w].pc = "compensate"
        BY <3>1 DEF CreateLostReply, TypeOK, Job
      <4> QED
        BY <1>1, <1>3, <2>2, <3>1, <4>1 DEF ReplyLost
    <3> QED
      BY <3>1 DEF Create, TypeOK
  <2>4. \A r \in messages' : r.blob = c => r = row
    BY <1>1, <2>1
  <2>5. /\ c \in blobs /\ gc.pc = "idle"
        /\ \A v \in Workers \ {w} : job[v].pc \notin {"idle", "open"} => job[v].blob # c
    BY <1>1, <1>3 DEF Intact
  <2> QED
    BY <1>1, <2>3, <2>4, <2>5 DEF Intact, InStore, StorePC, IdleJob
<1> QED
  BY <1>2, <1>3

LEMMA DeleteIntact ==
  ASSUME TypeOK, NEW c \in Contents, Intact(c), NEW w \in Workers,
         \/ \E r \in messages : DeleteBegin(w, r)
         \/ DeleteRow(w)
  PROVE  Intact(c)'
<1>1. CASE \E r \in messages : DeleteBegin(w, r)
  <2>1. PICK r \in messages : DeleteBegin(w, r)
    BY <1>1
  <2>2. /\ job[w].pc = "idle" /\ UNCHANGED <<messages, blobs, gc>>
        /\ job'[w] = [pc |-> "delRow", mailbox |-> None, blob |-> r.blob, id |-> r.id]
        /\ \A v \in Workers \ {w} : job'[v] = job[v]
    BY <2>1 DEF DeleteBegin, TypeOK
  <2> QED
    BY <2>2 DEF Intact, InStore, StorePC
<1>2. CASE DeleteRow(w)
  <2>1. /\ job[w].pc = "delRow" /\ UNCHANGED <<blobs, gc>>
        /\ messages' = {r \in messages : r.id # job[w].id}
        /\ \/ job'[w] = IdleJob
           \/ job'[w] = [job[w] EXCEPT !.pc = "delBlob"]
        /\ \A v \in Workers \ {w} : job'[v] = job[v]
    BY <1>2 DEF DeleteRow, TypeOK
  <2>2. job[w].blob = c => \A r \in messages' : r.blob # c
    BY <2>1 DEF Intact
  <2>3. job'[w].pc \in {"idle", "delBlob"} /\ (job'[w].pc = "idle" \/ job'[w].blob = job[w].blob)
    BY <2>1 DEF TypeOK, Job, IdleJob
  <2> QED
    BY <2>1, <2>2, <2>3 DEF Intact, InStore, StorePC
<1> QED
  BY <1>1, <1>2

LEMMA CollectIntact ==
  ASSUME TypeOK, NEW c \in Contents, Intact(c), ~StoredDuringGC(c),
         \/ \E mode \in {"dry-run", "delete"} : GCRefs(mode)
         \/ GCStep \/ GCAbort
  PROVE  Intact(c)'
<1>1. UNCHANGED <<messages, job>>
  BY DEF GCRefs, GCStep, GCList, GCSweep, GCListed, GCEnd, GCAbort
<1>2. CASE \E mode \in {"dry-run", "delete"} : GCRefs(mode)
  <2>1. /\ gc.pc = "idle" /\ gc'.pc # "idle" /\ gc'.referenced = GetAllBlobIDs /\ blobs' = blobs
    BY <1>2 DEF GCRefs
  <2>2. \A w \in Workers : InStore(w) => job[w].blob # c
    BY <2>1 DEF StoredDuringGC
  <2> QED
    BY <1>1, <2>1, <2>2 DEF Intact, GetAllBlobIDs, InStore
<1>3. CASE GCStep \/ GCAbort
  <2>1. gc.pc # "idle" /\ (gc'.pc # "idle" => gc'.referenced = gc.referenced)
    <3>1. ASSUME NEW d \in Contents, GCList(d) \/ GCSweep(d) PROVE gc.pc # "idle" /\ gc'.referenced = gc.referenced
      BY <3>1 DEF GCList, GCSweep, TypeOK, Collector
    <3>2. ASSUME GCListed PROVE gc.pc # "idle" /\ gc'.referenced = gc.referenced
      BY <3>2 DEF GCListed, TypeOK, Collector
    <3>3. ASSUME GCEnd \/ GCAbort PROVE gc.pc # "idle" /\ gc'.pc = "idle"
      BY <3>3 DEF GCEnd, GCAbort, IdleGC
    <3> QED
      BY <1>3, <3>1, <3>2, <3>3 DEF GCStep
  <2>2. c \in blobs \ blobs' => c \notin gc.referenced
    BY <1>3 DEF GCStep, GCList, GCSweep, GCListed, GCEnd, GCAbort
  <2>3. \A w \in Workers : InStore(w) => job[w].blob # c
    BY <2>1 DEF Intact
  <2> QED
    BY <1>1, <2>1, <2>2, <2>3 DEF Intact, InStore
<1> QED
  BY <1>2, <1>3

LEMMA NextIntact ==
  ASSUME TypeOK, NEW c \in Contents, Intact(c), Next,
         ~StoredAgain(c), ~StoredDuringGC(c), ~ReplyLost(c)
  PROVE  Intact(c)'
<1>1. ASSUME NEW w \in Workers, PutTemp(w) \/ PutRename(w) \/ PutFail(w) \/ CreateRefused(w)
      PROVE  Intact(c)'
  <2>1. /\ UNCHANGED <<messages, gc>> /\ \A v \in Workers \ {w} : job'[v] = job[v]
        /\ \/ job'[w].pc \in {"idle", "open"}
           \/ InStore(w) /\ job'[w].pc \in StorePC /\ job'[w].blob = job[w].blob
        /\ job'[w].pc = "create" /\ job'[w].blob = c => c \in blobs'
        /\ blobs \subseteq blobs'
    BY <1>1 DEF PutTemp, PutRename, PutFail, CreateRefused, InStore, StorePC, IdleJob, Job, TypeOK
  <2> QED
    BY <2>1, WorkerIntact
<1>2. ASSUME NEW w \in Workers, Compensate(w) \/ DeleteBlob(w)
      PROVE  Intact(c)'
  <2>1. /\ UNCHANGED <<messages, gc>> /\ \A v \in Workers \ {w} : job'[v] = job[v]
        /\ job'[w].pc = "idle" /\ blobs' \in {blobs, blobs \ {job[w].blob}}
        /\ job[w].pc \in {"compensate", "delBlob"}
    BY <1>2 DEF Compensate, DeleteBlob, IdleJob, TypeOK
  <2>2. c \in blobs \ blobs' => /\ \A r \in messages : r.blob # c
                                /\ \A v \in Workers \ {w} : InStore(v) => job[v].blob # c
    BY <2>1 DEF Intact, InStore, StorePC
  <2> QED
    BY <2>1, <2>2, WorkerIntact
<1>3. ASSUME NEW w \in Workers, GetOpen(w) \/ Crash(w) \/ \E r \in messages : GetBegin(w, r)
      PROVE  Intact(c)'
  <2>1. /\ UNCHANGED <<messages, gc, blobs>> /\ \A v \in Workers \ {w} : job'[v] = job[v]
        /\ job'[w].pc \in {"idle", "open"}
    BY <1>3 DEF GetOpen, Crash, GetBegin, IdleJob, TypeOK
  <2> QED
    BY <2>1, WorkerIntact
<1>4. ASSUME NEW mb \in Mailboxes, DeleteMailbox(mb)
      PROVE  Intact(c)'
  BY <1>4 DEF DeleteMailbox, Intact, InStore
<1> QED
  BY <1>1, <1>2, <1>3, <1>4, StoreIntact, InsertIntact, DeleteIntact, CollectIntact,
     CreateFails
  DEF Next, WorkerStep

(* With resends, collections next to Store and lost replies all allowed,   *)
(* and any number of callers, messages and faults: a row is without its    *)
(* blob only if one of the three happened to its content while somebody    *)
(* held it.                                                                *)
THEOREM BlobsLostOnlyIfExposed == ExposureSpec => []LostOnlyIfExposed
<1>1. ExposureInit => ExposureInv
  <2>1. Init => \A c \in Contents : ~Held(c)
    BY DEF Init, Held, IdleJob
  <2> QED
    BY <2>1, InitTypeOK, NotHeld DEF ExposureInit, ExposureInv
<1>2. ExposureInv /\ [ExposureNext]_exposurevars => ExposureInv'
  <2> SUFFICES ASSUME ExposureInv, [ExposureNext]_exposurevars PROVE ExposureInv'
    OBVIOUS
  <2>1. TypeOK'
    BY NextTypeOK DEF ExposureInv, ExposureNext, exposurevars, vars
  <2>2. CASE UNCHANGED exposurevars
    BY <2>1, <2>2 DEF exposurevars, vars, ExposureInv, Intact, InStore
  <2>3. ASSUME Next, Expose, NEW c \in Contents, c \notin exposed'
        PROVE  Intact(c)'
    <3>1. CASE ~Held(c)'
      BY <3>1, NotHeld, PTL
    <3>2. CASE Held(c)'
      <4>1. c \notin exposed /\ ~StoredAgain(c) /\ ~StoredDuringGC(c) /\ ~ReplyLost(c)
        BY <2>3, <3>2 DEF Expose
      <4> QED
        BY <2>3, <4>1, NextIntact DEF ExposureInv
    <3> QED
      BY <3>1, <3>2
  <2> QED
    BY <2>1, <2>2, <2>3 DEF ExposureNext, ExposureInv
<1>3. ExposureInv => LostOnlyIfExposed
  BY DEF ExposureInv, TypeOK, Row, Intact, LostOnlyIfExposed
<1> QED
  BY <1>1, <1>2, <1>3, PTL DEF ExposureSpec
=============================================================================
