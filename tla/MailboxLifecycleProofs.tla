----------------------- MODULE MailboxLifecycleProofs -----------------------
(* Theorems about MailboxLifecycle, for any number of callers, domains,    *)
(* addresses and faults.                                                   *)
EXTENDS MailboxLifecycle, TLAPS

LEMMA NewIDIsUnused ==
  ASSUME NEW S, ~(S \subseteq issued)
  PROVE  NewID(S) \in S /\ NewID(S) \notin issued
BY DEF NewID

(* What an UPDATE of one row by its id leaves alone. *)
LEMMA UpdateKeeps ==
  ASSUME TypeOK, NEW i \in IDs, NEW row,
         mailbox[i] # NoRow => row \in Row /\ row.email = mailbox[i].email
                                 /\ row.origin = mailbox[i].origin
                                 /\ row.domain = mailbox[i].domain,
         UpdateRow(i, row)
  PROVE  /\ mailbox' \in [IDs -> Row \cup {NoRow}]
         /\ faults' \in 0..MaxFaults
         /\ \A j \in IDs : /\ mailbox'[j].email = mailbox[j].email
                           /\ mailbox'[j].origin = mailbox[j].origin
                           /\ mailbox'[j].domain = mailbox[j].domain
                           /\ mailbox'[j] = NoRow <=> mailbox[j] = NoRow
         /\ \A j \in IDs \ {i} : mailbox'[j] = mailbox[j]
         /\ mailbox'[i] \in {mailbox[i], row}
<1>1. NoRow \notin Row
  BY MailboxAssumption DEF Row, NoRow
<1>2. CASE mailbox[i] # NoRow /\ mailbox' = [mailbox EXCEPT ![i] = row] /\ faults' = faults
  BY <1>1, <1>2 DEF TypeOK
<1>3. CASE UNCHANGED mailbox
  BY <1>3, MailboxAssumption DEF TypeOK, UpdateRow, Fault
<1> QED
  BY <1>2, <1>3 DEF UpdateRow

(* The UPDATEs of the code, as UpdateKeeps sees them. *)
LEMMA UpdatesKeep ==
  ASSUME TypeOK, NEW i \in IDs, mailbox[i] # NoRow
  PROVE  /\ \A s \in {"provisioning", "failed", "ready", "deprovisioning"} :
              LET row == [mailbox[i] EXCEPT !.prov = s]
              IN  row \in Row /\ row.email = mailbox[i].email
                    /\ row.origin = mailbox[i].origin /\ row.domain = mailbox[i].domain
                    /\ row.prov = s /\ row.provider = mailbox[i].provider
         /\ \A s \in {"active", "suspended", "deleting"} :
              LET row == [mailbox[i] EXCEPT !.status = s]
              IN  row \in Row /\ row.email = mailbox[i].email
                    /\ row.origin = mailbox[i].origin /\ row.domain = mailbox[i].domain
                    /\ row.prov = mailbox[i].prov /\ row.provider = mailbox[i].provider
         /\ LET row == [mailbox[i] EXCEPT !.provider = "ldap"]
            IN  row \in Row /\ row.email = mailbox[i].email
                  /\ row.origin = mailbox[i].origin /\ row.domain = mailbox[i].domain
                  /\ row.prov = mailbox[i].prov
<1>1. mailbox[i] \in Row
  BY DEF TypeOK
<1> QED
  BY <1>1 DEF Row

(* The steps that are one UPDATE. *)
Update(w) ==
  \/ MarkProvisioning(w) \/ MarkFailed(w) \/ MarkReady(w) \/ SetProvider(w)
  \/ MarkDeleting(w) \/ MarkDeprovisioning(w) \/ SetStatus(w)

LEMMA UpdateStep ==
  ASSUME TypeOK, NEW w \in Workers, Update(w)
  PROVE  /\ job[w].id \in IDs
         /\ mailbox' \in [IDs -> Row \cup {NoRow}]
         /\ faults' \in 0..MaxFaults
         /\ \A j \in IDs : /\ mailbox'[j].email = mailbox[j].email
                           /\ mailbox'[j].origin = mailbox[j].origin
                           /\ mailbox'[j].domain = mailbox[j].domain
                           /\ mailbox'[j] = NoRow <=> mailbox[j] = NoRow
         /\ \A j \in IDs \ {job[w].id} : mailbox'[j] = mailbox[j]
         /\ UNCHANGED <<domains, maildir, mail, issued>>
         /\ job[w].pc # "setProvider" =>
              mailbox'[job[w].id].provider = mailbox[job[w].id].provider
         /\ job[w].pc \in {"setProvider", "delStatus", "setStatus"} =>
              mailbox'[job[w].id].prov = mailbox[job[w].id].prov
<1>0. job[w].pc # "idle" /\ job[w].id \in IDs /\ job[w].status \in {"active", "suspended"}
  BY DEF TypeOK, Job, Update, MarkProvisioning, MarkFailed, MarkReady, SetProvider,
         MarkDeleting, MarkDeprovisioning, SetStatus
<1> DEFINE i == job[w].id
<1>1. ASSUME NEW s \in {"provisioning", "failed", "ready", "deprovisioning"},
             UpdateProvisioningStatus(i, s)
      PROVE  /\ mailbox' \in [IDs -> Row \cup {NoRow}]
             /\ faults' \in 0..MaxFaults
             /\ \A j \in IDs : /\ mailbox'[j].email = mailbox[j].email
                               /\ mailbox'[j].origin = mailbox[j].origin
                               /\ mailbox'[j].domain = mailbox[j].domain
                               /\ mailbox'[j] = NoRow <=> mailbox[j] = NoRow
             /\ \A j \in IDs \ {i} : mailbox'[j] = mailbox[j]
             /\ mailbox'[i].provider = mailbox[i].provider
  <2>1. PICK row : row = [mailbox[i] EXCEPT !.prov = s]
    OBVIOUS
  <2>2. UpdateRow(i, row)
    BY <1>1, <2>1 DEF UpdateProvisioningStatus
  <2>3. mailbox[i] # NoRow => row \in Row /\ row.email = mailbox[i].email
          /\ row.origin = mailbox[i].origin /\ row.domain = mailbox[i].domain
          /\ row.provider = mailbox[i].provider
    BY <1>0, <2>1, UpdatesKeep
  <2>4. mailbox[i] = NoRow => mailbox' = mailbox
    BY <2>2 DEF UpdateRow
  <2> HIDE DEF i
  <2> QED
    BY <1>0, <2>2, <2>3, <2>4, UpdateKeeps DEF i
<1>2. ASSUME NEW s \in {"active", "suspended", "deleting"}, UpdateStatus(i, s)
      PROVE  /\ mailbox' \in [IDs -> Row \cup {NoRow}]
             /\ faults' \in 0..MaxFaults
             /\ \A j \in IDs : /\ mailbox'[j].email = mailbox[j].email
                               /\ mailbox'[j].origin = mailbox[j].origin
                               /\ mailbox'[j].domain = mailbox[j].domain
                               /\ mailbox'[j] = NoRow <=> mailbox[j] = NoRow
             /\ \A j \in IDs \ {i} : mailbox'[j] = mailbox[j]
             /\ mailbox'[i].provider = mailbox[i].provider
             /\ mailbox'[i].prov = mailbox[i].prov
  <2>1. PICK row : row = [mailbox[i] EXCEPT !.status = s]
    OBVIOUS
  <2>2. UpdateRow(i, row)
    BY <1>2, <2>1 DEF UpdateStatus
  <2>3. mailbox[i] # NoRow => row \in Row /\ row.email = mailbox[i].email
          /\ row.origin = mailbox[i].origin /\ row.domain = mailbox[i].domain
          /\ row.prov = mailbox[i].prov /\ row.provider = mailbox[i].provider
    BY <1>0, <2>1, UpdatesKeep
  <2>4. mailbox[i] = NoRow => mailbox' = mailbox
    BY <2>2 DEF UpdateRow
  <2> QED
    BY <1>0, <2>2, <2>3, <2>4, UpdateKeeps
<1>3. ASSUME UpdateIdentityProvider(i, "ldap")
      PROVE  /\ mailbox' \in [IDs -> Row \cup {NoRow}]
             /\ faults' \in 0..MaxFaults
             /\ \A j \in IDs : /\ mailbox'[j].email = mailbox[j].email
                               /\ mailbox'[j].origin = mailbox[j].origin
                               /\ mailbox'[j].domain = mailbox[j].domain
                               /\ mailbox'[j] = NoRow <=> mailbox[j] = NoRow
             /\ \A j \in IDs \ {i} : mailbox'[j] = mailbox[j]
             /\ mailbox'[i].prov = mailbox[i].prov
  <2>1. PICK row : row = [mailbox[i] EXCEPT !.provider = "ldap"]
    OBVIOUS
  <2>2. UpdateRow(i, row)
    BY <1>3, <2>1 DEF UpdateIdentityProvider
  <2>3. mailbox[i] # NoRow => row \in Row /\ row.email = mailbox[i].email
          /\ row.origin = mailbox[i].origin /\ row.domain = mailbox[i].domain
          /\ row.prov = mailbox[i].prov
    BY <1>0, <2>1, UpdatesKeep
  <2>4. mailbox[i] = NoRow => mailbox' = mailbox
    BY <2>2 DEF UpdateRow
  <2> QED
    BY <1>0, <2>2, <2>3, <2>4, UpdateKeeps
<1>4. UNCHANGED <<domains, maildir, mail, issued>>
  BY DEF Update, MarkProvisioning, MarkFailed, MarkReady, SetProvider, MarkDeleting,
         MarkDeprovisioning, SetStatus
<1>5. CASE MarkProvisioning(w) \/ MarkFailed(w) \/ MarkReady(w) \/ MarkDeprovisioning(w)
  BY <1>0, <1>1, <1>4, <1>5
  DEF MarkProvisioning, MarkFailed, MarkReady, MarkDeprovisioning
<1>6. CASE MarkDeleting(w) \/ SetStatus(w)
  BY <1>0, <1>2, <1>4, <1>6 DEF MarkDeleting, SetStatus
<1>7. CASE SetProvider(w)
  BY <1>0, <1>3, <1>4, <1>7 DEF SetProvider
<1> QED
  BY <1>5, <1>6, <1>7 DEF Update

-----------------------------------------------------------------------------
(* Type correctness. *)

LEMMA InitTypeOK == Init => TypeOK
BY MailboxAssumption DEF Init, TypeOK, Job, IdleJob, AllDirs

(* What a call in flight has, and that the steps of a call keep it. *)
JobOK(j) ==
  /\ j \in Job
  /\ j.pc # "idle" => j.email # None
  /\ j.pc \notin {"idle", "check", "lookup"} => j.id # None
  /\ j.pc \in {"check", "insert"} => j.domain # None /\ j.caller # "done"

LEMMA JobStep ==
  ASSUME TypeOK, NEW w \in Workers, WorkerStep(w) \/ Crash(w)
  PROVE  /\ job[w].pc # "idle"
         /\ \A v \in Workers \ {w} : job'[v] = job[v]
         /\ JobOK(job'[w])
         /\ job' \in [Workers -> Job]
         /\ job'[w] # IdleJob => job'[w].email = job[w].email
<1> USE MailboxAssumption
<1>0. JobOK(job[w]) /\ job \in [Workers -> Job]
  BY DEF TypeOK, JobOK
<1>1. JobOK(IdleJob)
  BY DEF JobOK, IdleJob, Job
<1>2. CASE job' = [job EXCEPT ![w] = IdleJob] /\ job[w].pc # "idle"
  <2>1. IdleJob \in Job
    BY <1>1 DEF JobOK
  <2> QED
    BY <1>0, <1>1, <1>2, <2>1
<1>3. ASSUME NEW pc \in RowPC \cup DeletePC \cup {"lookup", "idle"},
             job' = [job EXCEPT ![w].pc = pc], job[w].id # None, job[w].pc # "idle"
      PROVE  /\ job[w].pc # "idle"
             /\ \A v \in Workers \ {w} : job'[v] = job[v]
             /\ JobOK(job'[w])
             /\ job' \in [Workers -> Job]
             /\ job'[w] # IdleJob => job'[w].email = job[w].email
  <2>1. PICK j : j = [job[w] EXCEPT !.pc = pc]
    OBVIOUS
  <2>2. JobOK(j) /\ j.email = job[w].email
    BY <1>0, <1>3, <2>1 DEF JobOK, Job, RowPC, ProvisionPC, DeletePC
  <2>3. job' = [job EXCEPT ![w] = j]
    BY <1>3, <2>1
  <2> QED
    BY <1>0, <1>3, <2>2, <2>3 DEF JobOK
<1>4. CASE CreateCheck(w)
  <2>1. CASE job' = [job EXCEPT ![w] = [job[w] EXCEPT !.pc = "insert", !.id = NewID(IDs)]]
             /\ ~(IDs \subseteq issued)
    <3>1. PICK j : j = [job[w] EXCEPT !.pc = "insert", !.id = NewID(IDs)]
      OBVIOUS
    <3>2. NewID(IDs) \in IDs
      BY <2>1, NewIDIsUnused
    <3>3. JobOK(j) /\ j.email = job[w].email
      BY <1>0, <1>4, <3>1, <3>2 DEF CreateCheck, JobOK, Job
    <3> QED
      BY <1>0, <1>4, <2>1, <3>1, <3>3 DEF CreateCheck, JobOK
  <2> QED
    BY <1>2, <1>4, <2>1 DEF CreateCheck, Return
<1>5. CASE ProvisionLookup(w)
  <2>1. ASSUME NEW i \in ByEmail(job[w].email),
               job' = [job EXCEPT ![w] = [job[w] EXCEPT !.pc = "mark", !.id = i,
                                                        !.caller = "done"]]
        PROVE  /\ job[w].pc # "idle"
               /\ \A v \in Workers \ {w} : job'[v] = job[v]
               /\ JobOK(job'[w])
               /\ job' \in [Workers -> Job]
               /\ job'[w] # IdleJob => job'[w].email = job[w].email
    <3>1. PICK j : j = [job[w] EXCEPT !.pc = "mark", !.id = i, !.caller = "done"]
      OBVIOUS
    <3>2. JobOK(j) /\ j.email = job[w].email
      BY <1>0, <1>5, <3>1 DEF ProvisionLookup, ByEmail, JobOK, Job, ProvisionPC
    <3> QED
      BY <1>0, <1>5, <2>1, <3>1, <3>2 DEF ProvisionLookup, JobOK
  <2> QED
    BY <1>2, <1>5, <2>1 DEF ProvisionLookup, Return
<1>6. CASE MarkProvisioning(w)
  <2>1. PICK j : j = [job[w] EXCEPT !.pc = "mkdir", !.dir = 1]
    OBVIOUS
  <2>0. job[w].pc = "mark"
    BY <1>6 DEF MarkProvisioning
  <2>2. j \in Job /\ j.pc = "mkdir" /\ j.email = job[w].email /\ j.id = job[w].id
    <3>1. 1 \in 1..4 /\ "mkdir" \in ProvisionPC
      BY DEF ProvisionPC
    <3> QED
      BY <1>0, <2>1, <3>1 DEF JobOK, Job
  <2>3. JobOK(j)
    BY <1>0, <2>0, <2>2 DEF JobOK
  <2> QED
    BY <1>0, <1>6, <2>0, <2>1, <2>2, <2>3 DEF MarkProvisioning, JobOK
<1>7. CASE Mkdir(w)
  <2>1. CASE job' = [job EXCEPT ![w].dir = job[w].dir + 1] /\ job[w].dir # 4
    <3>1. PICK j : j = [job[w] EXCEPT !.dir = job[w].dir + 1]
      OBVIOUS
    <3>2. job[w].dir + 1 \in 1..4
      BY <1>0, <2>1 DEF JobOK, Job
    <3>3. JobOK(j) /\ j.email = job[w].email
      BY <1>0, <1>7, <3>1, <3>2 DEF Mkdir, JobOK, Job
    <3>4. job' = [job EXCEPT ![w] = j]
      BY <2>1, <3>1
    <3> QED
      BY <1>0, <1>7, <3>3, <3>4 DEF Mkdir, JobOK
  <2>2. job[w].id # None
    BY <1>0, <1>7 DEF Mkdir, JobOK
  <2>3. CASE job' = [job EXCEPT ![w].pc = "markReady"]
    BY <1>3, <1>7, <2>2, <2>3 DEF Mkdir, RowPC
  <2> QED
    BY <1>7, <2>1, <2>3 DEF Mkdir
<1>8. job[w].pc \notin {"idle", "check", "lookup"} => job[w].id # None
  BY <1>0 DEF JobOK
<1>9. CASE \/ CreateInsert(w) \/ MkdirFail(w) \/ MarkReady(w) \/ SetProvider(w)
           \/ MarkDeleting(w) \/ MarkDeprovisioning(w) \/ Deprovision(w)
           \/ DeprovisionFail(w)
  BY <1>2, <1>3, <1>8, <1>9
  DEF CreateInsert, MkdirFail, MarkReady, SetProvider, MarkDeleting, MarkDeprovisioning,
      Deprovision, DeprovisionFail, Goto, Return, RowPC, DeletePC
<1>10. CASE CreateRefused(w) \/ MarkFailed(w) \/ DeleteRow(w) \/ SetStatus(w) \/ Crash(w)
  BY <1>2, <1>10 DEF CreateRefused, MarkFailed, DeleteRow, SetStatus, Crash, Return
<1> QED
  BY <1>4, <1>5, <1>6, <1>7, <1>9, <1>10 DEF WorkerStep

LEMMA NextTypeOK == TypeOK /\ [Next]_vars => TypeOK'
<1> SUFFICES ASSUME TypeOK, [Next]_vars PROVE TypeOK'
  OBVIOUS
<1> USE MailboxAssumption
<1>1. ASSUME NEW w \in Workers, WorkerStep(w) \/ Crash(w) PROVE TypeOK'
  <2>1. job' \in [Workers -> Job] /\ \A v \in Workers : JobOK(job'[v])
    BY <1>1, JobStep DEF TypeOK, JobOK
  <2>2. /\ domains' = domains
        /\ mailbox' \in [IDs -> Row \cup {NoRow}]
        /\ maildir' \in [Emails -> SUBSET AllDirs]
        /\ mail' \in [Emails -> SUBSET IDs]
        /\ issued' \subseteq DomainIDs \cup IDs
        /\ faults' \in 0..MaxFaults
    <3>0. JobOK(job[w])
      BY DEF TypeOK, JobOK
    <3>1. CASE Update(w)
      BY <3>1, UpdateStep DEF TypeOK
    <3>2. CASE CreateCheck(w)
      BY <3>2, NewIDIsUnused DEF TypeOK, CreateCheck
    <3>3. CASE CreateInsert(w)
      <4>1. [email |-> job[w].email, domain |-> job[w].domain, status |-> "active",
             prov |-> "pending", provider |-> "local", origin |-> job[w].caller] \in Row
        BY <3>0, <3>3 DEF CreateInsert, JobOK, Job, Row
      <4> QED
        BY <3>3, <4>1 DEF TypeOK, CreateInsert
    <3>4. CASE CreateRefused(w) \/ MkdirFail(w) \/ Crash(w) \/ ProvisionLookup(w)
      <4>1. UNCHANGED <<domains, mailbox, maildir, mail, issued>>
        BY <3>4 DEF CreateRefused, MkdirFail, Crash, ProvisionLookup
      <4>2. faults' = faults \/ Fault
        BY <3>4 DEF CreateRefused, MkdirFail, Crash, ProvisionLookup
      <4> QED
        BY <4>1, <4>2 DEF TypeOK, Fault
    <3>5. CASE Mkdir(w)
      <4>1. Dirs[job[w].dir] \in AllDirs /\ "Maildir" \in AllDirs
        BY <3>0 DEF JobOK, Job, Dirs, AllDirs
      <4> QED
        BY <3>5, <4>1 DEF TypeOK, Mkdir
    <3>6. CASE Deprovision(w)
      BY <3>6 DEF TypeOK, Deprovision
    <3>7. CASE DeprovisionFail(w)
      <4>1. PICK S \in SUBSET maildir[job[w].email] :
              maildir' = [maildir EXCEPT ![job[w].email] = S]
        BY <3>7 DEF DeprovisionFail
      <4>2. maildir[job[w].email] \in SUBSET AllDirs
        BY <3>0, <3>7 DEF TypeOK, DeprovisionFail, JobOK, Job
      <4>3. UNCHANGED <<domains, mailbox, mail, issued>> /\ Fault
        BY <3>7 DEF DeprovisionFail
      <4>4. maildir' \in [Emails -> SUBSET AllDirs]
        BY <4>1, <4>2 DEF TypeOK
      <4>5. faults' \in 0..MaxFaults
        BY <4>3 DEF TypeOK, Fault
      <4> QED
        BY <4>3, <4>4, <4>5 DEF TypeOK
    <3>8. CASE DeleteRow(w)
      BY <3>8 DEF TypeOK, DeleteRow
    <3> QED
      BY <1>1, <3>1, <3>2, <3>3, <3>4, <3>5, <3>6, <3>7, <3>8 DEF WorkerStep, Update
  <2> QED
    BY <2>1, <2>2 DEF TypeOK, JobOK
<1>2. ASSUME NEW w \in Workers, NEW e \in Emails, Begin(w, e) PROVE TypeOK'
  <2>1. ASSUME NEW caller \in {"admin", "api", "sync"}, CreateBegin(w, e, caller)
        PROVE  TypeOK'
    BY <2>1 DEF TypeOK, CreateBegin, Job
  <2>2. CASE ProvisionBegin(w, e)
    BY <2>2 DEF TypeOK, ProvisionBegin, Job, ProvisionPC
  <2>3. CASE DeleteBegin(w, e)
    BY <2>3 DEF TypeOK, DeleteBegin, ByEmail, Job, DeletePC
  <2>4. ASSUME NEW s \in {"active", "suspended"}, SetStatusBegin(w, e, s) PROVE TypeOK'
    BY <2>4 DEF TypeOK, SetStatusBegin, ByEmail, Job
  <2>5. CASE SyncSuspendBegin(w, e)
    BY <2>5 DEF TypeOK, SyncSuspendBegin, ByEmail, Job
  <2> QED
    BY <1>2, <2>1, <2>2, <2>3, <2>4, <2>5 DEF Begin
<1>3. ASSUME NEW d \in Domains, CreateDomain(d) PROVE TypeOK'
  BY <1>3, NewIDIsUnused DEF TypeOK, CreateDomain
<1>4. ASSUME NEW d \in Domains, DeleteDomain(d) PROVE TypeOK'
  BY <1>4 DEF TypeOK, DeleteDomain
<1>5. ASSUME NEW e \in Emails, Deliver(e) PROVE TypeOK'
  BY <1>5 DEF TypeOK, Deliver, ByEmail
<1>6. CASE UNCHANGED vars
  BY <1>6 DEF TypeOK, vars
<1> QED
  BY <1>1, <1>2, <1>3, <1>4, <1>5, <1>6 DEF Next

(* The tables, the directories and the calls in flight stay in their types. *)
THEOREM TypeCorrect == Spec => []TypeOK
BY InitTypeOK, NextTypeOK, PTL DEF Spec

-----------------------------------------------------------------------------
(* What holds whatever the callers do.  A UUID belongs to the Create that  *)
(* drew it until its row is there; an UPDATE by id then reaches that row   *)
(* or none.                                                                *)

LEMMA BeginStep ==
  ASSUME TypeOK, NEW w \in Workers, NEW e \in Emails, Begin(w, e)
  PROVE  /\ job[w].pc = "idle"
         /\ \A v \in Workers \ {w} : job'[v] = job[v]
         /\ \/ job'[w].pc = "check" /\ job'[w].id = None
               /\ job'[w].domain = domains[DomainOf[e]]
            \/ job'[w].pc = "lookup" /\ job'[w].id = None /\ job'[w].caller = "done"
            \/ /\ job'[w].pc \in {"delStatus", "setStatus"} /\ job'[w].caller = "done"
               /\ job'[w].id \in ByEmail(e)
         /\ job'[w].email = e
         /\ UNCHANGED <<domains, mailbox, maildir, mail, issued, faults>>
<1> USE DEF MayStart, TypeOK
<1>1. ASSUME NEW caller \in {"admin", "api", "sync"}, CreateBegin(w, e, caller)
      PROVE  /\ job[w].pc = "idle" /\ \A v \in Workers \ {w} : job'[v] = job[v]
             /\ job'[w].pc = "check" /\ job'[w].id = None /\ job'[w].email = e
             /\ job'[w].domain = domains[DomainOf[e]]
             /\ UNCHANGED <<domains, mailbox, maildir, mail, issued, faults>>
  BY <1>1 DEF CreateBegin
<1>2. CASE ProvisionBegin(w, e)
  BY <1>2 DEF ProvisionBegin
<1>3. CASE DeleteBegin(w, e)
  BY <1>3 DEF DeleteBegin
<1>4. ASSUME NEW s \in {"active", "suspended"}, SetStatusBegin(w, e, s)
      PROVE  /\ job[w].pc = "idle" /\ \A v \in Workers \ {w} : job'[v] = job[v]
             /\ job'[w].pc = "setStatus" /\ job'[w].id \in ByEmail(e)
             /\ job'[w].caller = "done" /\ job'[w].email = e
             /\ UNCHANGED <<domains, mailbox, maildir, mail, issued, faults>>
  BY <1>4 DEF SetStatusBegin
<1>5. CASE SyncSuspendBegin(w, e)
  BY <1>5 DEF SyncSuspendBegin
<1> QED
  BY <1>1, <1>2, <1>3, <1>4, <1>5 DEF Begin

(* An id is looked up from a row. *)
LEMMA ByEmailHasRow ==
  ASSUME TypeOK, NEW e \in Emails, NEW i \in ByEmail(e)
  PROVE  i \in IDs /\ mailbox[i] # NoRow /\ mailbox[i].email = e
BY MailboxAssumption DEF ByEmail, NoRow

(* The steps of a call after the UUID is drawn, and what they do to it. *)
LEMMA JobFields ==
  ASSUME TypeOK, NEW w \in Workers, WorkerStep(w) \/ Crash(w)
  PROVE  \/ job'[w] = IdleJob
         \/ CreateCheck(w) /\ job'[w].pc = "insert" /\ job'[w].id = NewID(IDs)
            /\ ~(IDs \subseteq issued) /\ job'[w].domain = job[w].domain
            /\ issued' = issued \cup {NewID(IDs)}
         \/ ProvisionLookup(w) /\ job'[w].pc = "mark" /\ job'[w].caller = "done"
            /\ job'[w].id \in ByEmail(job[w].email)
         \/ /\ job'[w].id = job[w].id /\ job'[w].caller = job[w].caller
            /\ ~CreateCheck(w) /\ ~ProvisionLookup(w)
            /\ job[w].pc \notin {"idle", "check", "lookup"}
            /\ job'[w].pc \notin {"check", "insert"}
            /\ job'[w].pc \in RowPC => job[w].pc \in RowPC \cup {"insert"}
            /\ job'[w].pc = "setProvider" => job[w].caller = "sync"
<1>0. job \in [Workers -> Job] /\ job[w] \in Job
  BY DEF TypeOK
<1>1. CASE job' = [job EXCEPT ![w] = IdleJob]
  BY <1>0, <1>1
<1>2. CASE CreateCheck(w) /\ job' # [job EXCEPT ![w] = IdleJob]
  <2>1. job' = [job EXCEPT ![w] = [job[w] EXCEPT !.pc = "insert", !.id = NewID(IDs)]]
        /\ issued' = issued \cup {NewID(IDs)} /\ ~(IDs \subseteq issued)
    BY <1>2 DEF CreateCheck, Return
  <2> QED
    BY <1>0, <1>2, <2>1 DEF Job
<1>3. CASE ProvisionLookup(w) /\ job' # [job EXCEPT ![w] = IdleJob]
  <2>1. PICK i \in ByEmail(job[w].email) :
          job' = [job EXCEPT ![w] = [job[w] EXCEPT !.pc = "mark", !.id = i,
                                                   !.caller = "done"]]
    BY <1>3 DEF ProvisionLookup, Return
  <2> QED
    BY <1>0, <1>3, <2>1 DEF Job
<1>4. ASSUME NEW pc, job' = [job EXCEPT ![w].pc = pc]
      PROVE  job'[w].id = job[w].id /\ job'[w].caller = job[w].caller /\ job'[w].pc = pc
  BY <1>0, <1>4 DEF Job
<1>5. CASE MarkProvisioning(w)
  BY <1>0, <1>5 DEF MarkProvisioning, CreateCheck, ProvisionLookup, Job, RowPC
<1>6. CASE Mkdir(w)
  <2>1. CASE job' = [job EXCEPT ![w].dir = job[w].dir + 1]
    BY <1>0, <1>6, <2>1 DEF Mkdir, CreateCheck, ProvisionLookup, Job, RowPC
  <2>2. CASE job' = [job EXCEPT ![w].pc = "markReady"]
    BY <1>4, <1>6, <2>2 DEF Mkdir, CreateCheck, ProvisionLookup, RowPC
  <2> QED
    BY <1>6, <2>1, <2>2 DEF Mkdir
<1>7. CASE \/ CreateInsert(w) \/ MkdirFail(w) \/ SetProvider(w)
           \/ MarkDeleting(w) \/ MarkDeprovisioning(w) \/ Deprovision(w)
           \/ DeprovisionFail(w) \/ (MarkReady(w) /\ job' # [job EXCEPT ![w] = IdleJob])
  <2>1. PICK pc \in {"mark", "markFailed", "lookup", "delProv", "deprovision", "delRow",
                     "setProvider"} :
          /\ job' = [job EXCEPT ![w].pc = pc]
          /\ job[w].pc \notin {"idle", "check", "lookup"}
          /\ pc \in RowPC => job[w].pc \in RowPC \cup {"insert"}
          /\ pc = "setProvider" => job[w].caller = "sync"
    BY <1>7
    DEF CreateInsert, MkdirFail, MarkReady, SetProvider, MarkDeleting, MarkDeprovisioning,
        Deprovision, DeprovisionFail, Goto, Return, RowPC
  <2> QED
    BY <1>4, <2>1 DEF CreateCheck, ProvisionLookup, RowPC
<1>8. CASE CreateRefused(w) \/ MarkFailed(w) \/ DeleteRow(w) \/ SetStatus(w) \/ Crash(w)
  BY <1>1, <1>8 DEF CreateRefused, MarkFailed, DeleteRow, SetStatus, Crash, Return
<1> QED
  BY <1>1, <1>2, <1>3, <1>5, <1>6, <1>7, <1>8 DEF WorkerStep

LEMMA NextOwnership == TypeOK /\ Ownership /\ [Next]_vars => Ownership'
<1> SUFFICES ASSUME TypeOK, Ownership, [Next]_vars PROVE Ownership'
  OBVIOUS
<1> USE MailboxAssumption
<1>0. \A v \in Workers : job[v].pc = "insert" => job[v].id \in IDs
  BY DEF TypeOK, Job
<1>1. ASSUME NEW w \in Workers, WorkerStep(w) \/ Crash(w) PROVE Ownership'
  <2>0. /\ job[w].pc # "idle" /\ \A v \in Workers \ {w} : job'[v] = job[v]
        /\ IdleJob.id = None /\ IdleJob.pc = "idle"
    BY <1>1, JobStep DEF IdleJob
  <2>1. CASE CreateCheck(w)
    <3>1. mailbox' = mailbox
      BY <2>1 DEF CreateCheck
    <3>2. CASE job'[w] = IdleJob /\ issued' = issued
      BY <1>0, <2>0, <3>1, <3>2 DEF Ownership, RowPC
    <3>3. CASE job'[w].pc = "insert" /\ job'[w].id = NewID(IDs) /\ ~(IDs \subseteq issued)
               /\ issued' = issued \cup {NewID(IDs)}
      <4>1. NewID(IDs) \in IDs /\ NewID(IDs) \notin issued
        BY <3>3, NewIDIsUnused
      <4> QED
        BY <1>0, <2>0, <3>1, <3>3, <4>1 DEF Ownership, RowPC
    <3> QED
      <4>1. CASE job' = [job EXCEPT ![w] = IdleJob] /\ issued' = issued
        BY <3>2, <4>1 DEF TypeOK
      <4>2. CASE /\ job' = [job EXCEPT ![w] = [job[w] EXCEPT !.pc = "insert",
                                                           !.id = NewID(IDs)]]
                 /\ ~(IDs \subseteq issued) /\ issued' = issued \cup {NewID(IDs)}
        BY <3>3, <4>2 DEF TypeOK, Job
      <4> QED
        BY <2>1, <4>1, <4>2 DEF CreateCheck, Return
  <2>2. CASE ProvisionLookup(w)
    <3>1. mailbox' = mailbox /\ issued' = issued
      BY <2>2 DEF ProvisionLookup
    <3>2. CASE job'[w] = IdleJob
      BY <1>0, <2>0, <3>1, <3>2 DEF Ownership, RowPC
    <3>3. CASE job'[w].pc = "mark" /\ job'[w].caller = "done"
               /\ job'[w].id \in ByEmail(job[w].email)
      <4>1. job[w].email \in Emails
        BY <2>0 DEF TypeOK, Job
      <4>2. job'[w].id \in IDs /\ mailbox[job'[w].id] # NoRow
        BY <3>3, <4>1, ByEmailHasRow
      <4> QED
        BY <1>0, <2>0, <3>1, <3>3, <4>2 DEF Ownership, RowPC
    <3> QED
      BY <1>1, <2>2, <3>2, <3>3, JobFields DEF ProvisionLookup, CreateCheck
  <2>3. CASE ~CreateCheck(w) /\ ~ProvisionLookup(w)
    <3>1. \/ job'[w] = IdleJob
          \/ /\ job'[w].id = job[w].id /\ job'[w].caller = job[w].caller
             /\ job[w].pc \notin {"idle", "check", "lookup"}
             /\ job'[w].pc \notin {"check", "insert"}
             /\ job'[w].pc \in RowPC => job[w].pc \in RowPC \cup {"insert"}
             /\ job'[w].pc = "setProvider" => job[w].caller = "sync"
      BY <1>1, <2>3, JobFields
    <3>2. issued' = issued
      BY <1>1, <2>3 DEF WorkerStep, Crash, CreateInsert, CreateRefused, MarkProvisioning,
         Mkdir, MkdirFail, MarkFailed, MarkReady, SetProvider, MarkDeleting,
         MarkDeprovisioning, Deprovision, DeprovisionFail, DeleteRow, SetStatus
    <3>3. CASE CreateInsert(w)
      <4>1. /\ mailbox'[job[w].id].origin = job[w].caller /\ job[w].pc = "insert"
            /\ \A i \in IDs \ {job[w].id} : mailbox'[i] = mailbox[i]
        BY <1>0, <3>3 DEF TypeOK, CreateInsert
      <4> QED
        BY <1>0, <2>0, <3>1, <3>2, <4>1 DEF Ownership, RowPC, TypeOK, Job
    <3>4. CASE ~CreateInsert(w)
      <4>1. \A i \in IDs : mailbox'[i] # NoRow =>
              mailbox[i] # NoRow /\ mailbox'[i].origin = mailbox[i].origin
        <5>1. CASE Update(w)
          BY <5>1, UpdateStep
        <5>2. CASE DeleteRow(w)
          BY <5>2 DEF DeleteRow, TypeOK
        <5>3. CASE UNCHANGED mailbox
          BY <5>3
        <5> QED
          BY <1>1, <2>3, <3>4, <5>1, <5>2, <5>3
          DEF WorkerStep, Update, Crash, CreateRefused, Mkdir, MkdirFail, Deprovision,
              DeprovisionFail
      <4>2. job[w].pc = "insert" => job'[w] = IdleJob
        BY <1>1, <2>0, <3>4
        DEF TypeOK, WorkerStep, Crash, CreateCheck, CreateRefused, ProvisionLookup,
            MarkProvisioning, Mkdir, MkdirFail, MarkFailed, MarkReady, SetProvider,
            MarkDeleting, MarkDeprovisioning, Deprovision, DeprovisionFail, DeleteRow,
            SetStatus, Return
      <4> QED
        <5>1. \A v \in Workers : job[v].pc \in RowPC => job[v].id \in IDs
          BY DEF TypeOK, Job, RowPC
        <5>2. "idle" \notin RowPC
          BY DEF RowPC
        <5> QED
          BY <1>0, <2>0, <3>1, <3>2, <4>1, <4>2, <5>1, <5>2 DEF Ownership
    <3> QED
      BY <3>3, <3>4
  <2> QED
    BY <2>1, <2>2, <2>3
<1>2. ASSUME NEW w \in Workers, NEW e \in Emails, Begin(w, e) PROVE Ownership'
  <2>1. /\ \A v \in Workers \ {w} : job'[v] = job[v]
        /\ UNCHANGED <<mailbox, issued>>
        /\ job'[w].pc \notin RowPC \cup {"insert"}
    BY <1>2, BeginStep DEF RowPC
  <2>2. job'[w].id # None => job'[w].id \in IDs /\ mailbox[job'[w].id] # NoRow
    BY <1>2, BeginStep, ByEmailHasRow
  <2> QED
    BY <1>0, <2>1, <2>2 DEF Ownership, RowPC
<1>3. ASSUME NEW d \in Domains, CreateDomain(d) PROVE Ownership'
  BY <1>3 DEF CreateDomain, Ownership
<1>4. ASSUME NEW d \in Domains, DeleteDomain(d) PROVE Ownership'
  <2>1. \A i \in IDs : mailbox'[i] \in {mailbox[i], NoRow}
    BY <1>4 DEF DeleteDomain
  <2>2. UNCHANGED <<job, issued>>
    BY <1>4 DEF DeleteDomain
  <2>3. \A v \in Workers : job[v].pc \in RowPC => job[v].id \in IDs
    BY DEF TypeOK, Job, RowPC
  <2> QED
    BY <1>0, <2>1, <2>2, <2>3 DEF Ownership
<1>5. CASE UNCHANGED <<mailbox, job, issued>>
  BY <1>5 DEF Ownership
<1> QED
  BY <1>1, <1>2, <1>3, <1>4, <1>5 DEF Next, Deliver, vars

(* How the table changes in a step other than the INSERT. *)
LEMMA RowsStay ==
  ASSUME TypeOK, [Next]_vars, \A w \in Workers : ~CreateInsert(w)
  PROVE  \A i \in IDs : mailbox'[i] # NoRow =>
           /\ mailbox[i] # NoRow
           /\ mailbox'[i].email = mailbox[i].email
           /\ mailbox'[i].domain = mailbox[i].domain
           /\ mailbox'[i].origin = mailbox[i].origin
           /\ \/ mailbox'[i].provider = mailbox[i].provider
              \/ \E w \in Workers : job[w].pc = "setProvider" /\ job[w].id = i
<1>1. ASSUME NEW w \in Workers, Update(w)
      PROVE  \A i \in IDs : mailbox'[i] # NoRow =>
               /\ mailbox[i] # NoRow
               /\ mailbox'[i].email = mailbox[i].email
               /\ mailbox'[i].domain = mailbox[i].domain
               /\ mailbox'[i].origin = mailbox[i].origin
               /\ \/ mailbox'[i].provider = mailbox[i].provider
                  \/ \E v \in Workers : job[v].pc = "setProvider" /\ job[v].id = i
  BY <1>1, UpdateStep
<1>2. ASSUME NEW w \in Workers, DeleteRow(w)
      PROVE  \A i \in IDs : mailbox'[i] \in {mailbox[i], NoRow}
  BY <1>2 DEF DeleteRow, TypeOK
<1>3. ASSUME NEW d \in Domains, DeleteDomain(d)
      PROVE  \A i \in IDs : mailbox'[i] \in {mailbox[i], NoRow}
  BY <1>3 DEF DeleteDomain, TypeOK
<1>4. ASSUME NEW w \in Workers, NEW e \in Emails, Begin(w, e) PROVE mailbox' = mailbox
  BY <1>4, BeginStep
<1>5. ASSUME NEW w \in Workers, WorkerStep(w) \/ Crash(w), ~Update(w), ~DeleteRow(w)
      PROVE  mailbox' = mailbox
  BY <1>5
  DEF WorkerStep, Crash, Update, CreateCheck, CreateRefused, ProvisionLookup, Mkdir,
      MkdirFail, Deprovision, DeprovisionFail
<1> QED
  BY <1>1, <1>2, <1>3, <1>4, <1>5 DEF Next, CreateDomain, Deliver, vars

LEMMA NextUnique ==
  TypeOK /\ Ownership /\ OneMailboxPerEmail /\ NoTakeover /\ [Next]_vars
    => OneMailboxPerEmail' /\ NoTakeover'
<1> SUFFICES ASSUME TypeOK, Ownership, OneMailboxPerEmail, NoTakeover, [Next]_vars
             PROVE  OneMailboxPerEmail' /\ NoTakeover'
  OBVIOUS
<1> USE MailboxAssumption
<1>1. ASSUME NEW w \in Workers, CreateInsert(w) PROVE OneMailboxPerEmail' /\ NoTakeover'
  <2>1. job[w].id \in IDs /\ job[w].email \in Emails
    BY <1>1 DEF TypeOK, Job, CreateInsert
  <2>2. /\ mailbox'[job[w].id].email = job[w].email
        /\ mailbox'[job[w].id].provider = "local"
        /\ \A i \in IDs \ {job[w].id} : mailbox'[i] = mailbox[i]
        /\ \A i \in IDs : mailbox[i].email # job[w].email
    BY <1>1, <2>1 DEF TypeOK, CreateInsert, InsertAllowed, ByEmail
  <2> QED
    BY <2>1, <2>2 DEF OneMailboxPerEmail, NoTakeover
<1>2. CASE \A w \in Workers : ~CreateInsert(w)
  <2>0. mailbox' \in [IDs -> Row \cup {NoRow}] /\ NoRow.email = None /\ NoRow.provider = "none"
    BY NextTypeOK DEF TypeOK, NoRow
  <2>1. \A i \in IDs : mailbox'[i] # NoRow => mailbox'[i].email # None
    BY <2>0 DEF Row
  <2>2. OneMailboxPerEmail'
    BY <1>2, <2>0, <2>1, RowsStay DEF OneMailboxPerEmail
  <2>3. \A i \in IDs, v \in Workers :
          mailbox[i] # NoRow /\ job[v].pc = "setProvider" /\ job[v].id = i
            => mailbox[i].origin = "sync"
    BY DEF Ownership, RowPC
  <2>4. NoTakeover'
    BY <1>2, <2>0, <2>3, RowsStay DEF NoTakeover
  <2> QED
    BY <2>2, <2>4
<1> QED
  BY <1>1, <1>2

(* A Create that is about to insert owns its UUID, and Sync works on rows  *)
(* that it inserted, whatever the callers do.                              *)
THEOREM CallsOwnTheirRows == Spec => []Ownership
<1>1. Init => Ownership
  BY MailboxAssumption DEF Init, Ownership, NoRow, IdleJob, RowPC
<1> QED BY TypeCorrect, NextOwnership, <1>1, PTL DEF Spec

(* However many calls of Create, Delete and Sync race for an address, and  *)
(* whatever fails, an address has one mailbox.                             *)
THEOREM AddressesAreUnique == Spec => []OneMailboxPerEmail
<1>1. Init => OneMailboxPerEmail /\ NoTakeover /\ Ownership
  BY MailboxAssumption
  DEF Init, OneMailboxPerEmail, NoTakeover, Ownership, NoRow, IdleJob, RowPC
<1> QED
  BY <1>1, TypeCorrect, NextOwnership, NextUnique, PTL DEF Spec

(* Sync hands to LDAP only the rows it created itself.                     *)
THEOREM LocalStaysLocal == Spec => []NoTakeover
<1>1. Init => OneMailboxPerEmail /\ NoTakeover /\ Ownership
  BY MailboxAssumption
  DEF Init, OneMailboxPerEmail, NoTakeover, Ownership, NoRow, IdleJob, RowPC
<1> QED
  BY <1>1, TypeCorrect, NextOwnership, NextUnique, PTL DEF Spec

-----------------------------------------------------------------------------
(* What Sync creates ends up with LDAP.  As long as nothing has failed, a  *)
(* row that Sync inserted and that is still local has its Sync at work.    *)

SyncPC == {"mark", "mkdir", "markReady", "setProvider"}
Marking(i) ==
  \E w \in Workers : job[w].id = i /\ job[w].caller = "sync" /\ job[w].pc \in SyncPC
SyncInv ==
  faults = 0 =>
    \A i \in IDs : mailbox[i].origin = "sync" => mailbox[i].provider = "ldap" \/ Marking(i)

LEMMA FaultsGrow ==
  ASSUME TypeOK, [Next]_vars, faults' = 0
  PROVE  faults = 0 /\ \A w \in Workers : ~Crash(w) /\ ~MkdirFail(w)
<1>1. faults \in Nat /\ (Fault => faults' # 0)
  BY MailboxAssumption DEF TypeOK, Fault
<1>2. faults' = faults \/ Fault
  <2>1. ASSUME NEW w \in Workers, NEW e \in Emails, Begin(w, e) PROVE faults' = faults
    BY <2>1, BeginStep
  <2>2. ASSUME NEW i, NEW row, UpdateRow(i, row) PROVE faults' = faults \/ Fault
    BY <2>2 DEF UpdateRow
  <2>3. ASSUME NEW w \in Workers, Update(w) PROVE faults' = faults \/ Fault
    BY <2>2, <2>3
    DEF Update, MarkProvisioning, MarkFailed, MarkReady, SetProvider, MarkDeleting,
        MarkDeprovisioning, SetStatus, UpdateProvisioningStatus, UpdateStatus,
        UpdateIdentityProvider
  <2>4. ASSUME NEW w \in Workers, WorkerStep(w) \/ Crash(w) PROVE faults' = faults \/ Fault
    BY <2>3, <2>4
    DEF WorkerStep, Crash, Update, CreateCheck, CreateInsert, CreateRefused,
        ProvisionLookup, Mkdir, MkdirFail, Deprovision, DeprovisionFail, DeleteRow
  <2> QED
    BY <2>1, <2>4 DEF Next, CreateDomain, DeleteDomain, Deliver, vars
<1> QED
  BY <1>1, <1>2 DEF Crash, MkdirFail

LEMMA NextSyncInv == TypeOK /\ SyncInv /\ [Next]_vars => SyncInv'
<1> SUFFICES ASSUME TypeOK, SyncInv, [Next]_vars, faults' = 0,
                    NEW i \in IDs, mailbox'[i].origin = "sync"
             PROVE  mailbox'[i].provider = "ldap" \/ Marking(i)'
  BY DEF SyncInv
<1> USE MailboxAssumption
<1>0. /\ faults = 0 /\ \A w \in Workers : ~Crash(w) /\ ~MkdirFail(w)
      /\ ~Fault
  BY FaultsGrow DEF TypeOK, Fault
<1>1. ASSUME NEW w \in Workers, CreateInsert(w), job[w].id = i
      PROVE  Marking(i)'
  <2>1. mailbox'[i].origin = job[w].caller
    BY <1>1 DEF TypeOK, CreateInsert
  <2>2. job'[w].id = i /\ job'[w].caller = "sync" /\ job'[w].pc = "mark"
    BY <1>1, <2>1 DEF TypeOK, Job, CreateInsert, Goto
  <2> QED
    BY <2>2 DEF Marking, SyncPC
<1>2. CASE ~\E w \in Workers : CreateInsert(w) /\ job[w].id = i
  <2>1. /\ mailbox[i].origin = "sync"
        /\ mailbox[i].provider = "ldap" => mailbox'[i].provider = "ldap"
    <3>1. ASSUME NEW w \in Workers, CreateInsert(w) PROVE mailbox'[i] = mailbox[i]
      BY <1>2, <3>1 DEF TypeOK, CreateInsert
    <3>2. ASSUME NEW w \in Workers, Update(w)
          PROVE  /\ mailbox'[i].origin = mailbox[i].origin
                 /\ mailbox[i].provider = "ldap" => mailbox'[i].provider = "ldap"
      <4>1. CASE job[w].pc # "setProvider" \/ job[w].id # i
        BY <3>2, <4>1, UpdateStep
      <4>2. CASE job[w].pc = "setProvider" /\ job[w].id = i
        <5>1. SetProvider(w)
          BY <3>2, <4>2
          DEF Update, MarkProvisioning, MarkFailed, MarkReady, MarkDeleting,
              MarkDeprovisioning, SetStatus
        <5>2. mailbox' = mailbox \/ mailbox'[i] = [mailbox[i] EXCEPT !.provider = "ldap"]
          BY <4>2, <5>1 DEF TypeOK, SetProvider, UpdateIdentityProvider, UpdateRow
        <5>3. mailbox[i] \in Row \cup {NoRow} /\ (mailbox[i] = NoRow => mailbox'[i] = NoRow)
          BY <3>2, UpdateStep DEF TypeOK
        <5> QED
          BY <5>2, <5>3 DEF Row, NoRow
      <4> QED
        BY <4>1, <4>2
    <3>3. CASE \A w \in Workers : ~CreateInsert(w) /\ ~Update(w)
      <4>1. NoRow.origin # "sync"
        BY DEF NoRow
      <4>2. mailbox'[i] # NoRow
        BY <4>1
      <4>3. mailbox'[i] = mailbox[i]
        <5>1. ASSUME NEW w \in Workers, DeleteRow(w) PROVE mailbox'[i] = mailbox[i]
          BY <4>2, <5>1 DEF DeleteRow, TypeOK
        <5>2. ASSUME NEW d \in Domains, DeleteDomain(d) PROVE mailbox'[i] = mailbox[i]
          BY <4>2, <5>2 DEF DeleteDomain, TypeOK
        <5>3. ASSUME NEW w \in Workers, NEW e \in Emails, Begin(w, e)
              PROVE  mailbox'[i] = mailbox[i]
          BY <5>3, BeginStep
        <5>4. ASSUME NEW w \in Workers, WorkerStep(w) \/ Crash(w), ~DeleteRow(w)
              PROVE  mailbox'[i] = mailbox[i]
          BY <3>3, <5>4
          DEF WorkerStep, Crash, Update, CreateCheck, CreateRefused, ProvisionLookup, Mkdir,
              MkdirFail, Deprovision, DeprovisionFail
        <5> QED
          BY <5>1, <5>2, <5>3, <5>4 DEF Next, CreateDomain, Deliver, vars
      <4> QED
        BY <4>3
    <3> QED
      BY <3>1, <3>2, <3>3
  <2>2. ASSUME mailbox[i].provider # "ldap"
        PROVE  mailbox'[i].provider = "ldap" \/ Marking(i)'
    <3>1. PICK w \in Workers : /\ job[w].id = i /\ job[w].caller = "sync"
                               /\ job[w].pc \in SyncPC
      BY <1>0, <2>1, <2>2 DEF SyncInv, Marking
    <3>2. CASE job'[w] = job[w]
      BY <3>1, <3>2 DEF Marking
    <3>3. CASE WorkerStep(w)
      <4>1. \/ MarkProvisioning(w) \/ Mkdir(w) \/ MarkReady(w) \/ SetProvider(w)
        BY <1>0, <3>1, <3>3
        DEF WorkerStep, SyncPC, CreateCheck, CreateInsert, CreateRefused, ProvisionLookup,
            MarkFailed, MarkDeleting, MarkDeprovisioning, Deprovision, DeprovisionFail,
            DeleteRow, SetStatus
      <4>2. CASE MarkProvisioning(w)
        <5>1. job'[w].pc = "mkdir" /\ job'[w].id = i /\ job'[w].caller = "sync"
          BY <3>1, <4>2 DEF MarkProvisioning, TypeOK, Job
        <5> QED
          BY <5>1 DEF Marking, SyncPC
      <4>3. CASE Mkdir(w)
        <5>1. job'[w].pc \in {"mkdir", "markReady"} /\ job'[w].id = i /\ job'[w].caller = "sync"
          BY <3>1, <4>3 DEF Mkdir, TypeOK, Job
        <5> QED
          BY <5>1 DEF Marking, SyncPC
      <4>4. CASE MarkReady(w)
        <5>1. job'[w].pc = "setProvider" /\ job'[w].id = i /\ job'[w].caller = "sync"
          BY <3>1, <4>4 DEF MarkReady, Goto, TypeOK, Job
        <5> QED
          BY <5>1 DEF Marking, SyncPC
      <4>5. CASE SetProvider(w)
        <5>1. mailbox[i] # NoRow /\ mailbox[i] \in Row
          BY <2>1 DEF TypeOK, NoRow
        <5>2. mailbox'[i] = [mailbox[i] EXCEPT !.provider = "ldap"]
          BY <1>0, <3>1, <4>5, <5>1 DEF TypeOK, SetProvider, UpdateIdentityProvider, UpdateRow
        <5> QED
          BY <5>1, <5>2 DEF Row
      <4> QED
        BY <4>1, <4>2, <4>3, <4>4, <4>5
    <3>4. \/ job'[w] = job[w] \/ WorkerStep(w)
      <4>1. ASSUME NEW v \in Workers, WorkerStep(v) \/ Crash(v), v # w PROVE job'[w] = job[w]
        BY <4>1, JobStep
      <4>2. ASSUME NEW v \in Workers, NEW e \in Emails, Begin(v, e) PROVE job'[w] = job[w]
        BY <3>1, <4>2, BeginStep DEF SyncPC
      <4> QED
        BY <1>0, <4>1, <4>2 DEF Next, CreateDomain, DeleteDomain, Deliver, vars
    <3> QED
      BY <3>2, <3>3, <3>4
  <2> QED
    BY <2>1, <2>2
<1> QED
  BY <1>1, <1>2

(* A mailbox that Sync created is managed by LDAP once Sync is done with   *)
(* it, whoever provisions, suspends or deletes meanwhile, as long as no    *)
(* call has failed or crashed.                                             *)
THEOREM SyncFinishesWhatItCreates == Spec => []SyncedIsLdap
<1>1. Init => SyncInv
  BY DEF Init, SyncInv, NoRow
<1>2. SyncInv => SyncedIsLdap
  BY DEF SyncInv, Marking, SyncedIsLdap
<1> QED
  BY TypeCorrect, NextSyncInv, <1>1, <1>2, PTL DEF Spec

-----------------------------------------------------------------------------
(* The domain of a mailbox.  An id stands for one name once and for all,   *)
(* so the foreign key lets through exactly the Creates whose domain is the *)
(* one that is registered now.                                             *)

DomainInv ==
  /\ \A d \in Domains : domains[d] # None => domains[d] \in issued
  /\ \A w \in Workers : job[w].pc \in {"check", "insert"} =>
       /\ job[w].domain \in issued
       /\ \A d \in Domains : domains[d] = job[w].domain => d = DomainOf[job[w].email]
  /\ \A d, c \in Domains : domains[d] = domains[c] /\ domains[d] # None => d = c
  /\ RowsHaveDomain

LEMMA NextDomainInv == TypeOK /\ DomainInv /\ [Next]_vars => DomainInv'
<1> SUFFICES ASSUME TypeOK, DomainInv, [Next]_vars PROVE DomainInv'
  OBVIOUS
<1> USE MailboxAssumption
<1>1. ASSUME NEW w \in Workers, WorkerStep(w) \/ Crash(w) PROVE DomainInv'
  <2>1. domains' = domains /\ issued \subseteq issued'
    <3>1. CASE Update(w)
      BY <3>1, UpdateStep
    <3>2. CASE ~Update(w)
      BY <1>1, <3>2
      DEF WorkerStep, Update, Crash, CreateCheck, CreateInsert, CreateRefused,
          ProvisionLookup, Mkdir, MkdirFail, Deprovision, DeprovisionFail, DeleteRow
    <3> QED
      BY <3>1, <3>2
  <2>2. \A v \in Workers : job'[v].pc \in {"check", "insert"} =>
          /\ job[v].pc \in {"check", "insert"}
          /\ job'[v].domain = job[v].domain /\ job'[v].email = job[v].email
    <3>1. \A v \in Workers \ {w} : job'[v] = job[v]
      BY <1>1, JobStep
    <3>2. job'[w].pc \in {"check", "insert"} =>
            CreateCheck(w) /\ job'[w].domain = job[w].domain
            /\ job'[w].email = job[w].email
      BY <1>1, JobFields, JobStep DEF IdleJob
    <3>3. CreateCheck(w) => job[w].pc = "check"
      BY DEF CreateCheck
    <3> QED
      BY <3>1, <3>2, <3>3
  <2>3. RowsHaveDomain'
    <3>1. CASE CreateInsert(w)
      <4>1. /\ job[w].id \in IDs /\ job[w].pc = "insert"
            /\ mailbox'[job[w].id].email = job[w].email
            /\ mailbox'[job[w].id].domain = job[w].domain
            /\ \A i \in IDs \ {job[w].id} : mailbox'[i] = mailbox[i]
            /\ \E d \in Domains : domains[d] = job[w].domain
        BY <3>1 DEF TypeOK, Job, CreateInsert, InsertAllowed
      <4> QED
        BY <2>1, <4>1 DEF DomainInv, RowsHaveDomain
    <3>2. CASE ~CreateInsert(w)
      <4>1. \A i \in IDs : mailbox'[i] # NoRow =>
              /\ mailbox[i] # NoRow
              /\ mailbox'[i].email = mailbox[i].email
              /\ mailbox'[i].domain = mailbox[i].domain
        <5>1. CASE Update(w)
          BY <5>1, UpdateStep
        <5>2. CASE DeleteRow(w)
          BY <5>2 DEF DeleteRow, TypeOK
        <5>3. CASE UNCHANGED mailbox
          BY <5>3
        <5> QED
          BY <1>1, <3>2, <5>1, <5>2, <5>3
          DEF WorkerStep, Update, Crash, CreateCheck, CreateRefused, ProvisionLookup,
              Mkdir, MkdirFail, Deprovision, DeprovisionFail
      <4> QED
        BY <2>1, <4>1 DEF DomainInv, RowsHaveDomain
    <3> QED
      BY <3>1, <3>2
  <2> QED
    BY <2>1, <2>2, <2>3 DEF DomainInv
<1>2. ASSUME NEW w \in Workers, NEW e \in Emails, Begin(w, e) PROVE DomainInv'
  <2>1. /\ \A v \in Workers \ {w} : job'[v] = job[v]
        /\ UNCHANGED <<domains, mailbox, issued>>
        /\ job'[w].email = e
        /\ job'[w].pc \in {"check", "insert"} => job'[w].domain = domains[DomainOf[e]]
                                                 /\ domains[DomainOf[e]] # None
    <3>1. CASE \E caller \in {"admin", "api", "sync"} : CreateBegin(w, e, caller)
      BY <1>2, <3>1, BeginStep DEF CreateBegin
    <3>2. CASE ~\E caller \in {"admin", "api", "sync"} : CreateBegin(w, e, caller)
      BY <1>2, <3>2, BeginStep
      DEF TypeOK, Begin, ProvisionBegin, DeleteBegin, SetStatusBegin, SyncSuspendBegin
    <3> QED
      BY <3>1, <3>2
  <2>2. DomainOf[e] \in Domains
    OBVIOUS
  <2> QED
    BY <2>1, <2>2 DEF DomainInv, RowsHaveDomain
<1>3. ASSUME NEW d \in Domains, CreateDomain(d) PROVE DomainInv'
  <2>1. NewID(DomainIDs) \in DomainIDs /\ NewID(DomainIDs) \notin issued
    BY <1>3, NewIDIsUnused DEF CreateDomain
  <2>2. /\ domains'[d] = NewID(DomainIDs) /\ \A c \in Domains \ {d} : domains'[c] = domains[c]
        /\ issued' = issued \cup {NewID(DomainIDs)}
        /\ UNCHANGED <<mailbox, job>> /\ domains[d] = None
    BY <1>3 DEF TypeOK, CreateDomain
  <2>3. \A i \in IDs : mailbox[i] # NoRow =>
          mailbox[i].domain # None /\ mailbox[i].email \in Emails
    BY DEF TypeOK, Row
  <2> QED
    BY <2>1, <2>2, <2>3 DEF DomainInv, RowsHaveDomain
<1>4. ASSUME NEW d \in Domains, DeleteDomain(d) PROVE DomainInv'
  <2>1. /\ domains[d] # None
        /\ domains'[d] = None /\ \A c \in Domains \ {d} : domains'[c] = domains[c]
        /\ \A i \in IDs : mailbox'[i] # NoRow =>
             mailbox[i].domain # domains[d] /\ mailbox'[i] = mailbox[i]
        /\ UNCHANGED <<job, issued>>
    BY <1>4 DEF TypeOK, DeleteDomain
  <2>2. \A w \in Workers : job[w].pc \in {"check", "insert"} => job[w].domain # None
    BY DEF TypeOK
  <2>3. \A i \in IDs : mailbox[i] # NoRow => mailbox[i].email \in Emails
    BY DEF TypeOK, Row
  <2> QED
    BY <2>1, <2>2, <2>3 DEF DomainInv, RowsHaveDomain
<1>5. CASE UNCHANGED <<domains, mailbox, job, issued>>
  BY <1>5 DEF DomainInv, RowsHaveDomain
<1> QED
  BY <1>1, <1>2, <1>3, <1>4, <1>5 DEF Next, Deliver, vars

(* A mailbox belongs to the domain of its address as it is registered now, *)
(* also when the domain was deleted and created again while a Create was   *)
(* under way.                                                              *)
THEOREM MailboxesHaveTheirDomain == Spec => []RowsHaveDomain
<1>1. Init => DomainInv
  BY DEF Init, DomainInv, RowsHaveDomain, IdleJob
<1>2. DomainInv => RowsHaveDomain
  BY DEF DomainInv
<1> QED
  BY <1>1, <1>2, TypeCorrect, NextDomainInv, PTL DEF Spec

-----------------------------------------------------------------------------
(* What holds when no two calls work on one address at a time, domains are *)
(* deleted only when empty and the errors the code drops do not happen.    *)
(* A call then has its address to itself: the proof looks at one address   *)
(* at a time, the one the step is about (OwnOK) and the others (Frame).    *)

SerialAll ==
  TypeOK /\ Ownership /\ OneMailboxPerEmail /\ SerialInv /\ ReadyHasMaildir /\ NoInheritedMail

OwnPC == RowPC \cup DeletePC \cup {"setStatus"}

OwnOK(w, e) ==
  /\ job[w].pc \in OwnPC => mailbox[job[w].id].email = e
  /\ job[w].pc \in {"mkdir", "markFailed", "markReady"} =>
       mailbox[job[w].id].prov = "provisioning"
  /\ job[w].pc = "mkdir" => \A k \in 1..4 : k < job[w].dir => Dirs[k] \in maildir[e]
  /\ job[w].pc = "markReady" => maildir[e] = AllDirs
  /\ job[w].pc \in {"deprovision", "delRow"} =>
       mailbox[job[w].id].prov = "deprovisioning"
  /\ job[w].pc = "delRow" => maildir[e] = {} /\ mail[e] = {}
  /\ (\A i \in IDs : mailbox[i].email # e) => maildir[e] = {} /\ mail[e] = {}
  /\ \A i \in IDs : mailbox[i].email = e =>
       /\ mailbox[i].prov = "ready" => maildir[e] = AllDirs
       /\ mail[e] \subseteq {i}

Frame(e) ==
  /\ \A i \in IDs : mailbox[i] # NoRow /\ mailbox[i].email # e => mailbox'[i] = mailbox[i]
  /\ \A i \in IDs : mailbox'[i] # NoRow /\ mailbox'[i].email # e => mailbox'[i] = mailbox[i]
  /\ \A x \in Emails \ {e} : maildir'[x] = maildir[x] /\ mail'[x] = mail[x]

(* The invariant at the address a call works on. *)
LEMMA SerialOwn ==
  ASSUME SerialAll, NEW w \in Workers, job[w].pc # "idle"
  PROVE  /\ job[w].email \in Emails /\ OwnOK(w, job[w].email)
         /\ job[w].pc \in OwnPC => job[w].id \in IDs /\ mailbox[job[w].id] # NoRow
<1>1. job[w] \in Job /\ job[w].email \in Emails
  BY DEF SerialAll, TypeOK, Job
<1>2. job[w].pc \in OwnPC => job[w].id \in IDs
  BY <1>1 DEF SerialAll, TypeOK, Job, OwnPC, RowPC, DeletePC
<1>3. job[w].pc \in OwnPC => mailbox[job[w].id].email = job[w].email
  BY DEF SerialAll, SerialInv, RowStillThere, OwnPC
<1>4. job[w].pc \in OwnPC => mailbox[job[w].id] # NoRow
  BY <1>1, <1>3, MailboxAssumption DEF NoRow
<1>5. \A i \in IDs : mailbox[i].email = job[w].email =>
        mailbox[i] # NoRow
  BY <1>1, MailboxAssumption DEF NoRow
<1>6. /\ (\A i \in IDs : mailbox[i].email # job[w].email) =>
           maildir[job[w].email] = {} /\ mail[job[w].email] = {}
      /\ \A i \in IDs : mailbox[i].email = job[w].email =>
           /\ mailbox[i].prov = "ready" => maildir[job[w].email] = AllDirs
           /\ mail[job[w].email] \subseteq {i}
  BY <1>1, <1>5 DEF SerialAll, SerialInv, NoRowNoFiles, ReadyHasMaildir, NoInheritedMail
<1> QED
  BY <1>1, <1>2, <1>3, <1>4, <1>6 DEF SerialAll, SerialInv, DirsWhileNotReady, OwnOK

(* An UPDATE under these assumptions, at the row the call has read. *)
LEMMA SerialUpdate ==
  ASSUME TypeOK, ~IgnoredErrors, NEW w \in Workers, Update(w), mailbox[job[w].id] # NoRow
  PROVE  /\ MarkProvisioning(w) => mailbox'[job[w].id].prov = "provisioning"
         /\ MarkFailed(w) => mailbox'[job[w].id].prov = "failed"
         /\ MarkReady(w) => mailbox'[job[w].id].prov = "ready"
         /\ MarkDeprovisioning(w) => mailbox'[job[w].id].prov = "deprovisioning"
<1>1. job[w].id \in IDs /\ mailbox[job[w].id] \in Row
  BY UpdateStep DEF TypeOK
<1>2. ASSUME NEW s, UpdateProvisioningStatus(job[w].id, s)
      PROVE  mailbox'[job[w].id].prov = s
  BY <1>1, <1>2 DEF UpdateProvisioningStatus, UpdateRow, TypeOK, Row
<1> QED
  BY <1>2 DEF MarkProvisioning, MarkFailed, MarkReady, MarkDeprovisioning

(* A step of a call leaves the other addresses alone. *)
LEMMA FrameStep ==
  ASSUME SerialAll, SerialUse, NEW w \in Workers, WorkerStep(w) \/ Crash(w)
  PROVE  Frame(job[w].email)
<1> USE MailboxAssumption
<1>0. TypeOK /\ job[w].pc # "idle"
  BY JobStep DEF SerialAll
<1>1. job[w].email \in Emails /\ (job[w].pc \in OwnPC =>
        job[w].id \in IDs /\ mailbox[job[w].id].email = job[w].email)
  BY <1>0, SerialOwn DEF OwnOK
<1>2. CASE Update(w)
  <2>1. job[w].pc \in OwnPC
    BY <1>2 DEF Update, MarkProvisioning, MarkFailed, MarkReady, SetProvider,
       MarkDeleting, MarkDeprovisioning, SetStatus, OwnPC, RowPC, DeletePC
  <2> QED
    BY <1>0, <1>1, <1>2, <2>1, UpdateStep DEF Frame
<1>3. CASE CreateInsert(w)
  <2>1. /\ job[w].id \in IDs /\ mailbox[job[w].id] = NoRow
        /\ mailbox'[job[w].id].email = job[w].email
        /\ \A i \in IDs \ {job[w].id} : mailbox'[i] = mailbox[i]
        /\ UNCHANGED <<maildir, mail>>
    BY <1>3 DEF SerialAll, TypeOK, Job, Ownership, CreateInsert
  <2> QED
    BY <2>1 DEF Frame
<1>4. CASE Mkdir(w) \/ Deprovision(w)
  BY <1>0, <1>1, <1>4 DEF Mkdir, Deprovision, TypeOK, Frame
<1>5. CASE DeprovisionFail(w)
  BY <1>5 DEF DeprovisionFail, SerialUse
<1>6. CASE DeleteRow(w)
  BY <1>0, <1>6 DEF DeleteRow, TypeOK, Frame
<1>7. CASE CreateCheck(w) \/ CreateRefused(w) \/ ProvisionLookup(w) \/ MkdirFail(w) \/ Crash(w)
  BY <1>7 DEF CreateCheck, CreateRefused, ProvisionLookup, MkdirFail, Crash, Frame
<1> QED
  BY <1>2, <1>3, <1>4, <1>5, <1>6, <1>7 DEF WorkerStep, Update

(* ... and keeps the invariant at its own. *)
LEMMA OwnStep ==
  ASSUME SerialAll, SerialUse, NEW w \in Workers, WorkerStep(w) \/ Crash(w),
         NEW e \in Emails, e = job[w].email
  PROVE  OwnOK(w, e)'
<1> USE MailboxAssumption
<1>0. TypeOK /\ job[w].pc # "idle"
  BY JobStep DEF SerialAll
<1>1. /\ OwnOK(w, e)
      /\ job[w].pc \in OwnPC => job[w].id \in IDs /\ mailbox[job[w].id] # NoRow
  BY <1>0, SerialOwn
<1>2. \A i \in IDs : mailbox[i].email = e /\ job[w].pc \in OwnPC => i = job[w].id
  BY <1>1 DEF SerialAll, OneMailboxPerEmail, OwnOK, NoRow
<1>3. IdleJob.pc \notin OwnPC \cup {"mkdir", "markFailed", "markReady", "deprovision", "delRow"}
  BY DEF IdleJob, OwnPC, RowPC, DeletePC
<1>4. ASSUME job'[w] = IdleJob \/ job'[w].pc \in {"check", "insert", "lookup"},
             UNCHANGED <<mailbox, maildir, mail>>
      PROVE  OwnOK(w, e)'
  BY <1>1, <1>3, <1>4 DEF OwnOK, OwnPC, RowPC, DeletePC
<1>5. CASE CreateCheck(w) \/ CreateRefused(w) \/ Crash(w)
  <2>1. UNCHANGED <<mailbox, maildir, mail>>
    BY <1>5 DEF CreateCheck, CreateRefused, Crash
  <2>2. job'[w] = IdleJob \/ job'[w].pc = "insert"
    <3>1. CASE job' = [job EXCEPT ![w] = IdleJob]
      BY <1>0, <3>1 DEF TypeOK
    <3>2. CASE job' = [job EXCEPT ![w] = [job[w] EXCEPT !.pc = "insert", !.id = NewID(IDs)]]
      BY <1>0, <3>2 DEF TypeOK, Job
    <3> QED
      BY <1>5, <3>1, <3>2 DEF CreateCheck, CreateRefused, Crash, Return
  <2> QED
    BY <1>4, <2>1, <2>2
<1>6. CASE ProvisionLookup(w)
  <2>1. UNCHANGED <<mailbox, maildir, mail>>
    BY <1>6 DEF ProvisionLookup
  <2>2. CASE job'[w] = IdleJob
    BY <1>4, <2>1, <2>2
  <2>3. CASE job'[w].pc = "mark" /\ job'[w].id \in ByEmail(e)
    BY <1>1, <2>1, <2>3 DEF OwnOK, ByEmail
  <2> QED
    BY <1>0, <1>6, <2>2, <2>3, JobFields DEF ProvisionLookup, CreateCheck
<1>7. CASE CreateInsert(w)
  <2>1. /\ job[w].id \in IDs
        /\ mailbox'[job[w].id].email = e /\ mailbox'[job[w].id].prov = "pending"
        /\ \A i \in IDs \ {job[w].id} : mailbox'[i] = mailbox[i]
        /\ UNCHANGED <<maildir, mail>>
        /\ \A i \in IDs : mailbox[i].email # e
        /\ job'[w].pc = "mark" /\ job'[w].id = job[w].id
    BY <1>0, <1>7 DEF TypeOK, Job, CreateInsert, InsertAllowed, ByEmail, Goto
  <2> QED
    BY <1>1, <2>1 DEF OwnOK
<1>8. CASE Mkdir(w)
  <2>1. /\ job[w].pc = "mkdir" /\ job[w].dir \in 1..4 /\ job[w].id \in IDs
        /\ job[w].pc \in OwnPC
    BY <1>0, <1>8 DEF Mkdir, TypeOK, Job, OwnPC, RowPC
  <2>2. /\ maildir'[e] = maildir[e] \cup {"Maildir", Dirs[job[w].dir]}
        /\ UNCHANGED <<mailbox, mail>>
    BY <1>0, <1>8 DEF Mkdir, TypeOK
  <2>3. \A k \in 1..4 : k < job[w].dir + 1 => Dirs[k] \in maildir'[e]
    BY <1>1, <2>1, <2>2 DEF OwnOK
  <2>4. maildir'[e] \subseteq AllDirs
    BY <1>0, <2>1, <2>2 DEF TypeOK, Dirs, AllDirs
  <2>5. job[w].dir = 4 => maildir'[e] = AllDirs
    BY <2>3, <2>4 DEF Dirs, AllDirs
  <2>6. \/ job[w].dir = 4 /\ job'[w].pc = "markReady" /\ job'[w].id = job[w].id
        \/ job'[w].pc = "mkdir" /\ job'[w].id = job[w].id /\ job'[w].dir = job[w].dir + 1
    BY <1>0, <1>8 DEF Mkdir, TypeOK, Job
  <2>7. /\ mailbox[job[w].id].email = e /\ mailbox[job[w].id].prov = "provisioning"
        /\ \A i \in IDs : mailbox[i].email = e => i = job[w].id
    BY <1>1, <1>2, <2>1 DEF OwnOK
  <2> QED
    BY <1>1, <2>1, <2>2, <2>3, <2>5, <2>6, <2>7 DEF OwnOK
<1>9. CASE MkdirFail(w)
  <2>1. /\ UNCHANGED <<mailbox, maildir, mail>> /\ job[w].pc = "mkdir"
        /\ job'[w].pc = "markFailed" /\ job'[w].id = job[w].id
    BY <1>0, <1>9 DEF MkdirFail, Goto, TypeOK, Job
  <2>2. job[w].pc \in OwnPC
    BY <2>1 DEF OwnPC, RowPC
  <2> QED
    BY <1>1, <2>1, <2>2 DEF OwnOK
<1>10. CASE Deprovision(w)
  <2>1. /\ job[w].pc = "deprovision" /\ job[w].pc \in OwnPC
        /\ maildir'[e] = {} /\ mail'[e] = {} /\ UNCHANGED mailbox
        /\ job'[w].pc = "delRow" /\ job'[w].id = job[w].id
    BY <1>0, <1>10 DEF Deprovision, Goto, TypeOK, Job, OwnPC, DeletePC
  <2>2. /\ mailbox[job[w].id].email = e /\ mailbox[job[w].id].prov = "deprovisioning"
        /\ \A i \in IDs : mailbox[i].email = e => i = job[w].id
    BY <1>1, <1>2, <2>1 DEF OwnOK
  <2> QED
    BY <2>1, <2>2 DEF OwnOK
<1>11. CASE DeprovisionFail(w)
  BY <1>11 DEF DeprovisionFail, SerialUse
<1>12. CASE DeleteRow(w)
  <2>1. /\ job[w].pc = "delRow" /\ UNCHANGED <<maildir, mail>>
        /\ \A i \in IDs : mailbox'[i].email # e
        /\ job'[w] = IdleJob
    BY <1>0, <1>12 DEF DeleteRow, Return, TypeOK, NoRow
  <2> QED
    BY <1>1, <1>3, <2>1 DEF OwnOK
<1>13. CASE Update(w)
  <2>0. job[w].pc \in OwnPC
    BY <1>13 DEF Update, MarkProvisioning, MarkFailed, MarkReady, SetProvider,
       MarkDeleting, MarkDeprovisioning, SetStatus, OwnPC, RowPC, DeletePC
  <2>1. /\ mailbox[job[w].id].email = e /\ job[w].id \in IDs
        /\ \A i \in IDs : mailbox[i].email = e => i = job[w].id
        /\ ~IgnoredErrors /\ mailbox[job[w].id] # NoRow
    BY <1>1, <1>2, <2>0 DEF OwnOK, SerialUse
  <2>2. /\ \A i \in IDs : mailbox'[i].email = mailbox[i].email
        /\ UNCHANGED <<maildir, mail>>
        /\ job[w].pc \in {"setProvider", "delStatus", "setStatus"} =>
             mailbox'[job[w].id].prov = mailbox[job[w].id].prov
    BY <1>0, <1>13, UpdateStep
  <2>3. /\ MarkProvisioning(w) => mailbox'[job[w].id].prov = "provisioning"
        /\ MarkFailed(w) => mailbox'[job[w].id].prov = "failed"
        /\ MarkReady(w) => mailbox'[job[w].id].prov = "ready"
        /\ MarkDeprovisioning(w) => mailbox'[job[w].id].prov = "deprovisioning"
    BY <1>0, <1>13, <2>1, SerialUpdate
  <2>4. CASE MarkProvisioning(w)
    <3>1. job'[w].pc = "mkdir" /\ job'[w].id = job[w].id /\ job'[w].dir = 1
      BY <1>0, <2>4 DEF MarkProvisioning, TypeOK, Job
    <3>2. \A k \in 1..4 : ~(k < 1)
      OBVIOUS
    <3> QED
      BY <1>1, <2>1, <2>2, <2>3, <2>4, <3>1, <3>2 DEF OwnOK
  <2>5. CASE MarkFailed(w) \/ SetStatus(w)
    <3>1. job'[w] = IdleJob
      BY <1>0, <2>5 DEF MarkFailed, SetStatus, Return, TypeOK
    <3>2. \/ mailbox'[job[w].id].prov = "failed"
          \/ mailbox'[job[w].id].prov = mailbox[job[w].id].prov
      BY <2>2, <2>3, <2>5 DEF SetStatus
    <3> QED
      BY <1>1, <1>3, <2>1, <2>2, <3>1, <3>2 DEF OwnOK
  <2>6. CASE MarkReady(w)
    <3>1. job[w].pc = "markReady" /\ (job'[w] = IdleJob \/ job'[w].pc \in {"lookup", "setProvider"})
          /\ (job'[w].pc = "setProvider" => job'[w].id = job[w].id)
      BY <1>0, <2>6 DEF MarkReady, Goto, Return, TypeOK, Job, IdleJob
    <3> QED
      BY <1>1, <1>3, <2>1, <2>2, <2>3, <2>6, <3>1 DEF OwnOK, OwnPC, RowPC, DeletePC
  <2>7. CASE SetProvider(w) \/ MarkDeleting(w)
    <3>1. job'[w].pc \in {"lookup", "delProv"} /\ job'[w].id = job[w].id
      BY <1>0, <2>7 DEF SetProvider, MarkDeleting, Goto, TypeOK, Job
    <3>2. mailbox'[job[w].id].prov = mailbox[job[w].id].prov
      BY <2>2, <2>7 DEF SetProvider, MarkDeleting
    <3> QED
      BY <1>1, <2>1, <2>2, <3>1, <3>2 DEF OwnOK
  <2>8. CASE MarkDeprovisioning(w)
    <3>1. job'[w].pc = "deprovision" /\ job'[w].id = job[w].id
      BY <1>0, <2>8 DEF MarkDeprovisioning, Goto, TypeOK, Job
    <3> QED
      BY <1>1, <2>1, <2>2, <2>3, <2>8, <3>1 DEF OwnOK
  <2> QED
    BY <1>13, <2>4, <2>5, <2>6, <2>7, <2>8 DEF Update
<1> QED
  BY <1>5, <1>6, <1>7, <1>8, <1>9, <1>10, <1>11, <1>12, <1>13 DEF WorkerStep, Update

LEMMA NextSerial ==
  ASSUME SerialAll, SerialUse, [Next]_vars
  PROVE  SerialInv' /\ ReadyHasMaildir' /\ NoInheritedMail'
<1> USE MailboxAssumption
<1>0. TypeOK /\ TypeOK'
  BY NextTypeOK DEF SerialAll
<1>1. ASSUME NEW w \in Workers, WorkerStep(w) \/ Crash(w)
      PROVE  SerialInv' /\ ReadyHasMaildir' /\ NoInheritedMail'
  <2>0. /\ job[w].pc # "idle" /\ \A v \in Workers \ {w} : job'[v] = job[v]
        /\ job'[w] # IdleJob => job'[w].email = job[w].email
        /\ IdleJob.pc = "idle"
    BY <1>0, <1>1, JobStep DEF IdleJob
  <2>1. PICK e \in Emails : e = job[w].email
    BY <2>0, SerialOwn
  <2>2. Frame(e) /\ OwnOK(w, e)'
    BY <1>1, <2>1, FrameStep, OwnStep
  <2>3. \A v \in Workers \ {w} : job[v].pc # "idle" =>
          /\ job[v].email \in Emails \ {e} /\ OwnOK(v, job[v].email)
          /\ job[v].pc \in OwnPC => job[v].id \in IDs /\ mailbox[job[v].id] # NoRow
    BY <2>0, <2>1, SerialOwn DEF SerialAll, SerialInv, OneCallPerEmail
  <2>4. OneCallPerEmail'
    BY <2>0, <2>1, <2>3 DEF OneCallPerEmail, SerialAll, SerialInv
  <2>5. \A v \in Workers \ {w} : job[v].pc \in OwnPC =>
          /\ mailbox'[job[v].id] = mailbox[job[v].id]
          /\ mailbox[job[v].id].email = job[v].email
    <3>1. "idle" \notin OwnPC
      BY DEF OwnPC, RowPC, DeletePC
    <3> QED
      BY <2>2, <2>3, <3>1 DEF Frame, OwnOK
  <2>6. RowStillThere'
    <3>1. job'[w].pc \in OwnPC => mailbox'[job'[w].id].email = job'[w].email
      BY <2>0, <2>1, <2>2 DEF OwnOK, OwnPC, RowPC, DeletePC
    <3> QED
      BY <2>0, <2>5, <3>1 DEF RowStillThere, OwnPC
  <2>7. DirsWhileNotReady'
    <3>1. ASSUME NEW v \in Workers \ {w}, job[v].pc # "idle"
          PROVE  /\ job'[v] = job[v] /\ OwnOK(v, job[v].email)
                 /\ maildir'[job[v].email] = maildir[job[v].email]
                 /\ mail'[job[v].email] = mail[job[v].email]
                 /\ job[v].pc \in OwnPC => mailbox'[job[v].id] = mailbox[job[v].id]
      BY <2>0, <2>2, <2>3, <2>5, <3>1 DEF Frame
    <3>2. job'[w].pc # "idle" => job'[w].email = e
      BY <2>0, <2>1
    <3>3. {"mkdir", "markFailed", "markReady", "deprovision", "delRow"} \subseteq OwnPC
      BY DEF OwnPC, RowPC, DeletePC
    <3> SUFFICES ASSUME NEW v \in Workers,
                        job'[v].pc \in {"mkdir", "markFailed", "markReady", "deprovision", "delRow"}
                 PROVE  LET made == maildir'[job'[v].email]
                            prov == mailbox'[job'[v].id].prov
                        IN /\ job'[v].pc \in {"mkdir", "markFailed", "markReady"} => prov = "provisioning"
                           /\ job'[v].pc = "mkdir" =>
                                \A k \in 1..4 : k < job'[v].dir => Dirs[k] \in made
                           /\ job'[v].pc = "markReady" => made = AllDirs
                           /\ job'[v].pc \in {"deprovision", "delRow"} => prov = "deprovisioning"
                           /\ job'[v].pc = "delRow" => made = {} /\ mail'[job'[v].email] = {}
      BY DEF DirsWhileNotReady
    <3>4. CASE v = w
      <4>1. job'[w].email = e
        BY <3>2, <3>4
      <4> QED
        BY <2>2, <3>4, <4>1 DEF OwnOK
    <3>5. CASE v # w
      <4>1. job'[v] = job[v] /\ job[v].pc \in OwnPC /\ job[v].pc # "idle"
        BY <2>0, <3>3, <3>5
      <4>2. /\ maildir'[job[v].email] = maildir[job[v].email]
            /\ mail'[job[v].email] = mail[job[v].email]
            /\ mailbox'[job[v].id] = mailbox[job[v].id]
        BY <3>1, <3>5, <4>1
      <4> QED
        BY <4>1, <4>2 DEF DirsWhileNotReady, SerialAll, SerialInv
    <3> QED
      BY <3>4, <3>5
  <2>8. NoRowNoFiles'
    <3>1. ASSUME NEW x \in Emails \ {e}, \A i \in IDs : mailbox'[i].email # x
          PROVE  maildir'[x] = {} /\ mail'[x] = {}
      <4>1. \A i \in IDs : mailbox[i].email # x
        BY <2>2, <3>1 DEF Frame, NoRow
      <4> QED
        BY <2>2, <4>1 DEF Frame, SerialAll, SerialInv, NoRowNoFiles
    <3> QED
      BY <2>2, <3>1 DEF NoRowNoFiles, OwnOK
  <2>9. ASSUME NEW i \in IDs, mailbox'[i] # NoRow
        PROVE  /\ mailbox'[i].prov = "ready" => maildir'[mailbox'[i].email] = AllDirs
               /\ mail'[mailbox'[i].email] \subseteq {i}
    <3>1. CASE mailbox'[i].email = e
      BY <2>2, <3>1 DEF OwnOK
    <3>2. CASE mailbox'[i].email # e
      <4>1. mailbox'[i] = mailbox[i] /\ mailbox[i].email \in Emails \ {e}
        BY <1>0, <2>2, <2>9, <3>2 DEF Frame, TypeOK, Row
      <4> QED
        BY <2>2, <2>9, <4>1 DEF Frame, SerialAll, ReadyHasMaildir, NoInheritedMail
    <3> QED
      BY <3>1, <3>2
  <2>10. ReadyHasMaildir' /\ NoInheritedMail'
    BY <2>9 DEF ReadyHasMaildir, NoInheritedMail, NoRow
  <2> QED
    BY <2>4, <2>6, <2>7, <2>8, <2>10 DEF SerialInv
<1>2. ASSUME NEW w \in Workers, NEW e \in Emails, Begin(w, e)
      PROVE  SerialInv' /\ ReadyHasMaildir' /\ NoInheritedMail'
  <2>1. /\ \A v \in Workers \ {w} : job'[v] = job[v]
        /\ job'[w].email = e
        /\ UNCHANGED <<mailbox, maildir, mail>>
        /\ job'[w].pc \in {"check", "lookup", "delStatus", "setStatus"}
        /\ job'[w].pc \in {"delStatus", "setStatus"} => job'[w].id \in ByEmail(e)
    BY <1>0, <1>2, BeginStep
  <2>2. \A v \in Workers : job[v].email # e
    BY <1>2 DEF Begin, CreateBegin, ProvisionBegin, DeleteBegin, SetStatusBegin,
                SyncSuspendBegin, MayStart, SerialUse
  <2>3. OneCallPerEmail'
    BY <2>1, <2>2 DEF OneCallPerEmail, SerialAll, SerialInv
  <2>4. RowStillThere'
    BY <2>1 DEF RowStillThere, SerialAll, SerialInv, RowPC, DeletePC, ByEmail
  <2>5. DirsWhileNotReady'
    BY <2>1 DEF DirsWhileNotReady, SerialAll, SerialInv
  <2> QED
    BY <2>1, <2>3, <2>4, <2>5
    DEF SerialAll, SerialInv, NoRowNoFiles, ReadyHasMaildir, NoInheritedMail
<1>3. ASSUME NEW e \in Emails, Deliver(e)
      PROVE  SerialInv' /\ ReadyHasMaildir' /\ NoInheritedMail'
  <2>1. PICK i \in ByEmail(e) :
          mailbox[i].prov = "ready" /\ mail' = [mail EXCEPT ![e] = @ \cup {i}]
    BY <1>3 DEF Deliver
  <2>2. i \in IDs /\ mailbox[i].email = e /\ mailbox[i] # NoRow
    BY <1>0, ByEmailHasRow
  <2>3. /\ UNCHANGED <<mailbox, maildir, job>>
        /\ mail'[e] = mail[e] \cup {i} /\ \A x \in Emails \ {e} : mail'[x] = mail[x]
    BY <1>0, <1>3, <2>1 DEF Deliver, TypeOK
  <2>4. \A v \in Workers : job[v].pc = "delRow" => job[v].email \in Emails \ {e}
    <3>1. ASSUME NEW v \in Workers, job[v].pc = "delRow", job[v].email = e PROVE FALSE
      <4>1. /\ job[v].id \in IDs /\ mailbox[job[v].id] # NoRow
            /\ mailbox[job[v].id].email = e /\ mailbox[job[v].id].prov = "deprovisioning"
        BY <3>1, SerialOwn DEF OwnOK, OwnPC, DeletePC
      <4> QED
        BY <2>1, <2>2, <4>1 DEF SerialAll, OneMailboxPerEmail
    <3> QED
      BY <3>1, SerialOwn
  <2>5. DirsWhileNotReady'
    BY <2>3, <2>4 DEF DirsWhileNotReady, SerialAll, SerialInv
  <2>6. NoInheritedMail'
    <3>1. ASSUME NEW j \in IDs, mailbox[j] # NoRow PROVE mail'[mailbox[j].email] \subseteq {j}
      <4>1. mailbox[j].email \in Emails
        BY <1>0, <3>1 DEF TypeOK, Row
      <4>2. mailbox[j].email = e => j = i
        BY <2>2, <3>1 DEF SerialAll, OneMailboxPerEmail
      <4> QED
        BY <2>3, <3>1, <4>1, <4>2 DEF SerialAll, NoInheritedMail
    <3> QED
      BY <2>3, <3>1 DEF NoInheritedMail
  <2>7. NoRowNoFiles'
    BY <2>2, <2>3 DEF NoRowNoFiles, SerialAll, SerialInv
  <2> QED
    BY <2>3, <2>5, <2>6, <2>7
    DEF SerialAll, SerialInv, OneCallPerEmail, RowStillThere, ReadyHasMaildir
<1>4. ASSUME NEW d \in Domains, DeleteDomain(d) PROVE UNCHANGED <<mailbox, maildir, mail, job>>
  BY <1>0, <1>4 DEF DeleteDomain, SerialUse, TypeOK
<1>5. CASE UNCHANGED <<mailbox, maildir, mail, job>>
  BY <1>5 DEF SerialAll, SerialInv, OneCallPerEmail, RowStillThere, DirsWhileNotReady,
              NoRowNoFiles, ReadyHasMaildir, NoInheritedMail
<1> QED
  BY <1>1, <1>2, <1>3, <1>4, <1>5 DEF Next, CreateDomain, vars

LEMMA SerialAlways == ASSUME SerialUse PROVE Spec => []SerialAll
<1>1. Init => SerialAll
  <2>1. Init => Ownership /\ OneMailboxPerEmail
    BY MailboxAssumption DEF Init, OneMailboxPerEmail, Ownership, NoRow, IdleJob, RowPC
  <2>2. Init => SerialInv /\ ReadyHasMaildir /\ NoInheritedMail
    BY DEF Init, SerialInv, OneCallPerEmail, RowStillThere, DirsWhileNotReady,
           NoRowNoFiles, ReadyHasMaildir, NoInheritedMail, IdleJob, NoRow, RowPC, DeletePC
  <2> QED
    BY <2>1, <2>2, InitTypeOK DEF SerialAll
<1>2. SerialAll /\ NoTakeover /\ [Next]_vars => SerialAll' /\ NoTakeover'
  BY NextTypeOK, NextOwnership, NextUnique, NextSerial DEF SerialAll
<1>3. Init => NoTakeover
  BY DEF Init, NoTakeover, NoRow
<1> QED
  BY <1>1, <1>2, <1>3, PTL DEF Spec

(* With calls on one address kept apart and no dropped error: a call has   *)
(* its address to itself, finds the row it read, makes directories while   *)
(* the row is not ready, and leaves none where there is no row.            *)
THEOREM SerialCallsKeepTheirRow ==
  ASSUME SerialUse PROVE Spec => []SerialInv
<1>1. SerialAll => SerialInv
  BY DEF SerialAll
<1> QED BY SerialAlways, <1>1, PTL

(* With calls on one address kept apart, no domain dropped with its        *)
(* mailboxes and no dropped error, a mailbox that Postfix and Dovecot use  *)
(* has all its directories, also after crashes of Create, Provision and    *)
(* Delete at any step.                                                     *)
THEOREM ReadyMailboxesHaveMaildirs ==
  ASSUME SerialUse PROVE Spec => []ReadyHasMaildir
<1>1. SerialAll => ReadyHasMaildir
  BY DEF SerialAll
<1> QED
  BY SerialAlways, <1>1, PTL

(* Under the same assumptions whoever gets an address that was in use      *)
(* before finds no mail of the mailbox that had it.                        *)
THEOREM MailIsNotInherited ==
  ASSUME SerialUse PROVE Spec => []NoInheritedMail
<1>1. SerialAll => NoInheritedMail
  BY DEF SerialAll
<1> QED
  BY SerialAlways, <1>1, PTL

(* Under the same assumptions Delete leaves nothing of the Maildir.        *)
THEOREM DeleteRemovesTheMaildir ==
  ASSUME SerialUse PROVE Spec => []DeletedLeavesNothing
<1>1. SerialAll => DeletedLeavesNothing
  BY DEF SerialAll, SerialInv, NoRowNoFiles, DeletedLeavesNothing, ByEmail
<1> QED
  BY SerialAlways, <1>1, PTL

(* Under the same assumptions the DELETE by address removes the mailbox    *)
(* that Delete looked up, and no other.                                    *)
THEOREM DeleteRemovesWhatItRead ==
  ASSUME SerialUse PROVE Spec => DeletesWhatItRead
<1>1. SerialAll /\ [Next]_vars =>
        [\A w \in Workers : job[w].pc = "delRow" /\ job'[w] = IdleJob =>
           \A i \in IDs : mailbox[i] # NoRow /\ mailbox'[i] = NoRow => i = job[w].id]_vars
  <2> USE MailboxAssumption
  <2> SUFFICES ASSUME SerialAll, Next,
                      NEW w \in Workers, job[w].pc = "delRow", job'[w] = IdleJob,
                      NEW i \in IDs, mailbox[i] # NoRow, mailbox'[i] = NoRow
               PROVE  i = job[w].id
    OBVIOUS
  <2>0. TypeOK /\ IdleJob.pc = "idle"
    BY DEF SerialAll, IdleJob
  <2>1. ASSUME NEW v \in Workers, NEW e \in Emails, Begin(v, e) PROVE FALSE
    BY <2>0, <2>1, BeginStep
  <2>2. ASSUME NEW v \in Workers, WorkerStep(v) \/ Crash(v) PROVE v = w
    BY <2>0, <2>2, JobStep
  <2>3. ASSUME NEW d \in Domains, CreateDomain(d) \/ DeleteDomain(d) PROVE FALSE
    BY <2>0, <2>3 DEF CreateDomain, DeleteDomain
  <2>4. ASSUME NEW e \in Emails, Deliver(e) PROVE FALSE
    BY <2>0, <2>4 DEF Deliver
  <2>5. WorkerStep(w) \/ Crash(w)
    BY <2>1, <2>2, <2>3, <2>4 DEF Next
  <2>6. CASE Crash(w)
    BY <2>6 DEF Crash
  <2>7. CASE WorkerStep(w)
    <3>1. DeleteRow(w)
      BY <2>7 DEF WorkerStep, CreateCheck, CreateInsert, CreateRefused, ProvisionLookup,
         MarkProvisioning, Mkdir, MkdirFail, MarkFailed, MarkReady, SetProvider, MarkDeleting,
         MarkDeprovisioning, Deprovision, DeprovisionFail, SetStatus
    <3>2. mailbox[i].email = job[w].email
      BY <2>0, <3>1 DEF DeleteRow, TypeOK
    <3>3. job[w].id \in IDs /\ mailbox[job[w].id].email = job[w].email
      BY <2>0 DEF TypeOK, Job, SerialAll, SerialInv, RowStillThere, DeletePC
    <3> QED
      BY <3>2, <3>3 DEF SerialAll, OneMailboxPerEmail
  <2> QED
    BY <2>5, <2>6, <2>7
<1> QED
  BY SerialAlways, <1>1, PTL DEF Spec, DeletesWhatItRead

(* Whatever races, crashes or is dropped: an address has one mailbox, and  *)
(* that one belongs to the domain as it is registered now.                 *)
THEOREM RowsStaySound == Spec => []RowsAreSound
BY AddressesAreUnique, MailboxesHaveTheirDomain, PTL DEF RowsAreSound

(* LDAP manages what Sync created and, without a failure, all of it.       *)
THEOREM LdapManagesItsOwn == Spec => []LdapManagesWhatSyncMade
BY LocalStaysLocal, SyncFinishesWhatItCreates, PTL DEF LdapManagesWhatSyncMade
=============================================================================
