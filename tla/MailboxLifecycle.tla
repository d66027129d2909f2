-------------------------- MODULE MailboxLifecycle --------------------------
(***************************************************************************)
(* Domains, mailboxes and their Maildirs.  A mailbox is a row of the       *)
(* PostgreSQL table mailboxes and a directory tree under the vmail root;   *)
(* mailbox.Service.Create, Provision and Delete change the two one         *)
(* statement and one system call at a time, keyed by the address for the   *)
(* directories and for the DELETE, and by the UUID for the UPDATEs.        *)
(* identity.Service.Sync creates mailboxes for the entries of an LDAP      *)
(* directory through the same Create.                                      *)
(*                                                                         *)
(* Callers are HTTP requests and commands, each in its own goroutine or    *)
(* process; nothing in the code keeps two of them off one address.         *)
(***************************************************************************)
EXTENDS Naturals

CONSTANTS
  Workers,        \* concurrent callers
  Domains,        \* domain names
  Emails,         \* addresses
  DomainOf,       \* the domain part of an address
  DomainIDs,      \* the UUIDs uuid.New() can return for domains
  IDs,            \* ... and for mailboxes
  None,           \* no value
  MaxFaults,      \* bound on crashes and failed calls in one behaviour
  Exclusive,      \* TRUE: no two calls work on one address at a time
  DropDomains,    \* TRUE: a domain that has mailboxes may be deleted
  IgnoredErrors   \* TRUE: the calls whose error the code drops may fail

ASSUME MailboxAssumption ==
  /\ DomainOf \in [Emails -> Domains]
  /\ None \notin Workers \cup Domains \cup Emails \cup DomainIDs \cup IDs
  /\ MaxFaults \in Nat
  /\ Exclusive \in BOOLEAN /\ DropDomains \in BOOLEAN
  /\ IgnoredErrors \in BOOLEAN

VARIABLES
  domains,    \* table domains: the id of each name, or None
  mailbox,    \* table mailboxes, by id
  maildir,    \* the directories that exist for each address
  mail,       \* the mailboxes whose mail lies in the Maildir of each address
  job,        \* the call each worker is executing, with its local variables
  issued,     \* UUIDs returned so far
  faults

vars == <<domains, mailbox, maildir, mail, job, issued, faults>>

(* The directories of Provision, in the order it makes them. *)
Dirs == <<"Maildir", "cur", "new", "tmp">>
AllDirs == {"Maildir", "cur", "new", "tmp"}

(* origin is history: who called Create. *)
Row == [email : Emails, domain : DomainIDs,
        status : {"active", "suspended", "deleting"},
        prov : {"pending", "provisioning", "ready", "failed", "deprovisioning"},
        provider : {"local", "ldap"},
        origin : {"admin", "api", "sync"}]
NoRow == [email |-> None, domain |-> None, status |-> "none",
          prov |-> "none", provider |-> "none", origin |-> "none"]

ProvisionPC == {"lookup", "mark", "mkdir", "markFailed", "markReady"}
DeletePC    == {"delStatus", "delProv", "deprovision", "delRow"}

Job == [pc : {"idle", "check", "insert", "setProvider", "setStatus"}
              \cup ProvisionPC \cup DeletePC,
        email : Emails \cup {None},
        id : IDs \cup {None},         \* the UUID the call works on
        domain : DomainIDs \cup {None}, \* dom.ID
        dir : 1..4,                   \* loop variable of Provision
        caller : {"admin", "api", "sync", "done"},
        status : {"active", "suspended"}]

IdleJob == [pc |-> "idle", email |-> None, id |-> None, domain |-> None,
            dir |-> 1, caller |-> "done", status |-> "active"]

Init ==
  /\ domains = [d \in Domains |-> None]
  /\ mailbox = [i \in IDs |-> NoRow]
  /\ maildir = [e \in Emails |-> {}]
  /\ mail = [e \in Emails |-> {}]
  /\ job = [w \in Workers |-> IdleJob]
  /\ issued = {}
  /\ faults = 0

-----------------------------------------------------------------------------
Fault ==
  /\ faults < MaxFaults
  /\ faults' = faults + 1

(* GetByEmail: the ids of the rows with this address (one or none). *)
ByEmail(e) == {i \in IDs : mailbox[i].email = e}

(* The caller may start to work on this address. *)
MayStart(w, e) ==
  /\ job[w].pc = "idle"
  /\ Exclusive => \A v \in Workers : job[v].email # e

NewID(S) == CHOOSE i \in S : i \notin issued

(* UPDATE mailboxes SET ... WHERE id = i: no row, no change, and the error *)
(* is dropped like any other.                                              *)
UpdateRow(i, row) ==
  \/ /\ mailbox' = IF mailbox[i] # NoRow THEN [mailbox EXCEPT ![i] = row]
                                         ELSE mailbox
     /\ UNCHANGED faults
  \/ /\ IgnoredErrors /\ Fault
     /\ UNCHANGED mailbox

UpdateProvisioningStatus(i, s) == UpdateRow(i, [mailbox[i] EXCEPT !.prov = s])
UpdateStatus(i, s) == UpdateRow(i, [mailbox[i] EXCEPT !.status = s])
UpdateIdentityProvider(i, p) == UpdateRow(i, [mailbox[i] EXCEPT !.provider = p])

Goto(w, pc) == job' = [job EXCEPT ![w].pc = pc]
Return(w) == job' = [job EXCEPT ![w] = IdleJob]

-----------------------------------------------------------------------------
(* domain.Service.  The INSERT decides: its UNIQUE name makes the lookup   *)
(* before it superfluous.                                                  *)
CreateDomain(d) ==
  /\ domains[d] = None
  /\ ~(DomainIDs \subseteq issued)
  /\ domains' = [domains EXCEPT ![d] = NewID(DomainIDs)]
  /\ issued' = issued \cup {NewID(DomainIDs)}
  /\ UNCHANGED <<mailbox, maildir, mail, job, faults>>

(* ON DELETE CASCADE takes the mailboxes with it; their Maildirs stay. *)
DeleteDomain(d) ==
  /\ domains[d] # None
  /\ DropDomains \/ \A i \in IDs : mailbox[i].domain # domains[d]
  /\ domains' = [domains EXCEPT ![d] = None]
  /\ mailbox' = [i \in IDs |-> IF mailbox[i].domain = domains[d]
                                 THEN NoRow ELSE mailbox[i]]
  /\ UNCHANGED <<maildir, mail, job, issued, faults>>

-----------------------------------------------------------------------------
(* mailbox.Service.Create *)

(* The domain is resolved.  Called by a command, by the POST handler or by *)
(* Sync, whose own lookup found no mailbox or failed.                      *)
CreateBegin(w, e, caller) ==
  /\ MayStart(w, e)
  /\ domains[DomainOf[e]] # None
  /\ job' = [job EXCEPT ![w] = [pc |-> "check", email |-> e, id |-> None,
                               domain |-> domains[DomainOf[e]], dir |-> 1,
                               caller |-> caller, status |-> "active"]]
  /\ UNCHANGED <<domains, mailbox, maildir, mail, issued, faults>>

(* ErrMailboxExists, or the UUID is drawn. *)
CreateCheck(w) ==
  /\ job[w].pc = "check"
  /\ \/ ByEmail(job[w].email) # {} /\ Return(w) /\ UNCHANGED issued
     \/ /\ ByEmail(job[w].email) = {}
        /\ ~(IDs \subseteq issued)
        /\ job' = [job EXCEPT ![w] = [job[w] EXCEPT !.pc = "insert", !.id = NewID(IDs)]]
        /\ issued' = issued \cup {NewID(IDs)}
  /\ UNCHANGED <<domains, mailbox, maildir, mail, faults>>

(* Mutant: domain_id is no foreign key. *)
MutInsertNoForeignKey(w) == ByEmail(job[w].email) = {}

(* UNIQUE (email) and the foreign key on domain_id, as of now. *)
InsertAllowed(w) ==
  /\ ByEmail(job[w].email) = {}
  /\ \E d \in Domains : domains[d] = job[w].domain

CreateInsert(w) ==
  /\ job[w].pc = "insert"
  /\ InsertAllowed(w)
  /\ mailbox' = [mailbox EXCEPT ![job[w].id] =
       [email |-> job[w].email, domain |-> job[w].domain, status |-> "active",
        prov |-> "pending", provider |-> "local", origin |-> job[w].caller]]
  /\ Goto(w, "mark")
  /\ UNCHANGED <<domains, maildir, mail, issued, faults>>

CreateRefused(w) ==
  /\ job[w].pc = "insert"
  /\ \/ ~InsertAllowed(w) /\ UNCHANGED faults
     \/ InsertAllowed(w) /\ Fault
  /\ Return(w)
  /\ UNCHANGED <<domains, mailbox, maildir, mail, issued>>

-----------------------------------------------------------------------------
(* mailbox.Service.Provision, and the tail of Create *)

ProvisionBegin(w, e) ==
  /\ MayStart(w, e)
  /\ ByEmail(e) # {}
  /\ job' = [job EXCEPT ![w] = [pc |-> "lookup", email |-> e, id |-> None,
                               domain |-> None, dir |-> 1,
                               caller |-> "done", status |-> "active"]]
  /\ UNCHANGED <<domains, mailbox, maildir, mail, issued, faults>>

(* Mutant: a row that says "provisioning" is left to whoever set it. *)
MutProvisionLookup(w) ==
  /\ job[w].pc = "lookup"
  /\ \/ /\ \A i \in ByEmail(job[w].email) : mailbox[i].prov \in {"ready", "provisioning"}
        /\ Return(w)
     \/ \E i \in ByEmail(job[w].email) :
          /\ mailbox[i].prov \notin {"ready", "provisioning"}
          /\ job' = [job EXCEPT ![w] = [job[w] EXCEPT !.pc = "mark", !.id = i,
                                                      !.caller = "done"]]
  /\ UNCHANGED <<domains, mailbox, maildir, mail, issued, faults>>

(* Nothing to do without a row, or for one that is ready. *)
ProvisionLookup(w) ==
  /\ job[w].pc = "lookup"
  /\ \/ /\ \A i \in ByEmail(job[w].email) : mailbox[i].prov = "ready"
        /\ Return(w)
     \/ \E i \in ByEmail(job[w].email) :
          /\ mailbox[i].prov # "ready"
          /\ job' = [job EXCEPT ![w] = [job[w] EXCEPT !.pc = "mark", !.id = i,
                                                      !.caller = "done"]]
  /\ UNCHANGED <<domains, mailbox, maildir, mail, issued, faults>>

MarkProvisioning(w) ==
  /\ job[w].pc = "mark"
  /\ UpdateProvisioningStatus(job[w].id, "provisioning")
  /\ job' = [job EXCEPT ![w] = [job[w] EXCEPT !.pc = "mkdir", !.dir = 1]]
  /\ UNCHANGED <<domains, maildir, mail, issued>>

(* Mutant: the loop stops one directory short. *)
MutMkdir(w) ==
  /\ job[w].pc = "mkdir"
  /\ maildir' = [maildir EXCEPT ![job[w].email] =
                   @ \cup {"Maildir", Dirs[job[w].dir]}]
  /\ job' = IF job[w].dir = 3
              THEN [job EXCEPT ![w].pc = "markReady"]
              ELSE [job EXCEPT ![w].dir = job[w].dir + 1]
  /\ UNCHANGED <<domains, mailbox, mail, issued, faults>>

(* MkdirAll of one directory makes the Maildir above it too. *)
Mkdir(w) ==
  /\ job[w].pc = "mkdir"
  /\ maildir' = [maildir EXCEPT ![job[w].email] =
                   @ \cup {"Maildir", Dirs[job[w].dir]}]
  /\ job' = IF job[w].dir = 4
              THEN [job EXCEPT ![w].pc = "markReady"]
              ELSE [job EXCEPT ![w].dir = job[w].dir + 1]
  /\ UNCHANGED <<domains, mailbox, mail, issued, faults>>

MkdirFail(w) ==
  /\ job[w].pc = "mkdir"
  /\ Fault
  /\ Goto(w, "markFailed")
  /\ UNCHANGED <<domains, mailbox, maildir, mail, issued>>

MarkFailed(w) ==
  /\ job[w].pc = "markFailed"
  /\ UpdateProvisioningStatus(job[w].id, "failed")
  /\ Return(w)
  /\ UNCHANGED <<domains, maildir, mail, issued>>

(* The POST handler goes on to Provision, Sync to the identity provider.   *)
MarkReady(w) ==
  /\ job[w].pc = "markReady"
  /\ UpdateProvisioningStatus(job[w].id, "ready")
  /\ \/ job[w].caller \in {"admin", "done"} /\ Return(w)
     \/ job[w].caller = "api" /\ Goto(w, "lookup")
     \/ job[w].caller = "sync" /\ Goto(w, "setProvider")
  /\ UNCHANGED <<domains, maildir, mail, issued>>

(* Mutant: UPDATE ... WHERE email. *)
MutSetProvider(w) ==
  /\ job[w].pc = "setProvider"
  /\ mailbox' = [i \in IDs |-> IF mailbox[i].email = job[w].email
                                 THEN [mailbox[i] EXCEPT !.provider = "ldap"]
                                 ELSE mailbox[i]]
  /\ Goto(w, "lookup")
  /\ UNCHANGED <<domains, maildir, mail, issued, faults>>

SetProvider(w) ==
  /\ job[w].pc = "setProvider"
  /\ UpdateIdentityProvider(job[w].id, "ldap")
  /\ Goto(w, "lookup")
  /\ UNCHANGED <<domains, maildir, mail, issued>>

-----------------------------------------------------------------------------
(* mailbox.Service.Delete *)

DeleteBegin(w, e) ==
  /\ MayStart(w, e)
  /\ \E i \in ByEmail(e) :
       job' = [job EXCEPT ![w] = [pc |-> "delStatus", email |-> e, id |-> i,
                                  domain |-> None, dir |-> 1,
                                  caller |-> "done", status |-> "active"]]
  /\ UNCHANGED <<domains, mailbox, maildir, mail, issued, faults>>

MarkDeleting(w) ==
  /\ job[w].pc = "delStatus"
  /\ UpdateStatus(job[w].id, "deleting")
  /\ Goto(w, "delProv")
  /\ UNCHANGED <<domains, maildir, mail, issued>>

(* Mutant: the row is deleted, the directories are not. *)
MutMarkDeprovisioning(w) ==
  /\ job[w].pc = "delProv"
  /\ UpdateProvisioningStatus(job[w].id, "deprovisioning")
  /\ Goto(w, "delRow")
  /\ UNCHANGED <<domains, maildir, mail, issued>>

MarkDeprovisioning(w) ==
  /\ job[w].pc = "delProv"
  /\ UpdateProvisioningStatus(job[w].id, "deprovisioning")
  /\ Goto(w, "deprovision")
  /\ UNCHANGED <<domains, maildir, mail, issued>>

(* Mutant: the messages are moved aside instead of removed. *)
MutDeprovision(w) ==
  /\ job[w].pc = "deprovision"
  /\ maildir' = [maildir EXCEPT ![job[w].email] = {}]
  /\ Goto(w, "delRow")
  /\ UNCHANGED <<domains, mailbox, mail, issued, faults>>

(* RemoveAll of the address's directory. *)
Deprovision(w) ==
  /\ job[w].pc = "deprovision"
  /\ maildir' = [maildir EXCEPT ![job[w].email] = {}]
  /\ mail' = [mail EXCEPT ![job[w].email] = {}]
  /\ Goto(w, "delRow")
  /\ UNCHANGED <<domains, mailbox, issued, faults>>

(* RemoveAll fails, somewhere on its way: what it has not removed stays,   *)
(* and so does the Maildir above it.  Delete goes on.                      *)
DeprovisionFail(w) ==
  /\ job[w].pc = "deprovision"
  /\ IgnoredErrors /\ Fault
  /\ \E S \in SUBSET maildir[job[w].email] :
       /\ S # {} => "Maildir" \in S
       /\ maildir' = [maildir EXCEPT ![job[w].email] = S]
  /\ Goto(w, "delRow")
  /\ UNCHANGED <<domains, mailbox, mail, issued>>

(* Mutant: DELETE ... WHERE domain_id. *)
MutDeleteRow(w) ==
  /\ job[w].pc = "delRow"
  /\ mailbox' = [i \in IDs |-> IF mailbox[i].domain = mailbox[job[w].id].domain
                                 THEN NoRow ELSE mailbox[i]]
  /\ Return(w)
  /\ UNCHANGED <<domains, maildir, mail, issued, faults>>

(* DELETE ... WHERE email: the address, whoever has it by now. *)
DeleteRow(w) ==
  /\ job[w].pc = "delRow"
  /\ mailbox' = [i \in IDs |-> IF mailbox[i].email = job[w].email
                                 THEN NoRow ELSE mailbox[i]]
  /\ Return(w)
  /\ UNCHANGED <<domains, maildir, mail, issued, faults>>

-----------------------------------------------------------------------------
(* Suspend and Resume of the API, and what Sync does to a disabled entry:  *)
(* the row is read first, the UPDATE comes later and by id.                *)
SetStatusBegin(w, e, s) ==
  /\ MayStart(w, e)
  /\ \E i \in ByEmail(e) :
       job' = [job EXCEPT ![w] = [pc |-> "setStatus", email |-> e, id |-> i,
                                  domain |-> None, dir |-> 1,
                                  caller |-> "done", status |-> s]]
  /\ UNCHANGED <<domains, mailbox, maildir, mail, issued, faults>>

SyncSuspendBegin(w, e) ==
  /\ MayStart(w, e)
  /\ domains[DomainOf[e]] # None
  /\ \E i \in ByEmail(e) :
       /\ mailbox[i].provider = "ldap"
       /\ mailbox[i].status = "active"
       /\ job' = [job EXCEPT ![w] = [pc |-> "setStatus", email |-> e, id |-> i,
                                     domain |-> None, dir |-> 1,
                                     caller |-> "done", status |-> "suspended"]]
  /\ UNCHANGED <<domains, mailbox, maildir, mail, issued, faults>>

SetStatus(w) ==
  /\ job[w].pc = "setStatus"
  /\ UpdateStatus(job[w].id, job[w].status)
  /\ Return(w)
  /\ UNCHANGED <<domains, maildir, mail, issued>>

-----------------------------------------------------------------------------
(* Postfix and Dovecot look the address up and write into new/. *)
Deliver(e) ==
  /\ "new" \in maildir[e]
  /\ \E i \in ByEmail(e) :
       /\ mailbox[i].status = "active" /\ mailbox[i].prov = "ready"
       /\ mail' = [mail EXCEPT ![e] = @ \cup {i}]
  /\ UNCHANGED <<domains, mailbox, maildir, job, issued, faults>>

(* The process dies, or a statement whose error is returned fails. *)
Crash(w) ==
  /\ job[w].pc # "idle"
  /\ Fault
  /\ Return(w)
  /\ UNCHANGED <<domains, mailbox, maildir, mail, issued>>

-----------------------------------------------------------------------------
WorkerStep(w) ==
  \/ CreateCheck(w) \/ CreateInsert(w) \/ CreateRefused(w)
  \/ ProvisionLookup(w) \/ MarkProvisioning(w) \/ Mkdir(w) \/ MkdirFail(w)
  \/ MarkFailed(w) \/ MarkReady(w) \/ SetProvider(w)
  \/ MarkDeleting(w) \/ MarkDeprovisioning(w)
  \/ Deprovision(w) \/ DeprovisionFail(w) \/ DeleteRow(w)
  \/ SetStatus(w)

Begin(w, e) ==
  \/ \E caller \in {"admin", "api", "sync"} : CreateBegin(w, e, caller)
  \/ ProvisionBegin(w, e)
  \/ DeleteBegin(w, e)
  \/ \E s \in {"active", "suspended"} : SetStatusBegin(w, e, s)
  \/ SyncSuspendBegin(w, e)

Next ==
  \/ \E w \in Workers :
       \/ \E e \in Emails : Begin(w, e)
       \/ WorkerStep(w)
       \/ Crash(w)
  \/ \E d \in Domains : CreateDomain(d) \/ DeleteDomain(d)
  \/ \E e \in Emails : Deliver(e)

Spec == Init /\ [][Next]_vars

(* A call that was started runs on (or crashes), and `mailbox provision`   *)
(* is retried for an address again and again.                              *)
Fairness ==
  /\ \A w \in Workers : WF_vars(WorkerStep(w))
  /\ \A e \in Emails : SF_vars(\E w \in Workers : ProvisionBegin(w, e))

FairSpec == Spec /\ Fairness

-----------------------------------------------------------------------------
(* Properties. *)

(* Every variable stays in its type. *)
TypeOK ==
  /\ domains \in [Domains -> DomainIDs \cup {None}]
  /\ mailbox \in [IDs -> Row \cup {NoRow}]
  /\ maildir \in [Emails -> SUBSET AllDirs]
  /\ mail \in [Emails -> SUBSET IDs]
  /\ job \in [Workers -> Job]
  /\ \A w \in Workers :
       /\ job[w].pc # "idle" => job[w].email # None
       /\ job[w].pc \notin {"idle", "check", "lookup"} => job[w].id # None
       /\ job[w].pc \in {"check", "insert"} =>
            job[w].domain # None /\ job[w].caller # "done"
  /\ issued \subseteq DomainIDs \cup IDs
  /\ faults \in 0..MaxFaults

(* However many Create calls race for an address, one of them gets it.     *)
OneMailboxPerEmail ==
  \A i, j \in IDs : mailbox[i].email = mailbox[j].email => 
                      i = j \/ mailbox[i] = NoRow

(* A mailbox belongs to the domain of its address, as it is registered     *)
(* now: a domain deleted, or deleted and created anew, while a Create was  *)
(* under way leaves no mailbox of the old one.                             *)
RowsHaveDomain ==
  \A i \in IDs : mailbox[i] # NoRow =>
                    mailbox[i].domain = domains[DomainOf[mailbox[i].email]]

(* Create's look-up decides nothing (service.go:96), the constraints do:   *)
(* whatever races, an address has one mailbox, of the domain it is in.     *)
RowsAreSound == OneMailboxPerEmail /\ RowsHaveDomain

(* LDAP manages only what Sync created: no local mailbox is taken over,    *)
(* not even one that was created or replaced while Sync was running.       *)
NoTakeover == \A i \in IDs : mailbox[i].provider = "ldap" => mailbox[i].origin = "sync"

(* A mailbox that Postfix and Dovecot use has all its directories.         *)
ReadyHasMaildir ==
  \A i \in IDs : mailbox[i].prov = "ready" => maildir[mailbox[i].email] = AllDirs

(* A mailbox holds no mail but its own: whoever gets an address that was   *)
(* in use before does not find the mail of the one who had it.             *)
NoInheritedMail ==
  \A i \in IDs : mailbox[i] # NoRow => mail[mailbox[i].email] \subseteq {i}

(* README: "Delete mailbox (deprovisions Maildir and removes from DB)".    *)
(* An address without a row, on which nobody works, has no Maildir.        *)
DeletedLeavesNothing ==
  \A e \in Emails :
    ByEmail(e) = {} /\ (\A w \in Workers : job[w].email # e) => maildir[e] = {}

(* Delete removes the mailbox it looked up and no other.                   *)
DeletesWhatItRead ==
  [][\A w \in Workers : job[w].pc = "delRow" /\ job'[w] = IdleJob =>
       \A i \in IDs : mailbox[i] # NoRow /\ mailbox'[i] = NoRow => i = job[w].id]_vars

(* What Sync created, once Sync is done with it, is managed by LDAP, also  *)
(* when others provision, suspend or replace the mailbox meanwhile.  Only  *)
(* a failure or a crash leaves it local, as every later Sync will.         *)
SyncedIsLdap ==
  \A i \in IDs :
    mailbox[i].origin = "sync" /\ (\A w \in Workers : job[w].id # i) /\ faults = 0
      => mailbox[i].provider = "ldap"

(* LDAP manages what Sync created: never more, and less only after a       *)
(* failure, although Sync creates a mailbox in one statement and assigns   *)
(* it in a later one.                                                      *)
LdapManagesWhatSyncMade == NoTakeover /\ SyncedIsLdap

(* A mailbox whose provisioning was interrupted or failed.                 *)
Unprovisioned(e) ==
  \E i \in ByEmail(e) : mailbox[i].prov \in {"pending", "provisioning", "failed"}

(* README: "Retry / Trigger idempotent provisioning": wherever a Create or *)
(* a Provision stopped, retrying brings the mailbox up (or it is deleted). *)
ProvisioningRecovers == \A e \in Emails : Unprovisioned(e) ~> ~Unprovisioned(e)

(* The assumptions under which rows and directories agree.                 *)
SerialUse == Exclusive /\ ~DropDomains /\ ~IgnoredErrors

(* What makes OneMailboxPerEmail and NoTakeover inductive, whatever the    *)
(* callers do: the UUID a Create is about to insert is its own, and a      *)
(* Sync works on rows that it inserted.                                    *)
RowPC == {"mark", "mkdir", "markFailed", "markReady", "setProvider"}

Ownership ==
  /\ \A i \in IDs : mailbox[i] # NoRow => i \in issued
  /\ \A w \in Workers : job[w].id # None => job[w].id \in issued
  /\ \A w \in Workers : job[w].pc = "insert" =>
       /\ mailbox[job[w].id] = NoRow
       /\ \A v \in Workers : v # w => job[v].id # job[w].id
  /\ \A w \in Workers :
       /\ job[w].caller = "sync" /\ job[w].pc \in RowPC
       /\ mailbox[job[w].id] # NoRow
       => mailbox[job[w].id].origin = "sync"
  /\ \A w \in Workers : job[w].pc = "setProvider" => job[w].caller = "sync"

(* What makes the others inductive under SerialUse: a call has its address *)
(* to itself and the row it read is still there; the directories are made  *)
(* and removed while the row is not ready; an address without a row has    *)
(* neither directories nor mail.                                           *)
OneCallPerEmail ==
  \A w, v \in Workers :
    w # v /\ job[w].pc # "idle" /\ job[v].pc # "idle" => job[w].email # job[v].email

RowStillThere ==
  \A w \in Workers :
    job[w].pc \in RowPC \cup DeletePC \cup {"setStatus"} =>
      mailbox[job[w].id].email = job[w].email

DirsWhileNotReady ==
  \A w \in Workers :
    LET made == maildir[job[w].email]
        prov == mailbox[job[w].id].prov
    IN /\ job[w].pc \in {"mkdir", "markFailed", "markReady"} => prov = "provisioning"
       /\ job[w].pc = "mkdir" => \A k \in 1..4 : k < job[w].dir => Dirs[k] \in made
       /\ job[w].pc = "markReady" => made = AllDirs
       /\ job[w].pc \in {"deprovision", "delRow"} => prov = "deprovisioning"
       /\ job[w].pc = "delRow" => made = {} /\ mail[job[w].email] = {}

NoRowNoFiles ==
  \A e \in Emails : (\A i \in IDs : mailbox[i].email # e) =>
                       maildir[e] = {} /\ mail[e] = {}

SerialInv ==
  OneCallPerEmail /\ RowStillThere /\ DirsWhileNotReady /\ NoRowNoFiles
=============================================================================
