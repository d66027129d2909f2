---------------------------- MODULE DirectorySync ----------------------------
(***************************************************************************)
(* identity.Service.Sync: which entries of the directory it acts upon, and *)
(* what it does to the mailbox of each, one statement at a time, while     *)
(* administrators and the directory go on.                                 *)
(***************************************************************************)
EXTENDS Identities

VARIABLE sync      \* the Sync under way

IdleSync == [pc |-> "idle", list |-> [n \in Names |-> NoEntry], todo |-> {},
             auto |-> FALSE, dry |-> FALSE, only |-> {}, name |-> None, id |-> None]

SyncInit == TablesInit /\ sync = IdleSync

-----------------------------------------------------------------------------
(* ListUsers: the entries that map to an address. *)
ListUsers == {n \in Names : directory[n] # NoEntry /\ MailOf(directory[n]) # None}

(* Sync with its options; only: the addresses of the requested domain.     *)
SyncBegin(auto, dry, only) ==
  /\ sync.pc = "idle"
  /\ sync' = [IdleSync EXCEPT !.pc = "next", !.list = directory, !.todo = ListUsers,
                !.auto = auto, !.dry = dry, !.only = only]
  /\ UNCHANGED <<mailbox, directory, issued, faults>>

Domains == {Emails} \cup {{e} : e \in Emails} \cup {{}}

(* POST /ldap/sync; a body that cannot be decoded leaves every option off  *)
(* and every domain included.                                              *)
LDAPSync ==
  \/ SyncBegin(FALSE, FALSE, Emails)
  \/ \E auto, dry \in BOOLEAN, only \in Domains : SyncBegin(auto, dry, only)

(* identity sync, ldap sync *)
IdentitySyncCommand == \E auto, dry \in BOOLEAN, only \in Domains : SyncBegin(auto, dry, only)
LdapSyncCommand == \E auto, dry \in BOOLEAN, only \in Domains : SyncBegin(auto, dry, only)

SyncMail(n) == MailOf(sync.list[n])

(* Several entries of one listing claim the address. *)
Collides(n) == \E m \in Names \ {n} : sync.list[m] # NoEntry /\ SyncMail(m) = SyncMail(n)

Skip(n) == sync' = [sync EXCEPT !.todo = @ \ {n}]

MutSyncMissing(n) ==
  IF sync.auto /\ ~sync.dry
    THEN sync' = [sync EXCEPT !.pc = "create", !.todo = @ \ {n}]
    ELSE Skip(n)

(* Passes the checks on collisions and on the domain. *)
Selected(n) == ~Collides(n) /\ SyncMail(n) \in Registered \cap sync.only

MutSyncExisting(n) ==
  LET row == mailbox[SyncMail(n)]
  IN  IF row.provider # "local" /\ directory[n].locked /\ row.status = "suspended" /\ ~sync.dry
        THEN sync' = [sync EXCEPT !.pc = "suspend", !.name = n, !.id = row.id,
                                  !.todo = @ \ {n}]
        ELSE Skip(n)

(* A local mailbox is left alone; a disabled entry suspends its mailbox. *)
SyncExisting(n) ==
  LET row == mailbox[SyncMail(n)]
  IN  IF /\ row.provider # "local"
         /\ sync.list[n].locked
         /\ row.status = "active"
         /\ ~sync.dry
        THEN sync' = [sync EXCEPT !.pc = "suspend", !.name = n, !.id = row.id,
                                  !.todo = @ \ {n}]
        ELSE Skip(n)

(* No mailbox, or a query that failed: create one if asked to. *)
SyncMissing(n) ==
  IF sync.auto /\ ~sync.dry
    THEN sync' = [sync EXCEPT !.pc = "create", !.name = n, !.todo = @ \ {n}]
    ELSE Skip(n)

(* A failed query of the domain skips the entry; a failed query of the     *)
(* mailbox counts as none.                                                 *)
SyncEntry(n) ==
  /\ sync.pc = "next"
  /\ n \in sync.todo
  /\ \/ ~Selected(n) /\ Skip(n) /\ UNCHANGED faults
     \/ /\ Selected(n) /\ UNCHANGED faults
        /\ IF mailbox[SyncMail(n)] = NoRow THEN SyncMissing(n) ELSE SyncExisting(n)
     \/ Selected(n) /\ (Skip(n) \/ SyncMissing(n)) /\ Fault
  /\ UNCHANGED <<mailbox, directory, issued>>

(* The mailbox that mailbox.Service.Create makes, with a random password;  *)
(* "failed" stands for every provisioning state in which nobody logs in.   *)
InsertLdapManaged(e, prov) ==
  /\ mailbox[e] = NoRow /\ ~(IDs \subseteq issued)
  /\ mailbox' = [mailbox EXCEPT ![e] = [id |-> NewID, status |-> "active", prov |-> prov,
                                        provider |-> "local", hash |-> HashPassword(None)]]
  /\ issued' = issued \cup {NewID}

(* mailbox.Service.Create as a whole, its statements being those of        *)
(* MailboxLifecycle: it succeeds, with the last UPDATE of the state done   *)
(* or dropped, or fails after the INSERT or before it.                     *)
SyncCreate ==
  /\ sync.pc = "create"
  /\ LET e == SyncMail(sync.name)
         created == [sync EXCEPT !.pc = "setProvider", !.id = NewID]
         refused == [sync EXCEPT !.pc = "next"]
     IN  \/ InsertLdapManaged(e, "ready") /\ sync' = created /\ UNCHANGED faults
         \/ InsertLdapManaged(e, "failed") /\ sync' \in {created, refused} /\ Fault
         \/ /\ sync' = refused /\ UNCHANGED <<mailbox, issued>>
            /\ \/ (mailbox[e] # NoRow \/ IDs \subseteq issued) /\ UNCHANGED faults
               \/ Fault
  /\ UNCHANGED directory

MutSyncUpdate ==
  /\ sync.pc \in {"setProvider", "suspend"}
  /\ LET e == SyncMail(sync.name)
     IN  mailbox' = IF mailbox[e] = NoRow THEN mailbox
                    ELSE IF sync.pc = "suspend" THEN [mailbox EXCEPT ![e].status = "suspended"]
                    ELSE [mailbox EXCEPT ![e].provider = "ldap"]
  /\ sync' = [sync EXCEPT !.pc = IF @ = "suspend" THEN "next" ELSE "provision"]
  /\ UNCHANGED <<directory, issued, faults>>

(* UpdateIdentityProvider and UpdateStatus; their errors are dropped. *)
SyncUpdate ==
  /\ sync.pc \in {"setProvider", "suspend"}
  /\ \/ /\ IF sync.pc = "suspend" THEN UpdateById(sync.id, "status", "suspended")
                                  ELSE UpdateById(sync.id, "provider", "ldap")
        /\ UNCHANGED faults
     \/ UNCHANGED mailbox /\ Fault
  /\ sync' = [sync EXCEPT !.pc = IF @ = "suspend" THEN "next" ELSE "provision"]
  /\ UNCHANGED <<directory, issued>>

(* mailbox.Service.Provision as a whole, for the mailbox that has the      *)
(* address by now; its errors are dropped.                                 *)
SyncProvision ==
  /\ sync.pc = "provision"
  /\ LET row == mailbox[SyncMail(sync.name)]
     IN  \/ (row = NoRow \/ row.prov = "ready") /\ UNCHANGED <<mailbox, faults>>
         \/ /\ row # NoRow /\ row.prov # "ready"
            /\ \/ UpdateById(row.id, "prov", "ready") /\ UNCHANGED faults
               \/ UpdateById(row.id, "prov", "failed") /\ Fault
         \/ UNCHANGED mailbox /\ Fault
  /\ sync' = [sync EXCEPT !.pc = "next"]
  /\ UNCHANGED <<directory, issued>>

SyncEnd ==
  /\ sync.pc = "next" /\ sync.todo = {}
  /\ sync' = IdleSync
  /\ UNCHANGED <<mailbox, directory, issued, faults>>

SyncStep == (\E n \in Names : SyncEntry(n)) \/ SyncCreate \/ SyncUpdate \/ SyncProvision
            \/ SyncEnd

SyncNext ==
  \/ LDAPSync \/ IdentitySyncCommand \/ LdapSyncCommand
  \/ SyncStep
  \/ Administer /\ UNCHANGED sync

SyncSpec == SyncInit /\ [][SyncNext]_<<tables, sync>>

(* A Sync runs to its end, and the operator runs it again and again, for   *)
(* every domain and not only as a preview                                  *)
(* (docs/operations/ldap-directory.md:65).                                 *)
SyncFairness ==
  /\ WF_<<tables, sync>>(SyncStep)
  /\ SF_<<tables, sync>>(\E auto \in BOOLEAN : SyncBegin(auto, FALSE, Emails))

-----------------------------------------------------------------------------
(* Every variable has its type. *)
SyncTypeOK ==
  /\ TablesOK
  /\ sync.pc \in {"idle", "next", "create", "setProvider", "suspend", "provision"}
  /\ sync.pc \in {"create", "setProvider", "suspend", "provision"} => sync.name \in Names
  /\ sync.todo \subseteq Names

(* Sync changes the status of mailboxes that are LDAP managed and of no    *)
(* others, whatever is deleted and re-created between its two statements.  *)
SyncSuspendsOnlyLdap ==
  [][sync.pc = "suspend" /\ sync'.pc = "next" =>
       \A e \in Emails : mailbox'[e].status # mailbox[e].status
                           => mailbox[e].provider = "ldap"]_<<tables, sync>>

(* A mailbox is created for an entry only if no other entry of the listing *)
(* claims its address.                                                     *)
SyncCreatesUnambiguous ==
  sync.pc \in {"create", "setProvider", "suspend", "provision"} =>
    \A m \in Names \ {sync.name} :
      sync.list[m] = NoEntry \/ MailOf(sync.list[m]) # MailOf(sync.list[sync.name])

(* Sync acts on no address that two entries claim and suspends no mailbox  *)
(* that is not LDAP managed, although it acts on what it read earlier.     *)
SyncStaysInBounds == []SyncCreatesUnambiguous /\ SyncSuspendsOnlyLdap

(* A directory entry that is disabled for good ends up without an active   *)
(* LDAP mailbox, if Sync keeps running.                                    *)
DisabledIsSuspended ==
  \A n \in Names, e \in Registered :
    []<>\/ ~directory[n].locked \/ MailOf(directory[n]) # e
        \/ mailbox[e].status # "active" \/ mailbox[e].provider # "ldap"
        \/ \E m \in Names \ {n} : directory[m] # NoEntry /\ MailOf(directory[m]) = e
==============================================================================
